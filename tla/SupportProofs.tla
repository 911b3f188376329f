---------------------------- MODULE SupportProofs ----------------------------
(***************************************************************************)
(* Safety of the parts of Support, for any log, tables, histories, sizes,  *)
(* manifest and number of failures.  The parts share no state, so each has *)
(* an invariant and a lemma for its own next-state relation, and a theorem *)
(* combines them.                                                          *)
(*                                                                         *)
(* Most properties speak of the end: a launcher that has ended, a mark     *)
(* that is set, a finished evaluation.  The invariants say what holds on   *)
(* the way there: which processes can be out of reach in each phase        *)
(* (LauncherInv), what is staged and which version it is of (Staging), how *)
(* far a scan has come (Progress), that a level follows what is deserved   *)
(* (Tracks).  The types need little more, except that no list of targets   *)
(* is longer than its limit, which is about their ranks (ListIsShort).     *)
(***************************************************************************)
EXTENDS Support, FiniteSetTheorems, WellFoundedInduction, TLAPS

\* Nothing runs before a launcher has begun or after it has ended.
Quiet ==
  phase \in {"off", "ended"} => fresh = 0 /\ \A u \in Units : child[u] # "up"

\* A process can be unrecorded only while units are started.
FreshWhileStarting == fresh # 0 => phase = "starting"

\* A process that nobody will stop was given away to a signal or an exception.
\* `launch`, whose handler and `finally` come first, is never exposed to one.
StrayIsExposed == stray # {} => exposed

LaunchIsHandled ==
  /\ program = "launch" => handlers /\ guarded /\ ~exposed
  /\ phase = "off" => ~exposed

\* The parents of a worker have one process, so they hold none when they start.
OneWorker ==
  program \in {"dev-workers", "reload"} => \E u \in Units : units = {u}

LauncherInv ==
  /\ units \subseteq Units /\ fresh \in units \union {0}
  /\ child \in [Units -> {"none", "up", "down"}]
  /\ \A u \in Units : child[u] # "none" => u \in units
  /\ phase = "off" => \A u \in Units : child[u] = "none"
  /\ program \in {"", "launch", "run", "dev-workers", "reload"}
  /\ phase # "off" => program # ""
  /\ Quiet /\ FreshWhileStarting /\ StrayIsExposed /\ LaunchIsHandled
  /\ OneWorker

-----------------------------------------------------------------------------
(* Lemmas *)

\* The first of some units is one of them.
LEMMA FirstUnit ==
  ASSUME NEW S \in SUBSET Units, S # {}
  PROVE  Min(S) \in S
<1> DEFINE Less == OpToRel(<, Nat)
<1>1. S \subseteq Nat
  BY LauncherAssumption DEF Units
<1>2. PICK x \in S : \A y \in S : ~(<<y, x>> \in Less)
  <2>1. IsWellFoundedOn(Less, Nat)
    BY NatLessThanWellFounded
  <2> HIDE DEF Less
  <2> QED
    BY <1>1, <2>1, WFMin
<1>3. \A y \in S : ~(y < x)
  BY <1>1, <1>2 DEF OpToRel
<1>4. \A y \in S : x <= y
  <2> HIDE DEF Less
  <2> QED
    BY <1>1, <1>3
<1> QED
  BY <1>4 DEF Min

\* A launcher has not begun.
LEMMA LauncherStart ==
  ASSUME LauncherInit
  PROVE  LauncherInv
BY DEF LauncherInit, LauncherInv, Quiet, FreshWhileStarting, StrayIsExposed,
       LaunchIsHandled, OneWorker, Units

\* Every step of a launcher keeps track of its processes.
LEMMA LauncherStep ==
  ASSUME LauncherInv, LauncherNext
  PROVE  LauncherInv'
<1> USE DEF LauncherInv, Quiet, FreshWhileStarting, StrayIsExposed,
            LaunchIsHandled, OneWorker
<1>1. ASSUME NEW p \in {"launch", "run"}, NEW names, NEW groups,
             StartUnits(p, names, groups)
      PROVE  LauncherInv'
  <2> DEFINE selection == Selected(names, groups,
                            IF p = "launch" THEN "dev" ELSE "maintenance")
  <2>1. selection \subseteq Units
    BY DEF Selected
  <2>2. /\ phase = "off" /\ program' = p /\ units' = selection
        /\ phase' = "starting" /\ handlers' = (p = "launch")
        /\ guarded' = (p = "launch")
        /\ child' = child /\ fresh' = fresh /\ stray' = stray
        /\ exposed' = exposed
    BY <1>1 DEF StartUnits
  <2>3. fresh = 0 /\ \A u \in Units : child[u] = "none"
    BY <2>2
  <2> HIDE DEF selection
  <2> QED
    BY <1>1, <2>1, <2>2, <2>3
<1>2. ASSUME NEW p \in {"dev-workers", "reload"}, NEW u \in Units,
             StartWorker(p, u)
      PROVE  LauncherInv'
  <2>1. /\ phase = "off" /\ program' = p /\ units' = {u}
        /\ phase' = "starting" /\ handlers' = handlers
        /\ guarded' = guarded
        /\ child' = child /\ fresh' = fresh /\ stray' = stray
        /\ exposed' = exposed
    BY <1>2 DEF StartWorker
  <2>2. fresh = 0 /\ \A v \in Units : child[v] = "none"
    BY <2>1
  <2> QED
    BY <1>2, <2>1, <2>2
<1>3. CASE Spawn
  <2>1. Unstarted \subseteq units
    BY DEF Unstarted
  <2>2. Min(Unstarted) \in units
    BY <1>3, <2>1, FirstUnit DEF Spawn
  <2> QED
    BY <1>3, <2>2 DEF Spawn
<1>4. CASE SpawnFails
  <2>1. ASSUME program # "launch"
        PROVE  \A u \in Units : child[u] # "up"
    BY <1>4, <2>1 DEF SpawnFails, Unstarted, Up
  <2> QED
    BY <1>4, <2>1 DEF SpawnFails
<1>5. ASSUME NEW gone \in BOOLEAN, RecordProcess(gone)
      PROVE  LauncherInv'
  BY <1>5 DEF RecordProcess
<1>6. ASSUME NEW u \in Units, ProcessEnds(u)
      PROVE  LauncherInv'
  BY <1>6 DEF ProcessEnds, Up
<1>7. CASE SeeProcessEnded
  BY <1>7 DEF SeeProcessEnded
<1>8. ASSUME NEW succeeded \in BOOLEAN, UnitEnded(succeeded)
      PROVE  LauncherInv'
  BY <1>8 DEF UnitEnded, Up
<1>9. CASE SeeFilesChanged
  BY <1>9 DEF SeeFilesChanged
<1>10. CASE SeeStop
  BY <1>10 DEF SeeStop
<1>11. ASSUME NEW u \in Units, StopProcess(u)
       PROVE  LauncherInv'
  BY <1>11 DEF StopProcess, Up
<1>12. CASE AllStopped
  BY <1>12 DEF AllStopped, Up
<1>13. CASE Signalled
  <2>1. CASE handlers /\ program = "launch" /\ HandleLaunchSignal
    BY <1>13, <2>1 DEF Signalled, HandleLaunchSignal, SetStopEvent
  <2>2. CASE handlers /\ program = "dev-workers" /\ HandleWorkersSignal
    BY <1>13, <2>2 DEF Signalled, HandleWorkersSignal
  <2>3. CASE ~handlers /\ DieOfSignal
    BY <1>13, <2>3 DEF Signalled, DieOfSignal, Abandon, Up
  <2> QED
    BY <1>13, <2>1, <2>2, <2>3 DEF Signalled
<1>14. CASE ExceptionEnds
  <2>1. CASE guarded
    BY <1>14, <2>1 DEF ExceptionEnds
  <2>2. CASE ~guarded
    BY <1>14, <2>2 DEF ExceptionEnds, Abandon, Up
  <2> QED
    BY <2>1, <2>2
<1> QED
  BY <1>1, <1>2, <1>3, <1>4, <1>5, <1>6, <1>7, <1>8, <1>9, <1>10, <1>11,
     <1>12, <1>13, <1>14 DEF LauncherNext

-----------------------------------------------------------------------------
(* The lookup tables *)

\* What a run has read and replaced, by the point it has reached.
Staging ==
  /\ kind = "sdc" => /\ \A p \in Parts : source[p] = source[1]
                     /\ build.headed <= source[1] /\ stamp <= source[1]
  /\ build.pc # "off" => \A p \in Parts \ build.left : build.staged[p] # {}
                            \/ kind = "osm" \/ build.pc = "stamp"
  /\ build.pc = "swap" => build.left = {}
  /\ kind = "sdc" /\ build.pc = "read" => build.file # 0
  /\ kind = "sdc" /\ build.pc \in {"read", "swap"}
       /\ source[1] \in {stamp, build.headed} =>
     /\ build.file = source[1]
     /\ \A p \in Parts : build.staged[p] \subseteq {source[1]} \X (1..build.attempt)
     /\ \A p \in Parts \ build.left : <<source[1], build.attempt>> \in build.staged[p]
  /\ build.pc \in {"read", "swap"} => build.attempt # 0
  /\ kind = "sdc" /\ build.pc = "stamp" /\ source[1] = build.headed => IsCopy

LookupInv == LookupTypeOK /\ Staging /\ StampedIsCurrent /\ NeverPartial

LEMMA LookupStart ==
  ASSUME LookupInit
  PROVE  LookupInv
<1>1. 1 \in Parts /\ 1 \in Versions /\ LastVersion \in Nat /\ LastPart \in Nat
  BY LookupAssumption DEF Parts, Versions
<1>2. LookupTypeOK
  <2>1. Missing \in Table
    BY DEF Missing, Table
  <2> QED
    BY <1>1, <2>1, LookupAssumption
    DEF LookupInit, LookupTypeOK, Kinds, NoBuild
<1>3. Staging
  BY <1>1 DEF LookupInit, Staging, NoBuild
<1>4. StampedIsCurrent
  BY <1>1 DEF LookupInit, StampedIsCurrent
<1>5. NeverPartial
  BY DEF LookupInit, NeverPartial, Whole, Missing
<1> QED
  BY <1>2, <1>3, <1>4, <1>5 DEF LookupInv

\* What staging a part makes of a run.
LEMMA StageMakes ==
  ASSUME LookupTypeOK, NEW p \in Parts, NEW counts \in SUBSET Counts,
         Stage(p, counts)
  PROVE  /\ build' \in [pc : {"off", "read", "swap", "stamp"},
                        headed : 0..LastVersion, file : 0..LastVersion,
                        attempt : 0..MaxAttempts, left : SUBSET Parts,
                        staged : Table]
         /\ build'.pc = IF build.left = {p} THEN "swap" ELSE "read"
         /\ build'.headed = build.headed /\ build'.file = build.file
         /\ build'.attempt = build.attempt
         /\ build'.left = build.left \ {p}
         /\ build'.staged = [build.staged EXCEPT ![p] = counts]
<1> DEFINE b == [pc |-> IF build.left = {p} THEN "swap" ELSE "read",
                 headed |-> build.headed, file |-> build.file,
                 attempt |-> build.attempt, left |-> build.left \ {p},
                 staged |-> [build.staged EXCEPT ![p] = counts]]
<1>1. build' = b
  BY DEF Stage, LookupTypeOK
<1>2. build.staged \in Table /\ b.staged \in Table
  BY DEF LookupTypeOK, Table
<1>3. b \in [pc : {"off", "read", "swap", "stamp"},
             headed : 0..LastVersion, file : 0..LastVersion,
             attempt : 0..MaxAttempts, left : SUBSET Parts, staged : Table]
  BY <1>2 DEF LookupTypeOK
<1> QED
  BY <1>1, <1>3

\* What a run begins with.
LEMMA ReadingType ==
  ASSUME LookupTypeOK, NEW headed \in 0..LastVersion
  PROVE  /\ Reading(headed) \in [pc : {"off", "read", "swap", "stamp"},
                                 headed : 0..LastVersion, file : 0..LastVersion,
                                 attempt : 0..MaxAttempts, left : SUBSET Parts,
                                 staged : Table]
         /\ Reading(headed).pc = "read" /\ Reading(headed).headed = headed
         /\ Reading(headed).left = Parts
         /\ Reading(headed).staged = Missing
         /\ Reading(headed).attempt = 1
         /\ kind = "sdc" => Reading(headed).file = source[1]
<1>0. 1 \in Parts /\ 1 \in 0..MaxAttempts /\ 0 \in 0..LastVersion
  BY LookupAssumption DEF Parts
<1>1. source[1] \in 0..LastVersion
  BY <1>0, LookupAssumption DEF LookupTypeOK, Versions
<1>2. Missing \in Table
  BY DEF Missing, Table
<1> DEFINE file == IF kind = "sdc" THEN source[1] ELSE 0
           r == [pc |-> "read", headed |-> headed, file |-> file,
                 attempt |-> 1, left |-> Parts, staged |-> Missing]
<1>3. Reading(headed) = r
  BY DEF Reading
<1>4. file \in 0..LastVersion /\ (kind = "sdc" => file = source[1])
  BY <1>0, <1>1
<1> HIDE DEF file
<1>5. r \in [pc : {"off", "read", "swap", "stamp"},
             headed : 0..LastVersion, file : 0..LastVersion,
             attempt : 0..MaxAttempts, left : SUBSET Parts, staged : Table]
  BY <1>0, <1>2, <1>4
<1>6. /\ r.pc = "read" /\ r.headed = headed /\ r.left = Parts
      /\ r.staged = Missing /\ r.attempt = 1
      /\ kind = "sdc" => r.file = source[1]
  BY <1>4
<1> HIDE DEF r
<1> QED
  BY <1>3, <1>5, <1>6

\* A part is staged with at least one count, and that of a dump has one more by
\* this download of the file.
LEMMA StageKeeps ==
  ASSUME LookupInv, NEW p \in Parts, NEW counts \in SUBSET Counts,
         counts # {}, build.pc = "read", Stage(p, counts),
         kind = "sdc" =>
           counts = build.staged[p] \union {<<build.file, build.attempt>>},
         UNCHANGED <<kind, source, table, stamp, snapshot, faults>>
  PROVE  LookupInv'
<1>1. LookupTypeOK'
  BY StageMakes DEF LookupInv, LookupTypeOK
<1>2. Staging'
  <2>1. /\ build'.pc = IF build.left = {p} THEN "swap" ELSE "read"
        /\ build'.headed = build.headed /\ build'.file = build.file
        /\ build'.attempt = build.attempt
        /\ build'.left = build.left \ {p}
        /\ build'.staged = [build.staged EXCEPT ![p] = counts]
        /\ build.staged \in [Parts -> SUBSET Counts]
        /\ build.attempt \in Nat \ {0}
    BY StageMakes, LookupAssumption DEF LookupInv, LookupTypeOK, Table, Staging
  <2>2. \A r \in Parts \ build'.left :
          build'.staged[r] # {} \/ kind = "osm"
    <3> TAKE r \in Parts \ build'.left
    <3>1. CASE r = p
      BY <2>1, <3>1
    <3>2. CASE r # p
      BY <2>1, <3>2 DEF LookupInv, Staging
    <3> QED
      BY <3>1, <3>2
  <2>3. build'.pc = "swap" => build'.left = {}
    BY <2>1
  <2>4. ASSUME kind = "sdc", source[1] \in {stamp, build.headed}
        PROVE  /\ build.file = source[1]
               /\ \A r \in Parts :
                    build'.staged[r] \subseteq {source[1]} \X (1..build.attempt)
               /\ \A r \in Parts \ build'.left :
                    <<source[1], build.attempt>> \in build'.staged[r]
    <3>1. /\ build.file = source[1]
          /\ \A r \in Parts :
               build.staged[r] \subseteq {source[1]} \X (1..build.attempt)
          /\ \A r \in Parts \ build.left :
               <<source[1], build.attempt>> \in build.staged[r]
      BY <2>4 DEF LookupInv, Staging
    <3>2. <<source[1], build.attempt>> \in {source[1]} \X (1..build.attempt)
      BY <2>1
    <3>3. counts = build.staged[p] \union {<<source[1], build.attempt>>}
      BY <2>4, <3>1
    <3>4. /\ build'.staged[p] = counts
          /\ \A r \in Parts \ {p} : build'.staged[r] = build.staged[r]
      BY <2>1
    <3> QED
      BY <2>1, <3>1, <3>2, <3>3, <3>4
  <2> QED
    BY <2>1, <2>2, <2>3, <2>4 DEF LookupInv, Staging
<1> QED
  BY <1>1, <1>2 DEF LookupInv, StampedIsCurrent, IsCopy, NeverPartial, Whole

\* A run that ends without replacing or stamping anything.
LEMMA EndKeeps ==
  ASSUME LookupInv, build' = NoBuild, faults' \in 0..MaxFaults,
         UNCHANGED <<kind, source, table, stamp, snapshot>>
  PROVE  LookupInv'
<1>1. NoBuild \in [pc : {"off", "read", "swap", "stamp"},
                   headed : 0..LastVersion, file : 0..LastVersion,
                   attempt : 0..MaxAttempts, left : SUBSET Parts,
                   staged : Table]
  BY LookupAssumption DEF NoBuild, Missing, Table
<1>2. LookupTypeOK'
  BY <1>1 DEF LookupInv, LookupTypeOK
<1>3. Staging'
  <2>1. 0 <= source[1]
    BY LookupAssumption DEF LookupInv, LookupTypeOK, Parts, Versions
  <2> QED
    BY <2>1 DEF LookupInv, Staging, NoBuild
<1> QED
  BY <1>2, <1>3 DEF LookupInv, StampedIsCurrent, IsCopy, NeverPartial, Whole

\* A run that has read every part replaces the table; only a dump's may go on.
LEMMA ReplaceKeeps ==
  ASSUME LookupInv, NEW next, Replace(next),
         \/ next = NoBuild
         \/ kind = "sdc" /\ next = [NoBuild EXCEPT !.pc = "stamp",
                                                   !.headed = build.headed]
  PROVE  LookupInv'
<1>1. /\ build.pc = "swap" /\ table' = build.staged /\ build' = next
      /\ UNCHANGED <<kind, source, stamp, snapshot, faults>>
  BY DEF Replace
<1>2. kind # "osm" => \A p \in Parts : table'[p] # {}
  BY <1>1 DEF LookupInv, Staging
<1>3. kind = "sdc" /\ source[1] \in {stamp, build.headed} =>
        IsCopy'
  <2> SUFFICES ASSUME kind = "sdc", source[1] \in {stamp, build.headed}
               PROVE  IsCopy'
    OBVIOUS
  <2>1. build.attempt \in 1..MaxAttempts
    BY <1>1, LookupAssumption DEF LookupInv, LookupTypeOK, Staging
  <2>2. /\ \A p \in Parts :
             build.staged[p] \subseteq {source[1]} \X (1..build.attempt)
        /\ \A p \in Parts : <<source[1], build.attempt>> \in build.staged[p]
        /\ \A p \in Parts : source[p] = source[1]
    BY <1>1 DEF LookupInv, Staging
  <2> QED
    BY <1>1, <2>1, <2>2 DEF IsCopy
<1>4. /\ next \in [pc : {"off", "read", "swap", "stamp"},
                   headed : 0..LastVersion, file : 0..LastVersion,
                   attempt : 0..MaxAttempts, left : SUBSET Parts,
                   staged : Table]
      /\ next.pc \in {"off", "stamp"} /\ next.left = {}
      /\ next.headed \in {0, build.headed}
      /\ next.pc = "stamp" => kind = "sdc" /\ next.headed = build.headed
  <2>1. Missing \in Table /\ 0 \in 0..LastVersion /\ 0 \in 0..MaxAttempts
    BY LookupAssumption DEF Missing, Table
  <2>2. build.headed \in 0..LastVersion
    BY DEF LookupInv, LookupTypeOK
  <2>3. \/ next = NoBuild
        \/ /\ kind = "sdc"
           /\ next = [pc |-> "stamp", headed |-> build.headed, file |-> 0,
                      attempt |-> 0, left |-> {}, staged |-> Missing]
    BY DEF NoBuild
  <2>4. CASE next = NoBuild
    BY <2>1, <2>4 DEF NoBuild
  <2>5. CASE kind = "sdc" /\ next # NoBuild
    BY <2>1, <2>2, <2>3, <2>5
  <2> QED
    BY <2>3, <2>4, <2>5
<1>5. LookupTypeOK'
  BY <1>1, <1>4 DEF LookupInv, LookupTypeOK
<1>6. Staging'
  <2>1. 0 <= source[1]
    BY LookupAssumption DEF LookupInv, LookupTypeOK, Parts, Versions
  <2>2. kind = "sdc" => build'.headed <= source[1]
    BY <1>1, <1>4, <2>1 DEF LookupInv, Staging
  <2>3. ASSUME build'.pc = "stamp", source[1] = build'.headed
        PROVE  IsCopy'
    BY <1>1, <1>3, <1>4, <2>3
  <2>4. /\ source' = source /\ stamp' = stamp /\ kind' = kind
        /\ build'.pc \in {"off", "stamp"} /\ build'.left = {}
    BY <1>1, <1>4
  <2> QED
    BY <2>2, <2>3, <2>4 DEF LookupInv, Staging
<1>7. StampedIsCurrent'
  BY <1>1, <1>3 DEF StampedIsCurrent
<1>8. NeverPartial'
  BY <1>1, <1>2 DEF LookupInv, NeverPartial, Whole
<1> QED
  BY <1>5, <1>6, <1>7, <1>8 DEF LookupInv

\* A run begins with nothing staged.
LEMMA StartKeeps ==
  ASSUME LookupInv, NEW headed \in {0, source[1]}, build' = Reading(headed),
         faults' \in 0..MaxFaults,
         UNCHANGED <<kind, source, table, stamp, snapshot>>
  PROVE  LookupInv'
<1>1. source[1] \in 1..LastVersion
  BY LookupAssumption DEF LookupInv, LookupTypeOK, Parts, Versions
<1>2. headed \in 0..LastVersion /\ headed <= source[1] /\ LookupTypeOK
  BY <1>1, LookupAssumption DEF LookupInv
<1>3. /\ build'.pc = "read" /\ build'.headed = headed /\ build'.left = Parts
      /\ build'.staged = Missing /\ build'.attempt = 1
      /\ kind = "sdc" => build'.file = source[1]
  BY <1>2, ReadingType
<1>4. LookupTypeOK'
  BY <1>2, ReadingType DEF LookupTypeOK
<1>5. Staging'
  <2>1. \A p \in Parts : build'.staged[p] = {}
    BY <1>3 DEF Missing
  <2>2. Parts \ build'.left = {}
    BY <1>3
  <2> QED
    BY <1>1, <1>2, <1>3, <2>1, <2>2 DEF LookupInv, Staging
<1> QED
  BY <1>4, <1>5 DEF LookupInv, StampedIsCurrent, IsCopy, NeverPartial, Whole

\* The source moves on: no stamp and no announcement is that of the new dump.
LEMMA SourceMoves ==
  ASSUME LookupInv, Publish \/ \E p \in Parts : Revise(p)
  PROVE  LookupInv'
<1>1. CASE Publish
  <2>1. /\ kind = "sdc" /\ \A p \in Parts : source[p] < LastVersion
        /\ source' = [p \in Parts |-> source[p] + 1]
        /\ UNCHANGED <<kind, table, stamp, build, snapshot, faults>>
    BY <1>1 DEF Publish
  <2>2. 1 \in Parts /\ \A p \in Parts : source[p] \in 1..LastVersion
    BY LookupAssumption DEF LookupInv, LookupTypeOK, Parts, Versions
  <2>3. LookupTypeOK'
    BY <2>1, <2>2, LookupAssumption DEF LookupInv, LookupTypeOK, Versions
  <2>4. source'[1] = source[1] + 1 /\ source[1] \in Nat
    BY <2>1, <2>2
  <2>5. build.headed \in Nat /\ stamp \in Nat
    BY LookupAssumption DEF LookupInv, LookupTypeOK
  <2>6. /\ stamp <= source[1] /\ build.headed <= source[1]
        /\ \A p \in Parts : source[p] = source[1]
    BY <2>1 DEF LookupInv, Staging
  <2>7. /\ stamp < source'[1] /\ build.headed < source'[1]
        /\ \A p \in Parts : source'[p] = source'[1]
    BY <2>1, <2>2, <2>4, <2>5, <2>6
  <2>8. stamp # source'[1] /\ build.headed # source'[1]
        /\ stamp <= source'[1] /\ build.headed <= source'[1]
    BY <2>4, <2>5, <2>7
  <2>9. Staging'
    BY <2>1, <2>7, <2>8 DEF LookupInv, Staging
  <2>10. StampedIsCurrent'
    BY <2>1, <2>8 DEF StampedIsCurrent
  <2> QED
    BY <2>1, <2>3, <2>9, <2>10 DEF LookupInv, NeverPartial, Whole
<1>2. ASSUME NEW p \in Parts, Revise(p)
      PROVE  LookupInv'
  <2>1. /\ kind # "sdc" /\ source[p] < LastVersion
        /\ source' = [source EXCEPT ![p] = source[p] + 1]
        /\ UNCHANGED <<kind, table, stamp, build, snapshot, faults>>
    BY <1>2 DEF Revise
  <2>2. source[p] + 1 \in Versions
    BY <2>1, LookupAssumption DEF LookupInv, LookupTypeOK, Versions
  <2>3. LookupTypeOK'
    BY <2>1, <2>2 DEF LookupInv, LookupTypeOK
  <2> QED
    BY <2>1, <2>3 DEF LookupInv, Staging, StampedIsCurrent, IsCopy, NeverPartial, Whole
<1> QED
  BY <1>1, <1>2

\* Each part a job reads is staged whole.
LEMMA PartRead ==
  ASSUME LookupInv, NEW p \in Parts,
         CountChunk(p) \/ FetchPage(p) \/ FetchSite(p) \/ FetchClass(p)
  PROVE  LookupInv'
<1>1. source[p] \in Versions /\ build.staged[p] \in SUBSET Counts
  BY DEF LookupInv, LookupTypeOK, Table
<1>2. CASE CountChunk(p)
  <2>1. /\ kind = "sdc" /\ build.pc = "read"
        /\ Stage(p, build.staged[p] \union {<<build.file, build.attempt>>})
        /\ UNCHANGED <<kind, source, table, stamp, snapshot, faults>>
    BY <1>2 DEF CountChunk
  <2>2. <<build.file, build.attempt>> \in Counts
    <3>1. build.file \in Versions
      BY <2>1 DEF LookupInv, LookupTypeOK, Staging, Versions
    <3>2. build.attempt \in 1..MaxAttempts
      BY <2>1, LookupAssumption DEF LookupInv, LookupTypeOK, Staging
    <3> QED
      BY <3>1, <3>2 DEF Counts
  <2> QED
    BY <1>1, <2>1, <2>2, StageKeeps
<1>3. CASE FetchPage(p) \/ FetchSite(p) \/ FetchClass(p)
  <2>1. /\ kind # "sdc" /\ build.pc = "read" /\ Stage(p, {<<source[p], 1>>})
        /\ UNCHANGED <<kind, source, table, stamp, snapshot, faults>>
    BY <1>3 DEF FetchPage, FetchSite, FetchClass
  <2>2. {<<source[p], 1>>} \in SUBSET Counts
    BY <1>1, LookupAssumption DEF Counts
  <2> QED
    BY <2>1, <2>2, StageKeeps
<1> QED
  BY <1>2, <1>3

\* Whatever happens to the source, a job or a reader.
LEMMA LookupStep ==
  ASSUME LookupInv, LookupNext
  PROVE  LookupInv'
<1>1. CASE Publish \/ \E p \in Parts : Revise(p)
  BY <1>1, SourceMoves
<1>2. CASE StartSdc
  BY <1>2, StartKeeps DEF StartSdc, LookupInv, LookupTypeOK
<1>3. CASE StartSdcUndated
  <2>1. build' = Reading(0) /\ faults' \in 0..MaxFaults
    BY <1>3, LookupAssumption DEF StartSdcUndated, LookupInv, LookupTypeOK
  <2> QED
    BY <1>3, <2>1, StartKeeps DEF StartSdcUndated
<1>4. CASE StartOsm \/ StartNamespaces \/ StartProperties
  BY <1>4, StartKeeps
  DEF StartOsm, StartNamespaces, StartProperties, LookupInv, LookupTypeOK
<1>5. ASSUME NEW p \in Parts,
             CountChunk(p) \/ FetchPage(p) \/ FetchSite(p) \/ FetchClass(p)
      PROVE  LookupInv'
  BY <1>5, PartRead
<1>6. CASE RetryDownload
  <2>1. /\ kind = "sdc" /\ build.pc = "read" /\ build.attempt < MaxAttempts
        /\ faults < MaxFaults /\ faults' = faults + 1
        /\ build' = [build EXCEPT !.attempt = build.attempt + 1,
                                  !.left = Parts, !.file = source[1]]
        /\ UNCHANGED <<kind, source, table, stamp, snapshot>>
    BY <1>6 DEF RetryDownload
  <2>2. source[1] \in 1..LastVersion /\ build.attempt + 1 \in 0..MaxAttempts
        /\ faults' \in 0..MaxFaults
    BY <2>1, LookupAssumption DEF LookupInv, LookupTypeOK, Parts, Versions
  <2>3. /\ build'.pc = "read" /\ build'.left = Parts
        /\ build'.file = source[1] /\ build'.headed = build.headed
        /\ build'.staged = build.staged /\ build'.attempt = build.attempt + 1
    BY <2>1 DEF LookupInv, LookupTypeOK
  <2>4. LookupTypeOK'
    <3> DEFINE b == [pc |-> build.pc, headed |-> build.headed,
                     file |-> source[1], attempt |-> build.attempt + 1,
                     left |-> Parts, staged |-> build.staged]
    <3>1. build' = b
      BY <2>1 DEF LookupInv, LookupTypeOK
    <3>2. b \in [pc : {"off", "read", "swap", "stamp"},
                 headed : 0..LastVersion, file : 0..LastVersion,
                 attempt : 0..MaxAttempts, left : SUBSET Parts,
                 staged : Table]
      BY <2>2 DEF LookupInv, LookupTypeOK
    <3> HIDE DEF b
    <3> QED
      BY <2>1, <2>2, <3>1, <3>2 DEF LookupInv, LookupTypeOK
  <2>5. build.attempt \in Nat /\ build'.attempt # 0
        /\ 1..build.attempt \subseteq 1..build'.attempt
    BY <2>3, LookupAssumption DEF LookupInv, LookupTypeOK
  <2>6. ASSUME source[1] \in {stamp, build.headed}
        PROVE  \A p \in Parts :
                 build'.staged[p] \subseteq {source[1]} \X (1..build'.attempt)
    <3>1. \A p \in Parts :
            build.staged[p] \subseteq {source[1]} \X (1..build.attempt)
      BY <2>1, <2>6 DEF LookupInv, Staging
    <3>2. {source[1]} \X (1..build.attempt) \subseteq {source[1]} \X (1..build'.attempt)
      BY <2>5
    <3> QED
      BY <2>3, <3>1, <3>2
  <2>7. Parts \ build'.left = {}
    BY <2>3
  <2>8. Staging'
    BY <2>1, <2>2, <2>3, <2>5, <2>6, <2>7 DEF LookupInv, Staging
  <2> QED
    BY <2>1, <2>4, <2>8
    DEF LookupInv, StampedIsCurrent, IsCopy, NeverPartial, Whole
<1>7. CASE EndScan
  <2>1. /\ kind = "osm" /\ faults < MaxFaults /\ faults' = faults + 1
        /\ build' = [build EXCEPT !.pc = "swap", !.left = {}]
        /\ UNCHANGED <<kind, source, table, stamp, snapshot>> /\ build.pc = "read"
    BY <1>7 DEF EndScan
  <2>2. faults' \in 0..MaxFaults
    BY <2>1, LookupAssumption DEF LookupInv, LookupTypeOK
  <2>3. LookupTypeOK'
    BY <2>1, <2>2 DEF LookupInv, LookupTypeOK
  <2>4. build'.pc = "swap" /\ build'.left = {} /\ build'.attempt = build.attempt
    BY <2>1 DEF LookupInv, LookupTypeOK
  <2> QED
    BY <2>1, <2>3, <2>4
    DEF LookupInv, Staging, StampedIsCurrent, IsCopy, NeverPartial, Whole
<1>8. CASE SwapSdc
  BY <1>8, ReplaceKeeps DEF SwapSdc
<1>9. CASE SwapOsm \/ SwapNamespaces \/ SwapProperties
  BY <1>9, ReplaceKeeps DEF SwapOsm, SwapNamespaces, SwapProperties
<1>10. CASE StampDump
  <2>1. /\ build.pc = "stamp" /\ stamp' = build.headed /\ build' = NoBuild
        /\ UNCHANGED <<kind, source, table, snapshot, faults>>
    BY <1>10 DEF StampDump
  <2>2. build'.pc = "off" /\ build'.headed = 0
    BY <2>1 DEF NoBuild
  <2>3. NoBuild \in [pc : {"off", "read", "swap", "stamp"},
                     headed : 0..LastVersion, file : 0..LastVersion,
                     attempt : 0..MaxAttempts, left : SUBSET Parts,
                     staged : Table]
    BY LookupAssumption DEF NoBuild, Missing, Table
  <2>4. LookupTypeOK'
    BY <2>1, <2>3 DEF LookupInv, LookupTypeOK
  <2>5. 0 <= source[1]
    BY LookupAssumption DEF LookupInv, LookupTypeOK, Parts, Versions
  <2>6. Staging' /\ StampedIsCurrent'
    <3>1. kind = "sdc" /\ stamp' = source[1] => IsCopy
      BY <2>1 DEF LookupInv, Staging
    <3> QED
      BY <2>1, <2>2, <2>5, <3>1 DEF LookupInv, Staging, StampedIsCurrent, IsCopy
  <2> QED
    BY <2>1, <2>4, <2>6 DEF LookupInv, NeverPartial, Whole
<1>11. CASE GiveUp
  <2>1. faults' \in 0..MaxFaults
    BY <1>11, LookupAssumption DEF GiveUp, LookupInv, LookupTypeOK
  <2> QED
    BY <1>11, <2>1, EndKeeps DEF GiveUp
<1>12. CASE LoadSnapshot \/ RestartReader \/ \E p \in Parts : LookUpSite(p)
  <2>1. /\ snapshot' \in {table, NoSnapshot}
        /\ UNCHANGED <<kind, source, table, stamp, build, faults>>
    BY <1>12 DEF LoadSnapshot, RestartReader, LookUpSite
  <2> QED
    BY <2>1 DEF LookupInv, LookupTypeOK, Staging, StampedIsCurrent, IsCopy,
                NeverPartial, Whole
<1> QED
  BY <1>1, <1>2, <1>3, <1>4, <1>5, <1>6, <1>7, <1>8, <1>9, <1>10, <1>11,
     <1>12 DEF LookupNext

-----------------------------------------------------------------------------
(* The backfill of creations *)

\* What a backfill is about to write is as genuine as what is stored.
CreationInv ==
  /\ pass \in [step : {"list", "fetch", "write"}, targets : SUBSET NewItems,
               found : SUBSET NewRows]
  /\ request \in [step : {"list", "fetch", "write"},
                  revisions : SUBSET FirstRevisions, found : SUBSET NewRows]
  /\ firsts \in [NewItems -> SUBSET FirstRevisions]
  /\ creation \in [NewItems -> FirstRevisions \union {NoCreation}]
  /\ \A f \in pass.found \union request.found : f.first \in firsts[f.item]
  /\ CreationGenuine

\* A row is one of the first revisions it was chosen from.
LEMMA RowsGenuine ==
  ASSUME NEW from \in [NewItems -> SUBSET FirstRevisions],
         NEW found \in Rows(from)
  PROVE  found \subseteq NewRows /\ \A f \in found : f.first \in from[f.item]
<1> DEFINE items == {q \in NewItems : from[q] # {}}
           chosen == {c \in [items -> FirstRevisions] :
                        \A q \in items : c[q] \in Earliest(from[q])}
<1>1. PICK c \in chosen : found = {[item |-> q, first |-> c[q]] : q \in items}
  BY Zenon DEF Rows
<1>2. \A q \in items : c[q] \in FirstRevisions /\ c[q] \in from[q]
  BY DEF Earliest
<1>3. ASSUME NEW f \in found
      PROVE  f \in NewRows /\ f.first \in from[f.item]
  <2>1. PICK q \in items : f = [item |-> q, first |-> c[q]]
    BY <1>1, <1>3
  <2> HIDE DEF chosen
  <2> QED
    BY <1>2, <2>1 DEF NewRows
<1> QED
  BY <1>3

LEMMA CreationStart ==
  ASSUME CreationInit
  PROVE  CreationInv
BY DEF CreationInit, CreationInv, CreationGenuine, IdlePass, IdleRequest

LEMMA CreationStep ==
  ASSUME CreationInv, CreationNext
  PROVE  CreationInv'
<1> USE DEF CreationInv
<1>1. ASSUME NEW q \in NewItems, Want(q) \/ Unwant(q)
      PROVE  CreationInv'
  BY <1>1 DEF Want, Unwant, CreationGenuine
<1>2. ASSUME NEW q \in NewItems, NEW r \in FirstRevisions, ShowFirst(q, r)
      PROVE  CreationInv'
  <2>1. /\ firsts' = [firsts EXCEPT ![q] = firsts[q] \union {r}]
        /\ UNCHANGED <<wanted, creation, pass, request, setbacks>>
    BY <1>2 DEF ShowFirst
  <2>2. /\ firsts' \in [NewItems -> SUBSET FirstRevisions]
        /\ \A p \in NewItems : firsts[p] \subseteq firsts'[p]
    BY <2>1
  <2>3. \A f \in pass.found \union request.found : f.item \in NewItems
    BY DEF NewRows
  <2> QED
    BY <2>1, <2>2, <2>3 DEF CreationGenuine
<1>3. CASE ListTargets
  BY <1>3 DEF ListTargets, CreationGenuine
<1>4. CASE FetchTargets
  <2> DEFINE from == [q \in NewItems |-> IF q \in pass.targets
                                         THEN firsts[q] ELSE {}]
  <2>1. PICK found \in Rows(from) :
          pass' = IF found = {} THEN IdlePass
                  ELSE [pass EXCEPT !.step = "write", !.found = found]
    BY <1>4 DEF FetchTargets
  <2>2. from \in [NewItems -> SUBSET FirstRevisions]
        /\ \A q \in NewItems : from[q] \subseteq firsts[q]
    OBVIOUS
  <2> HIDE DEF from
  <2>3. found \subseteq NewRows /\ \A f \in found : f.first \in firsts[f.item]
    BY <2>2, RowsGenuine DEF NewRows
  <2>4. UNCHANGED <<wanted, firsts, creation, request, setbacks>>
    BY <1>4 DEF FetchTargets
  <2>5. /\ pass' \in [step : {"list", "fetch", "write"},
                      targets : SUBSET NewItems, found : SUBSET NewRows]
        /\ pass'.found \in {{}, found}
    BY <2>1, <2>3 DEF IdlePass
  <2> QED
    BY <2>3, <2>4, <2>5 DEF CreationGenuine
<1>5. ASSUME NEW f \in NewRows, WriteFound(f)
      PROVE  CreationInv'
  <2>1. /\ f \in pass.found
        /\ creation' = [creation EXCEPT ![f.item] = f.first]
        /\ UNCHANGED <<firsts, request>>
    BY <1>5 DEF WriteFound, Upsert
  <2>2. /\ pass' \in [step : {"list", "fetch", "write"},
                      targets : SUBSET NewItems, found : SUBSET NewRows]
        /\ pass'.found \subseteq pass.found
    BY <1>5 DEF WriteFound, IdlePass
  <2>3. f.item \in NewItems /\ f.first \in FirstRevisions
        /\ f.first \in firsts[f.item]
    BY <2>1 DEF NewRows
  <2> QED
    BY <2>1, <2>2, <2>3 DEF CreationGenuine
<1>6. CASE FailPass
  BY <1>6 DEF FailPass, IdlePass, CreationGenuine
<1>7. ASSUME NEW by, NEW from, NEW to, StartRequest(by, from, to)
      PROVE  CreationInv'
  <2> DEFINE revisions == {r \in FirstRevisions : r.by = by /\ r.at >= from
                                                            /\ r.at < to}
  <2>1. /\ request' = [request EXCEPT !.step = "fetch",
                                      !.revisions = revisions]
        /\ UNCHANGED <<wanted, firsts, creation, pass, setbacks>>
    BY <1>7 DEF StartRequest
  <2>2. revisions \in SUBSET FirstRevisions
    OBVIOUS
  <2> HIDE DEF revisions
  <2> QED
    BY <2>1, <2>2 DEF CreationGenuine
<1>8. CASE FetchUser
  <2> DEFINE from == [q \in NewItems |-> firsts[q] \intersect
                                           request.revisions]
  <2>1. PICK found \in Rows(from) :
          request' = IF found = {} THEN IdleRequest
                     ELSE [request EXCEPT !.step = "write", !.found = found]
    BY <1>8 DEF FetchUser
  <2>2. from \in [NewItems -> SUBSET FirstRevisions]
        /\ \A q \in NewItems : from[q] \subseteq firsts[q]
    OBVIOUS
  <2> HIDE DEF from
  <2>3. found \subseteq NewRows /\ \A f \in found : f.first \in firsts[f.item]
    BY <2>2, RowsGenuine DEF NewRows
  <2>4. UNCHANGED <<wanted, firsts, creation, pass, setbacks>>
    BY <1>8 DEF FetchUser
  <2>5. /\ request' \in [step : {"list", "fetch", "write"},
                         revisions : SUBSET FirstRevisions,
                         found : SUBSET NewRows]
        /\ request'.found \in {{}, found}
    BY <2>1, <2>3 DEF IdleRequest
  <2> QED
    BY <2>3, <2>4, <2>5 DEF CreationGenuine
<1>9. ASSUME NEW f \in NewRows, WriteUser(f)
      PROVE  CreationInv'
  <2>1. /\ f \in request.found
        /\ creation' = [creation EXCEPT ![f.item] = f.first]
        /\ UNCHANGED <<firsts, pass>>
    BY <1>9 DEF WriteUser, Upsert
  <2>2. /\ request' \in [step : {"list", "fetch", "write"},
                         revisions : SUBSET FirstRevisions,
                         found : SUBSET NewRows]
        /\ request'.found \subseteq request.found
    BY <1>9 DEF WriteUser, IdleRequest
  <2>3. f.item \in NewItems /\ f.first \in FirstRevisions
        /\ f.first \in firsts[f.item]
    BY <2>1 DEF NewRows
  <2> QED
    BY <2>1, <2>2, <2>3 DEF CreationGenuine
<1>10. CASE FailRequest
  BY <1>10 DEF FailRequest, IdleRequest, CreationGenuine
<1> QED
  BY <1>1, <1>2, <1>3, <1>4, <1>5, <1>6, <1>7, <1>8, <1>9, <1>10
  DEF CreationNext

-----------------------------------------------------------------------------
(* The item trace *)

Apart(B) == \A b, c \in B : b # c => b \intersect c = {}

Taken == UNION batches

\* The places of an event written out, and what the tasks know of one another.
TraceInv ==
  /\ recorded \in Nat /\ sleeping \subseteq Nat
  /\ buffer \union Taken \union traced \union pruned \union lost
       = 1..recorded
  /\ buffer \intersect (Taken \union traced \union pruned \union lost)
       = {}
  /\ Taken \intersect (traced \union pruned \union lost) = {}
  /\ traced \intersect (pruned \union lost) = {}
  /\ pruned \intersect lost = {}
  /\ Apart(batches)
  /\ flushTask \in sleeping \union {NoFlush}
  /\ buffer # {} => flushTask \in sleeping

LEMMA BatchAdded ==
  ASSUME NEW B, NEW moved, Apart(B), moved \intersect UNION B = {},
         NEW B2, B2 = (B \union {moved}) \ {{}}
  PROVE  UNION B2 = moved \union UNION B /\ Apart(B2)
<1>1. UNION B2 = moved \union UNION B
  OBVIOUS
<1>2. ASSUME NEW b \in B2, NEW c \in B2, b # c
      PROVE  b \intersect c = {}
  <2>1. \A d \in B : d \subseteq UNION B
    OBVIOUS
  <2>2. CASE b \in B /\ c \in B
    BY <1>2, <2>2 DEF Apart
  <2>3. CASE b \notin B
    BY <1>2, <2>1, <2>3
  <2>4. CASE c \notin B
    BY <1>2, <2>1, <2>4
  <2> QED
    BY <2>2, <2>3, <2>4
<1> QED
  BY <1>1, <1>2 DEF Apart

LEMMA BatchRemoved ==
  ASSUME NEW B, NEW batch \in B, Apart(B)
  PROVE  /\ UNION (B \ {batch}) = (UNION B) \ batch
         /\ Apart(B \ {batch}) /\ batch \subseteq UNION B
BY DEF Apart

\* A flush moves what it takes from the buffer to a batch.
LEMMA TakeKeeps ==
  ASSUME TraceInv, NEW new, Take(buffer \union new), recorded' \in Nat,
         new = (recorded + 1)..recorded', recorded <= recorded',
         sleeping' \subseteq sleeping,
         UNCHANGED <<traced, pruned, lost>>
  PROVE  TraceInv'
<1> DEFINE moved == buffer \union new
<1> USE DEF TraceInv
<1>1. new \intersect (1..recorded) = {} /\ (1..recorded) \union new = 1..recorded'
  OBVIOUS
<1>2. new \intersect (buffer \union Taken \union traced \union pruned
                        \union lost) = {}
  BY <1>1
<1>3. Taken' = moved \union Taken /\ Apart(batches')
  <2>1. moved \intersect UNION batches = {}
    BY <1>2 DEF Taken
  <2>2. batches' = (batches \union {moved}) \ {{}}
    BY DEF Take
  <2> HIDE DEF moved
  <2> QED
    BY <2>1, <2>2, BatchAdded DEF Taken
<1>4. buffer' = {} /\ flushTask' = NoFlush
  BY DEF Take
<1>5. buffer' \union Taken' \union traced' \union pruned' \union lost'
        = 1..recorded'
  BY <1>1, <1>3, <1>4
<1> QED
  BY <1>2, <1>3, <1>4, <1>5

LEMMA TraceStart ==
  ASSUME TraceInit
  PROVE  TraceInv
<1>1. Taken = {} /\ 1..recorded = {}
  BY DEF TraceInit, Taken
<1> QED
  BY <1>1 DEF TraceInit, TraceInv, Apart

LEMMA TraceStep ==
  ASSUME TraceInv, TraceNext
  PROVE  TraceInv'
<1> USE DEF TraceInv
<1>1. ASSUME NEW n \in Events, NEW aged \in BOOLEAN, Record(n, aged)
      PROVE  TraceInv'
  <2> DEFINE new == (recorded + 1)..(recorded + n)
  <2>1. n \in Nat /\ n > 0 /\ recorded' = recorded + n
        /\ UNCHANGED <<traced, pruned, lost>>
    BY <1>1, TraceAssumption DEF Record, Events
  <2>2. CASE Take(buffer \union new) /\ sleeping' = sleeping
    BY <2>1, <2>2, TakeKeeps
  <2>3. CASE ~(Take(buffer \union new) /\ sleeping' = sleeping)
    <3>1. /\ buffer' = buffer \union new /\ batches' = batches
          /\ \/ /\ flushTask = NoFlush /\ flushTask' = recorded + n
                /\ sleeping' = sleeping \union {recorded + n}
             \/ /\ flushTask # NoFlush
                /\ UNCHANGED <<flushTask, sleeping>>
      BY <1>1, <2>3 DEF Record
    <3>2. new \intersect (1..recorded) = {}
          /\ (1..recorded) \union new = 1..recorded'
      BY <2>1
    <3>3. flushTask' \in sleeping' /\ sleeping' \subseteq Nat
      <4>1. recorded + n \in Nat
        BY <2>1
      <4>2. CASE flushTask = NoFlush
        BY <3>1, <4>1, <4>2
      <4>3. CASE flushTask # NoFlush
        BY <3>1, <4>3
      <4> QED
        BY <4>2, <4>3
    <3>4. Taken' = Taken /\ recorded' \in Nat
      BY <2>1, <3>1 DEF Taken
    <3> HIDE DEF new
    <3>5. new \intersect (buffer \union Taken \union traced \union pruned
                            \union lost) = {}
      BY <3>2
    <3>6. buffer' \union Taken' \union traced' \union pruned' \union lost'
            = 1..recorded'
      BY <2>1, <3>1, <3>2, <3>4
    <3>7. buffer' \intersect (Taken' \union traced' \union pruned'
                                \union lost') = {}
      BY <2>1, <3>1, <3>4, <3>5
    <3> QED
      BY <2>1, <3>1, <3>3, <3>4, <3>6, <3>7
  <2> QED
    BY <2>2, <2>3
<1>2. (recorded + 1)..recorded = {} /\ buffer = buffer \union {}
  OBVIOUS
<1>3. ASSUME NEW t \in Events, Wake(t)
      PROVE  TraceInv'
  <2>1. Take(buffer \union {}) /\ recorded' = recorded
        /\ sleeping' \subseteq sleeping /\ UNCHANGED <<traced, pruned, lost>>
    BY <1>2, <1>3 DEF Wake
  <2> QED
    BY <1>2, <2>1, TakeKeeps
<1>4. CASE Flush
  <2>1. Take(buffer \union {}) /\ recorded' = recorded
        /\ sleeping' \subseteq sleeping /\ UNCHANGED <<traced, pruned, lost>>
    BY <1>2, <1>4 DEF Flush
  <2> QED
    BY <1>2, <2>1, TakeKeeps
<1>5. ASSUME NEW batch \in batches, NEW chunk \in SUBSET batch,
             WriteChunk(batch, chunk)
      PROVE  TraceInv'
  <2> DEFINE rest == batches \ {batch}
             unwritten == batch \ chunk
  <2>1. UNION rest = Taken \ batch /\ Apart(rest) /\ batch \subseteq Taken
    BY BatchRemoved DEF Taken
  <2>2. /\ traced' = traced \union chunk
        /\ batches' = (rest \union {unwritten}) \ {{}}
        /\ UNCHANGED <<recorded, buffer, sleeping, flushTask, pruned, lost>>
    BY <1>5 DEF WriteChunk
  <2>3. unwritten \intersect UNION rest = {}
    BY <2>1
  <2> HIDE DEF rest, unwritten
  <2>4. Taken' = unwritten \union UNION rest /\ Apart(batches')
    <3>1. Apart(rest) /\ unwritten \intersect UNION rest = {}
          /\ batches' = (rest \union {unwritten}) \ {{}}
      BY <2>1, <2>2, <2>3
    <3>2. UNION batches' = unwritten \union UNION rest /\ Apart(batches')
      BY <3>1, BatchAdded
    <3> QED
      BY <3>2 DEF Taken
  <2>5. Taken' = Taken \ chunk /\ chunk \subseteq Taken
    <3>1. \A x \in batch : x \in chunk \/ x \in unwritten
      BY DEF unwritten
    <3>2. unwritten \subseteq batch /\ unwritten \intersect chunk = {}
      BY DEF unwritten
    <3>3. Taken' = unwritten \union (Taken \ batch)
      BY <2>1, <2>4
    <3> QED
      BY <2>1, <3>1, <3>2, <3>3
  <2>6. Taken' \union traced' = Taken \union traced
        /\ Taken' \intersect traced' = {}
    BY <2>2, <2>5
  <2>7. buffer' \union Taken' \union traced' \union pruned' \union lost'
          = 1..recorded'
    BY <2>2, <2>6
  <2>8. buffer' \intersect (Taken' \union traced' \union pruned'
                              \union lost') = {}
    BY <2>2, <2>6
  <2>9. /\ Taken' \intersect (traced' \union pruned' \union lost') = {}
        /\ traced' \intersect (pruned' \union lost') = {}
    BY <2>2, <2>5, <2>6
  <2> QED
    BY <2>2, <2>4, <2>7, <2>8, <2>9
<1>6. ASSUME NEW batch \in batches, FailWrite(batch)
      PROVE  TraceInv'
  <2>1. Taken' = Taken \ batch /\ Apart(batches') /\ batch \subseteq Taken
    BY <1>6, BatchRemoved DEF FailWrite, Taken
  <2>2. /\ lost' = lost \union batch
        /\ UNCHANGED <<recorded, buffer, sleeping, flushTask, traced, pruned>>
    BY <1>6 DEF FailWrite
  <2> QED
    BY <2>1, <2>2
<1>7. ASSUME NEW oldest \in Events, Prune(oldest)
      PROVE  TraceInv'
  <2>1. /\ pruned' \union traced' = pruned \union traced
        /\ pruned' \intersect traced' = {}
        /\ UNCHANGED <<recorded, buffer, sleeping, flushTask, batches, lost>>
    BY <1>7 DEF Prune, Events
  <2>2. Taken' = Taken
    BY <2>1 DEF Taken
  <2> QED
    BY <2>1, <2>2
<1>8. CASE Close
  BY <1>8 DEF Close, Taken
<1>9. CASE EndProcess
  <2>1. /\ buffer' = {} /\ batches' = {} /\ lost' = lost \union buffer \union Taken
        /\ sleeping' = {} /\ flushTask' = NoFlush
        /\ UNCHANGED <<recorded, traced, pruned>>
    BY <1>9 DEF EndProcess, Taken
  <2>2. Taken' = {} /\ Apart(batches')
    BY <2>1 DEF Taken, Apart
  <2> QED
    BY <2>1, <2>2
<1> QED
  BY <1>1, <1>3, <1>4, <1>5, <1>6, <1>7, <1>8, <1>9 DEF TraceNext

\* Written out, the places are those of TraceKept.
LEMMA TraceInvKept ==
  ASSUME TraceInv
  PROVE  TraceKept
<1> USE DEF TraceInv
<1>1. /\ DOMAIN Places = {1, 2, 3, 4, 5}
      /\ Places[1] = buffer /\ Places[2] = Taken
      /\ Places[3] = traced /\ Places[4] = pruned /\ Places[5] = lost
  BY DEF Places, Taken
<1>2. UNION {Places[p] : p \in DOMAIN Places} = 1..recorded
  <2>1. {Places[p] : p \in DOMAIN Places} =
          {buffer, Taken, traced, pruned, lost}
    BY <1>1
  <2>2. UNION {buffer, Taken, traced, pruned, lost} =
          buffer \union Taken \union traced \union pruned \union lost
    OBVIOUS
  <2> QED
    BY <2>1, <2>2
<1>3. ASSUME NEW p \in DOMAIN Places, NEW r \in DOMAIN Places, p # r
      PROVE  Places[p] \intersect Places[r] = {}
  <2>1. p \in {1, 2, 3, 4, 5} /\ r \in {1, 2, 3, 4, 5}
    BY <1>1
  <2>2. /\ buffer \intersect Taken = {} /\ buffer \intersect traced = {}
        /\ buffer \intersect pruned = {} /\ buffer \intersect lost = {}
        /\ Taken \intersect traced = {} /\ Taken \intersect pruned = {}
        /\ Taken \intersect lost = {} /\ traced \intersect pruned = {}
        /\ traced \intersect lost = {} /\ pruned \intersect lost = {}
    OBVIOUS
  <2>3. \A x, y : x \intersect y = {} => y \intersect x = {}
    OBVIOUS
  <2> QED
    BY <1>1, <1>3, <2>1, <2>2, <2>3
<1>4. /\ \A b, c \in batches : b # c => b \intersect c = {}
      /\ buffer # {} => flushTask \in sleeping
  BY DEF Apart
<1> QED
  BY <1>2, <1>3, <1>4 DEF TraceKept

-----------------------------------------------------------------------------
(* The wiki subscribers *)

InOrderRows == Present \ late

\* Every id a job or the mark holds was assigned, so a row that appears in
\* order appears above them all; what a job has read of the log up to such an
\* id is therefore all there will be, whatever appears or goes.
Assigned ==
  /\ rows \in [Ids -> UsedItems \union {NoItem}]
  /\ assigned \subseteq Ids /\ Present \subseteq assigned
  /\ mark \in assigned \union {0}
  /\ builder \in [pc : {"off", "scan", "swap", "mark"}, limit : Nat, at : Nat,
                  staged : SUBSET UsedItems]
  /\ updater \in [pc : {"off", "scan", "mark"}, limit : Nat, at : Nat]
  /\ builder.pc # "off" => builder.limit \in assigned
  /\ updater.pc # "off" => updater.limit \in assigned

\* The progress of the two jobs through the log.
Progress ==
  /\ builder.pc = "off" \/ updater.pc = "off"
  /\ \A i \in InOrderRows :
       /\ builder.pc # "off" /\ i <= mark => i <= builder.limit
       /\ i <= builder.limit =>
            /\ builder.pc = "scan" /\ i < builder.at => rows[i] \in builder.staged
            /\ builder.pc = "swap" => rows[i] \in builder.staged
            /\ builder.pc = "mark" => rows[i] \in subscribers
       /\ i <= updater.limit =>
            /\ updater.pc = "scan" /\ i < updater.at => rows[i] \in subscribers
            /\ updater.pc = "mark" => rows[i] \in subscribers

SubscribersInv == Assigned /\ (shared => Progress) /\ MarkCovers

\* The newest row, if there is one, is a row above all others.
LEMMA NewestIs ==
  IF Present = {} THEN NewestRow = 0
  ELSE NewestRow \in Present /\ \A i \in Present : i <= NewestRow
<1>1. CASE Present = {}
  BY <1>1 DEF NewestRow
<1>2. CASE Present # {}
  <2> DEFINE Less == OpToRel(<, Nat)
             Gaps == {LastRow - i : i \in Present}
  <2>1. \A i \in Present : i \in 1..LastRow /\ LastRow - i \in Nat
    BY SubscribersAssumption DEF Present, Ids
  <2>2. Gaps \subseteq Nat /\ Gaps # {}
    BY <1>2, <2>1
  <2>3. PICK g \in Gaps : \A h \in Gaps : ~(<<h, g>> \in Less)
    <3>1. IsWellFoundedOn(Less, Nat)
      BY NatLessThanWellFounded
    <3> HIDE DEF Less, Gaps
    <3> QED
      BY <2>2, <3>1, WFMin
  <2>4. \A h \in Gaps : ~(h < g)
    BY <2>2, <2>3 DEF OpToRel
  <2>5. PICK x \in Present : g = LastRow - x
    OBVIOUS
  <2>6. \A y \in Present : ~(LastRow - y < LastRow - x)
    BY <2>4, <2>5
  <2>7. \A y \in Present : x >= y
    <3> TAKE y \in Present
    <3>1. ~(LastRow - y < LastRow - x)
      BY <2>6
    <3> HIDE DEF Less, Gaps
    <3> QED
      BY <2>1, <3>1, SubscribersAssumption
  <2>8. Max(Present) \in Present /\ \A y \in Present : Max(Present) >= y
    <3> HIDE DEF Less, Gaps
    <3> QED
      BY <2>7 DEF Max
  <2>9. NewestRow = Max(Present)
    BY <1>2 DEF NewestRow
  <2>10. Max(Present) \in Present /\ \A y \in Present : y <= Max(Present)
    <3> HIDE DEF Less, Gaps
    <3> QED
      BY <2>1, <2>8
  <2> HIDE DEF Less, Gaps
  <2> QED
    BY <1>2, <2>9, <2>10
<1> QED
  BY <1>1, <1>2

\* The log moves above what was assigned only, as far as rows come in order.
LEMMA LogMoves ==
  ASSUME Assigned, NEW i \in Ids, NEW item \in UsedItems,
         Subscribe(i, item) \/ Unsubscribe(i)
  PROVE  /\ Assigned'
         /\ \A n \in assigned \union {0}, j \in InOrderRows' :
              j <= n => j \in InOrderRows /\ rows'[j] = rows[j]
<1>1. CASE Subscribe(i, item)
  <2>1. /\ i \notin assigned
        /\ rows' = [rows EXCEPT ![i] = item]
        /\ assigned' = assigned \union {i}
        /\ late' = IF \E j \in assigned : j > i THEN late \union {i} ELSE late
        /\ UNCHANGED <<subscribers, mark, builder, updater, shared, breakdowns>>
    BY <1>1 DEF Subscribe
  <2>2. Present' \subseteq Present \union {i}
    BY <2>1 DEF Assigned, Present
  <2>3. Assigned'
    BY <2>1, <2>2 DEF Assigned
  <2>4. ASSUME NEW n \in assigned \union {0}, NEW j \in InOrderRows', j <= n
        PROVE  j \in InOrderRows /\ rows'[j] = rows[j]
    <3>1. j # i
      <4>1. i \in Nat \ {0} /\ assigned \subseteq Nat
        BY SubscribersAssumption DEF Assigned, Ids
      <4>2. SUFFICES ASSUME j = i PROVE FALSE
        OBVIOUS
      <4>3. i \notin late'
        BY <4>2 DEF InOrderRows
      <4>4. \A k \in assigned : ~(k > i)
        BY <2>1, <4>3
      <4>5. n # 0 /\ n \in assigned /\ n # i
        BY <2>1, <2>4, <4>1, <4>2
      <4> QED
        BY <2>4, <4>1, <4>2, <4>4, <4>5
    <3>2. j \in Present' /\ j \notin late'
      BY DEF InOrderRows
    <3>3. j \in Present /\ j \notin late
      BY <2>1, <2>2, <3>1, <3>2
    <3>4. rows'[j] = rows[j]
      BY <2>1, <3>1, <3>3 DEF Present, Assigned
    <3> QED
      BY <3>3, <3>4 DEF InOrderRows
  <2> QED
    BY <2>3, <2>4
<1>2. CASE Unsubscribe(i)
  <2>1. /\ rows' = [rows EXCEPT ![i] = NoItem]
        /\ UNCHANGED <<assigned, late, subscribers, mark, builder, updater,
                       shared, breakdowns>>
    BY <1>2 DEF Unsubscribe
  <2>2. Present' \subseteq Present \ {i}
    BY <2>1 DEF Assigned, Present
  <2>3. Assigned'
    BY <2>1, <2>2 DEF Assigned
  <2>4. \A j \in InOrderRows' : j \in InOrderRows /\ rows'[j] = rows[j]
    BY <2>1, <2>2 DEF InOrderRows, Present, Assigned
  <2> QED
    BY <2>3, <2>4
<1> QED
  BY <1>1, <1>2

\* Hence nothing a job or the mark relies on is disturbed.
LEMMA LogKeeps ==
  ASSUME SubscribersInv, NEW i \in Ids, NEW item \in UsedItems,
         Subscribe(i, item) \/ Unsubscribe(i)
  PROVE  SubscribersInv'
<1>1. /\ Assigned'
      /\ \A n \in assigned \union {0}, j \in InOrderRows' :
           j <= n => j \in InOrderRows /\ rows'[j] = rows[j]
  BY LogMoves DEF SubscribersInv
<1>2. UNCHANGED <<subscribers, mark, builder, updater, shared>>
  BY DEF Subscribe, Unsubscribe
<1>3. ASSUME shared PROVE Progress'
  <2>1. Progress
    BY <1>3 DEF SubscribersInv
  <2>2. mark \in assigned \union {0}
        /\ (builder.pc # "off" => builder.limit \in assigned)
        /\ (updater.pc # "off" => updater.limit \in assigned)
    BY DEF SubscribersInv, Assigned
  <2>3. ASSUME NEW j \in InOrderRows', builder.pc # "off", j <= mark
        PROVE  j <= builder.limit
    BY <1>1, <2>1, <2>2, <2>3 DEF Progress
  <2>4. ASSUME NEW j \in InOrderRows', builder.pc # "off", j <= builder.limit
        PROVE  /\ builder.pc = "scan" /\ j < builder.at =>
                    rows'[j] \in builder.staged
               /\ builder.pc = "swap" => rows'[j] \in builder.staged
               /\ builder.pc = "mark" => rows'[j] \in subscribers
    BY <1>1, <2>1, <2>2, <2>4 DEF Progress
  <2>5. ASSUME NEW j \in InOrderRows', updater.pc # "off", j <= updater.limit
        PROVE  /\ updater.pc = "scan" /\ j < updater.at =>
                    rows'[j] \in subscribers
               /\ updater.pc = "mark" => rows'[j] \in subscribers
    BY <1>1, <2>1, <2>2, <2>5 DEF Progress
  <2>6. builder.pc = "off" \/ updater.pc = "off"
    BY <2>1 DEF Progress
  <2> QED
    BY <1>2, <2>3, <2>4, <2>5, <2>6 DEF Progress
<1>4. MarkCovers'
  BY <1>1, <1>2 DEF SubscribersInv, MarkCovers, Assigned, InOrderRows
<1> QED
  BY <1>1, <1>2, <1>3, <1>4 DEF SubscribersInv

LEMMA SubscribersStart ==
  ASSUME SubscribersInit
  PROVE  SubscribersInv
<1>1. Present = {}
  BY DEF SubscribersInit, Present
<1> QED
  BY <1>1 DEF SubscribersInit, SubscribersInv, Assigned, Progress, MarkCovers,
              InOrderRows, IdleBuilder, IdleUpdater

\* The rows of a block that a scan reads.
LEMMA BlockReads ==
  ASSUME Assigned, NEW start \in Nat, NEW limit \in Nat
  PROVE  /\ Block(start, limit) \in SUBSET UsedItems
         /\ \A i \in InOrderRows :
              start <= i /\ i < start + BlockSize /\ i <= limit
                => rows[i] \in Block(start, limit)
BY DEF Assigned, Block, Present, InOrderRows

LEMMA SubscribersStep ==
  ASSUME SubscribersInv, SubscribersNext
  PROVE  SubscribersInv'
<1>1. ASSUME NEW i \in Ids, NEW item \in UsedItems, Subscribe(i, item)
      PROVE  SubscribersInv'
  BY <1>1, LogKeeps
<1>2. ASSUME NEW i \in Ids, Unsubscribe(i)
      PROVE  SubscribersInv'
  <2>1. rows[i] \in UsedItems
    BY <1>2 DEF Unsubscribe, SubscribersInv, Assigned
  <2> QED
    BY <1>2, <2>1, LogKeeps
<1>3. \A i \in InOrderRows : i \in Nat \ {0} /\ i \in Present
  BY DEF InOrderRows, Present, Ids
<1>4. assigned \subseteq Nat /\ mark \in Nat /\ BlockSize \in Nat \ {0}
  BY SubscribersAssumption DEF SubscribersInv, Assigned, Ids
<1>5. CASE StartRebuild
  <2>1. /\ builder.pc = "off" /\ (shared => updater.pc = "off")
        /\ UNCHANGED <<rows, assigned, late, subscribers, updater, shared>>
    BY <1>5 DEF StartRebuild, subscription
  <2>2. InOrderRows' = InOrderRows /\ Present' = Present
    BY <2>1 DEF InOrderRows, Present
  <2>3. CASE NewestRow = 0
    <3>1. Present = {}
      BY <2>3, NewestIs DEF Present, Ids
    <3>2. InOrderRows = {}
      BY <3>1 DEF InOrderRows
    <3>3. mark' = 0 /\ builder' = builder
      BY <1>5, <2>3 DEF StartRebuild
    <3> QED
      BY <2>1, <2>2, <3>1, <3>2, <3>3
      DEF SubscribersInv, Assigned, Progress, MarkCovers, InOrderRows
  <2>4. CASE NewestRow # 0
    <3>1. NewestRow \in Present /\ \A i \in Present : i <= NewestRow
      BY <2>4, NewestIs
    <3>2. NewestRow \in assigned /\ NewestRow \in Nat
      BY <1>4, <3>1 DEF SubscribersInv, Assigned
    <3>3. /\ mark' = mark
          /\ builder' = [pc |-> "scan", limit |-> NewestRow, at |-> 0,
                         staged |-> {}]
      BY <1>5, <2>4 DEF StartRebuild, IdleBuilder
    <3>4. Assigned'
      BY <2>1, <2>2, <3>2, <3>3 DEF SubscribersInv, Assigned
    <3>5. shared => Progress'
      BY <1>3, <2>1, <2>2, <3>1, <3>3 DEF Progress
    <3> QED
      BY <2>1, <2>2, <3>3, <3>4, <3>5 DEF SubscribersInv, MarkCovers
  <2> QED
    BY <2>3, <2>4
<1>6. CASE ScanBlock
  <2> DEFINE block == Block(builder.at, builder.limit)
             next == builder.at + BlockSize
  <2>1. /\ builder.pc = "scan"
        /\ builder' = [builder EXCEPT !.staged = builder.staged \union block,
                         !.at = next,
                         !.pc = IF next > builder.limit THEN "swap" ELSE "scan"]
        /\ UNCHANGED <<rows, assigned, late, subscribers, mark, updater, shared>>
    BY <1>6 DEF ScanBlock, subscription
  <2>2. builder.at \in Nat /\ builder.limit \in Nat /\ next \in Nat
    BY <1>4 DEF SubscribersInv, Assigned
  <2>3. /\ block \in SUBSET UsedItems
        /\ \A i \in InOrderRows :
             builder.at <= i /\ i < next /\ i <= builder.limit => rows[i] \in block
    BY <2>2, BlockReads DEF SubscribersInv
  <2> HIDE DEF block
  <2>4. /\ builder'.pc = IF next > builder.limit THEN "swap" ELSE "scan"
        /\ builder'.limit = builder.limit /\ builder'.at = next
        /\ builder'.staged = builder.staged \union block
        /\ builder' \in [pc : {"off", "scan", "swap", "mark"}, limit : Nat,
                         at : Nat, staged : SUBSET UsedItems]
    BY <2>1, <2>2, <2>3 DEF SubscribersInv, Assigned
  <2>5. InOrderRows' = InOrderRows /\ Present' = Present
    BY <2>1 DEF InOrderRows, Present
  <2>6. Assigned'
    BY <2>1, <2>4, <2>5 DEF SubscribersInv, Assigned
  <2>7. ASSUME shared PROVE Progress'
    <3>1. Progress
      BY <2>7 DEF SubscribersInv
    <3>2. ASSUME NEW i \in InOrderRows, i <= builder.limit, i < next
          PROVE  rows[i] \in builder'.staged
      BY <1>3, <2>1, <2>2, <2>3, <2>4, <3>1, <3>2 DEF Progress
    <3>3. ASSUME NEW i \in InOrderRows, i <= builder.limit,
                 builder'.pc = "swap"
          PROVE  rows[i] \in builder'.staged
      BY <1>3, <2>2, <2>4, <3>2, <3>3
    <3> HIDE DEF next
    <3> QED
      BY <2>1, <2>4, <2>5, <3>1, <3>2, <3>3 DEF Progress
  <2> QED
    BY <2>1, <2>5, <2>6, <2>7 DEF SubscribersInv, MarkCovers
<1>7. CASE SwapSubscribers
  <2>1. /\ builder.pc = "swap"
        /\ subscribers' = builder.staged
        /\ builder' = [builder EXCEPT !.pc = "mark", !.staged = {}]
        /\ UNCHANGED <<rows, assigned, late, mark, updater, shared>>
    BY <1>7 DEF SwapSubscribers, subscription
  <2>2. /\ builder'.pc = "mark" /\ builder'.limit = builder.limit
        /\ builder' \in [pc : {"off", "scan", "swap", "mark"}, limit : Nat,
                         at : Nat, staged : SUBSET UsedItems]
    BY <2>1 DEF SubscribersInv, Assigned
  <2>3. InOrderRows' = InOrderRows /\ Present' = Present
    BY <2>1 DEF InOrderRows, Present
  <2>4. Assigned'
    BY <2>1, <2>2, <2>3 DEF SubscribersInv, Assigned
  <2>5. ASSUME shared
        PROVE  /\ Progress'
               /\ \A i \in InOrderRows : i <= mark => rows[i] \in subscribers'
    BY <2>1, <2>2, <2>3, <2>5 DEF SubscribersInv, Progress
  <2> QED
    BY <2>1, <2>3, <2>4, <2>5 DEF SubscribersInv, MarkCovers, InOrderRows
<1>8. CASE MarkRebuilt
  <2>1. /\ builder.pc = "mark" /\ mark' = builder.limit
        /\ builder' = IdleBuilder
        /\ UNCHANGED <<rows, assigned, late, subscribers, updater, shared>>
    BY <1>8 DEF MarkRebuilt, subscription
  <2>2. /\ builder'.pc = "off"
        /\ builder' \in [pc : {"off", "scan", "swap", "mark"}, limit : Nat,
                         at : Nat, staged : SUBSET UsedItems]
    BY <2>1 DEF IdleBuilder
  <2>3. InOrderRows' = InOrderRows /\ Present' = Present
    BY <2>1 DEF InOrderRows, Present
  <2>4. Assigned'
    BY <2>1, <2>2, <2>3 DEF SubscribersInv, Assigned
  <2>5. ASSUME shared
        PROVE  /\ Progress'
               /\ \A i \in InOrderRows : i <= mark' => rows[i] \in subscribers
    BY <2>1, <2>2, <2>3, <2>5 DEF SubscribersInv, Progress
  <2> QED
    BY <2>1, <2>3, <2>4, <2>5 DEF SubscribersInv, MarkCovers, InOrderRows
<1>9. CASE StartPass
  <2>1. /\ updater.pc = "off" /\ (shared => builder.pc = "off")
        /\ NewestRow > mark
        /\ updater' = [pc |-> "scan", limit |-> NewestRow, at |-> mark + 1]
        /\ UNCHANGED <<rows, assigned, late, subscribers, mark, builder, shared>>
    BY <1>9 DEF StartPass, subscription
  <2>2. NewestRow \in assigned
    <3>1. NewestRow # 0
      BY <1>4, <2>1
    <3>2. NewestRow \in Present
      BY <3>1, NewestIs
    <3> QED
      BY <3>2 DEF SubscribersInv, Assigned
  <2>3. InOrderRows' = InOrderRows /\ Present' = Present
    BY <2>1 DEF InOrderRows, Present
  <2>4. updater' \in [pc : {"off", "scan", "mark"}, limit : Nat, at : Nat]
        /\ updater'.pc = "scan" /\ updater'.limit = NewestRow
        /\ updater'.at = mark + 1
    BY <1>4, <2>1, <2>2
  <2>5. Assigned'
    BY <2>1, <2>2, <2>3, <2>4 DEF SubscribersInv, Assigned
  <2>6. ASSUME shared PROVE Progress'
    <3>1. \A i \in InOrderRows : i < mark + 1 => rows[i] \in subscribers
      BY <1>3, <1>4, <2>6 DEF SubscribersInv, MarkCovers, InOrderRows
    <3> QED
      BY <2>1, <2>3, <2>4, <2>6, <3>1 DEF Progress
  <2> QED
    BY <2>1, <2>3, <2>5, <2>6 DEF SubscribersInv, MarkCovers
<1>10. CASE CopyBlock
  <2> DEFINE block == Block(updater.at, updater.limit)
             next == updater.at + BlockSize
  <2>1. /\ updater.pc = "scan" /\ subscribers' = subscribers \union block
        /\ updater' = [updater EXCEPT !.at = next,
                         !.pc = IF next > updater.limit THEN "mark" ELSE "scan"]
        /\ UNCHANGED <<rows, assigned, late, mark, builder, shared>>
    BY <1>10 DEF CopyBlock, subscription
  <2>2. updater.at \in Nat /\ updater.limit \in Nat /\ next \in Nat
    BY <1>4 DEF SubscribersInv, Assigned
  <2>3. \A i \in InOrderRows :
          updater.at <= i /\ i < next /\ i <= updater.limit => rows[i] \in block
    BY <2>2, BlockReads DEF SubscribersInv
  <2> HIDE DEF block
  <2>4. /\ updater'.pc = IF next > updater.limit THEN "mark" ELSE "scan"
        /\ updater'.limit = updater.limit /\ updater'.at = next
        /\ updater' \in [pc : {"off", "scan", "mark"}, limit : Nat, at : Nat]
    BY <2>1, <2>2 DEF SubscribersInv, Assigned
  <2>5. InOrderRows' = InOrderRows /\ Present' = Present
    BY <2>1 DEF InOrderRows, Present
  <2>6. Assigned'
    BY <2>1, <2>4, <2>5 DEF SubscribersInv, Assigned
  <2>7. ASSUME shared PROVE Progress'
    <3>1. Progress /\ builder.pc = "off"
      BY <2>1, <2>7 DEF SubscribersInv, Progress
    <3>2. ASSUME NEW i \in InOrderRows, i <= updater.limit, i < next
          PROVE  rows[i] \in subscribers'
      BY <1>3, <2>1, <2>2, <2>3, <3>1, <3>2 DEF Progress
    <3>3. ASSUME NEW i \in InOrderRows, i <= updater.limit,
                 updater'.pc = "mark"
          PROVE  rows[i] \in subscribers'
      BY <1>3, <2>2, <2>4, <3>2, <3>3
    <3> HIDE DEF next
    <3> QED
      BY <2>1, <2>4, <2>5, <3>1, <3>2, <3>3 DEF Progress
  <2> QED
    BY <2>1, <2>5, <2>6, <2>7 DEF SubscribersInv, MarkCovers
<1>11. CASE MarkCopied
  <2>1. /\ updater.pc = "mark" /\ mark' = updater.limit
        /\ updater' = IdleUpdater
        /\ UNCHANGED <<rows, assigned, late, subscribers, builder, shared>>
    BY <1>11 DEF MarkCopied, subscription
  <2>2. /\ updater'.pc = "off"
        /\ updater' \in [pc : {"off", "scan", "mark"}, limit : Nat, at : Nat]
    BY <2>1 DEF IdleUpdater
  <2>3. InOrderRows' = InOrderRows /\ Present' = Present
    BY <2>1 DEF InOrderRows, Present
  <2>4. Assigned'
    BY <2>1, <2>2, <2>3 DEF SubscribersInv, Assigned
  <2>5. ASSUME shared
        PROVE  /\ Progress'
               /\ \A i \in InOrderRows : i <= mark' => rows[i] \in subscribers
    <3>1. Progress /\ builder.pc = "off"
      BY <2>1, <2>5 DEF SubscribersInv, Progress
    <3> QED
      BY <2>1, <2>2, <2>3, <3>1 DEF Progress
  <2> QED
    BY <2>1, <2>3, <2>4, <2>5 DEF SubscribersInv, MarkCovers, InOrderRows
<1>12. CASE BreakDown
  <2>1. /\ \/ builder' = IdleBuilder /\ updater' = updater
           \/ updater' = IdleUpdater /\ builder' = builder
        /\ UNCHANGED <<rows, assigned, late, subscribers, mark, shared>>
    BY <1>12 DEF BreakDown, subscription
  <2>2. InOrderRows' = InOrderRows /\ Present' = Present
    BY <2>1 DEF InOrderRows, Present
  <2>3. Assigned'
    BY <2>1, <2>2 DEF SubscribersInv, Assigned, IdleBuilder, IdleUpdater
  <2>4. CASE builder' = IdleBuilder /\ updater' = updater
    BY <2>1, <2>2, <2>3, <2>4
    DEF SubscribersInv, Progress, MarkCovers, IdleBuilder
  <2>5. CASE updater' = IdleUpdater /\ builder' = builder
    BY <2>1, <2>2, <2>3, <2>5
    DEF SubscribersInv, Progress, MarkCovers, IdleUpdater
  <2> QED
    BY <2>1, <2>4, <2>5
<1> QED
  BY <1>1, <1>2, <1>5, <1>6, <1>7, <1>8, <1>9, <1>10, <1>11, <1>12
  DEF SubscribersNext

-----------------------------------------------------------------------------
(* One evaluation *)

\* A level follows what the criterion deserves, or says that it is not known.
Tracks(c) ==
  \/ level[c] = deserved[c]
  \/ level[c] = UNKNOWN /\ mishaps > 0

NoDetector == ""

EvaluationInv ==
  /\ level \in [Direct -> Levels] /\ deserved \in [Direct -> Levels]
  /\ lookups \in BOOLEAN /\ mishaps \in Nat
  /\ waiting \subseteq Direct /\ running \notin waiting
  /\ running # NoDetector => running \in Direct
  /\ \A c \in waiting : level[c] = NONE
  /\ \A c \in Structural : Tracks(c)
  /\ lookups => \A c \in Content : Tracks(c)
  /\ level["N2a"] \in {NONE, WEAK, UNKNOWN, STRONG}
  /\ level["N2b"] \in {NONE, WEAK, UNKNOWN, STRONG}
  /\ \A c \in {"N3_osm", "N3_sdc", "N3_wikisub"} :
       mishaps = 0 => deserved[c] \in {NONE, UsageLevel(c)}

\* Some levels have a highest one.
LEMMA Highest ==
  ASSUME NEW S \in SUBSET Levels, S # {}
  PROVE  Max(S) \in S /\ Max(S) \in Levels /\ \A y \in S : y <= Max(S)
<1>1. Levels = {0, 1, 2, 3, 4, 5}
  BY DEF Levels, NONE, STRONG
<1>2. \E x \in S : \A y \in S : x >= y
  <2>1. CASE 5 \in S
    BY <1>1, <2>1
  <2>2. CASE 5 \notin S /\ 4 \in S
    BY <1>1, <2>2
  <2>3. CASE S \intersect {4, 5} = {} /\ 3 \in S
    BY <1>1, <2>3
  <2>4. CASE S \intersect {3, 4, 5} = {} /\ 2 \in S
    BY <1>1, <2>4
  <2>5. CASE S \intersect {2, 3, 4, 5} = {} /\ 1 \in S
    BY <1>1, <2>5
  <2>6. CASE S \intersect {1, 2, 3, 4, 5} = {}
    <3>1. PICK x \in S : TRUE
      OBVIOUS
    <3>2. \A y \in S : y \in {0, 1, 2, 3, 4, 5}
      BY <1>1
    <3>3. \A y \in S : y = 0
      BY <2>6, <3>2
    <3>4. \A y \in S : 0 >= y
      BY <3>3
    <3> QED
      BY <3>1, <3>3, <3>4
  <2> QED
    BY <2>1, <2>2, <2>3, <2>4, <2>5, <2>6
<1>3. Max(S) \in S /\ \A y \in S : Max(S) >= y
  BY <1>2 DEF Max
<1> QED
  BY <1>1, <1>3

LEMMA HigherOf ==
  ASSUME NEW a \in Levels, NEW b \in Levels
  PROVE  Max({a, b}) = IF a < b THEN b ELSE a
<1>1. Max({a, b}) \in {a, b} /\ a <= Max({a, b}) /\ b <= Max({a, b})
  BY Highest
<1> QED
  BY <1>1 DEF Levels, NONE, STRONG

LEMMA LowerOf ==
  ASSUME NEW a \in Levels, NEW b \in Levels
  PROVE  Min({a, b}) = IF a < b THEN a ELSE b
<1>1. \E x \in {a, b} : \A y \in {a, b} : x <= y
  BY DEF Levels, NONE, STRONG
<1>2. Min({a, b}) \in {a, b} /\ \A y \in {a, b} : Min({a, b}) <= y
  BY <1>1 DEF Min
<1> QED
  BY <1>2 DEF Levels, NONE, STRONG

\* The tests of a sitelink, in their order, amount to the documented rules.
LEMMA SitelinkJudged ==
  ASSUME NEW s \in Sitelink
  PROVE  SitelinkLevel(s) = SitelinkDeserves(s) /\ SitelinkLevel(s) \in Levels
<1>1. SitelinkLevel(s) \in Levels
  BY DEF SitelinkLevel, Levels, NONE, WEAK, STRONG
<1>2. SitelinkLevel(s) = SitelinkDeserves(s)
  <2>1. CASE s.project \in {"undetermined", "unsupported"}
    <3>1. CASE s.project = "undetermined"
      BY <3>1 DEF SitelinkLevel, SitelinkDeserves
    <3>2. CASE s.project = "unsupported"
      <4>1. SitelinkLevel(s) = NONE
        BY <3>2 DEF SitelinkLevel
      <4>2. Ineligible(s)
        BY <3>2 DEF Ineligible
      <4>3. SitelinkDeserves(s) = NONE
        BY <3>2, <4>2 DEF SitelinkDeserves
      <4> QED
        BY <4>1, <4>3
    <3> QED
      BY <2>1, <3>1, <3>2
  <2>2. CASE s.project \notin {"undetermined", "unsupported"}
    <3>1. Ineligible(s) <=>
            \/ s.space = "unfit" \/ s.script
            \/ s.space = "portal" /\ s.subpage # "none"
            \/ s.space = "template" /\ s.subpage \in {"doc", "test"}
            \/ s.space = "module" /\ s.subpage = "doc"
            \/ s.project = "wikisource" /\ s.space = "index"
            \/ s.project = "wikinews" /\ s.space = "comments"
            \/ s.project = "wikidata" /\ s.space \in {"main", "property"}
            \/ s.project = "wiktionary" /\ s.space \in {"main", "citations"}
      BY <2>2 DEF Ineligible
    <3>2. s.subpage \in {"none", "doc", "test", "other"} /\ s.script \in BOOLEAN
          /\ s.redirect \in BOOLEAN
      BY DEF Sitelink
    <3>3. SitelinkDeserves(s) =
            IF Ineligible(s) THEN NONE ELSE IF Doubtful(s) THEN WEAK ELSE STRONG
      <4>1. CASE Ineligible(s)
        BY <2>2, <4>1 DEF SitelinkDeserves
      <4>2. CASE ~Ineligible(s)
        BY <2>2, <4>2 DEF SitelinkDeserves
      <4> QED
        BY <4>1, <4>2
    <3>4. CASE s.space \in {"unfit", "portal", "template", "module", "category"}
      BY <2>2, <3>1, <3>2, <3>3, <3>4 DEF SitelinkLevel, Doubtful
    <3>5. CASE s.space \notin {"unfit", "portal", "template", "module",
                               "category"}
      BY <2>2, <3>1, <3>2, <3>3, <3>5 DEF SitelinkLevel, Doubtful
    <3> QED
      BY <3>4, <3>5
  <2> QED
    BY <2>1, <2>2
<1> QED
  BY <1>1, <1>2

LEMMA EvaluationStart ==
  ASSUME EvaluationInit
  PROVE  EvaluationInv
<1>1. Structural \subseteq Direct /\ Content \subseteq Direct
      /\ "N2a" \in Direct /\ "N2b" \in Direct /\ NoDetector \notin Direct
      /\ {"N3_osm", "N3_sdc", "N3_wikisub"} \subseteq Direct
      /\ NONE \in Levels
  BY DEF Direct, Content, Structural, Levels, NONE, STRONG, NoDetector
<1>2. \A c \in Direct : level[c] = NONE /\ deserved[c] = NONE
  BY DEF EvaluationInit
<1>3. /\ level \in [Direct -> Levels] /\ deserved \in [Direct -> Levels]
      /\ lookups \in BOOLEAN /\ mishaps = 0 /\ waiting = Direct
  BY <1>1 DEF EvaluationInit
<1>4. running = NoDetector
  BY Zenon DEF EvaluationInit, NoDetector
<1>5. ASSUME NEW c \in Direct
      PROVE  Tracks(c)
  <2>1. level[c] = deserved[c]
    BY <1>2
  <2> QED
    BY <2>1 DEF Tracks
<1>6. level["N2a"] = NONE /\ level["N2b"] = NONE /\ running \notin waiting
      /\ \A c \in {"N3_osm", "N3_sdc", "N3_wikisub"} : deserved[c] = NONE
  BY <1>1, <1>2, <1>3, <1>4
<1>7. mishaps \in Nat /\ (running # NoDetector => running \in Direct)
  BY <1>3, <1>4
<1> QED
  BY <1>1, <1>2, <1>3, <1>5, <1>6, <1>7 DEF EvaluationInv

\* A signal raises the level as it raises what is deserved.
LEMMA SignalKeeps ==
  ASSUME EvaluationInv, NEW c \in Direct, NEW found \in Levels,
         NEW right \in Levels, Signal(c, found, right),
         UNCHANGED <<lookups, mishaps>>,
         c \in Structural \/ lookups => found = right,
         c \in {"N2a", "N2b"} => found \in {NONE, WEAK, STRONG},
         c \in {"N3_osm", "N3_sdc", "N3_wikisub"} => right = UsageLevel(c)
  PROVE  EvaluationInv'
<1>1. level[c] \in Levels /\ deserved[c] \in Levels
  BY DEF EvaluationInv
<1>2. /\ running = c /\ UNCHANGED <<waiting, running>>
      /\ level' = [level EXCEPT ![c] = IF level[c] < found THEN found
                                       ELSE level[c]]
  BY <1>1, HigherOf DEF Signal, Raise
<1>3. /\ deserved' \in [Direct -> Levels]
      /\ deserved'[c] = IF deserved[c] < right THEN right ELSE deserved[c]
      /\ \A d \in Direct : d # c => deserved'[d] = deserved[d]
  BY <1>1 DEF Signal, Deserving, EvaluationInv, Levels, NONE, STRONG
<1>4. /\ level' \in [Direct -> Levels]
      /\ level'[c] = IF level[c] < found THEN found ELSE level[c]
      /\ \A d \in Direct : d # c => level'[d] = level[d]
  BY <1>2 DEF EvaluationInv
<1>5. ASSUME c \in Structural \/ lookups, Tracks(c)
      PROVE  Tracks(c)'
  BY <1>1, <1>3, <1>4, <1>5 DEF Tracks, Levels, NONE, UNKNOWN, STRONG
<1>6. \A d \in Direct : d # c => (Tracks(d) => Tracks(d)')
  BY <1>3, <1>4 DEF Tracks
<1>7. Structural \subseteq Direct /\ Content \subseteq Direct
      /\ "N2a" \in Direct /\ "N2b" \in Direct
      /\ {"N3_osm", "N3_sdc", "N3_wikisub"} \subseteq Direct
  BY DEF Direct, Content, Structural
<1>8. /\ \A d \in Structural : Tracks(d)'
      /\ lookups' => \A d \in Content : Tracks(d)'
  BY <1>5, <1>6, <1>7 DEF EvaluationInv
<1>9. \A d \in {"N2a", "N2b"} : level'[d] \in {NONE, WEAK, UNKNOWN, STRONG}
  BY <1>4, <1>7 DEF EvaluationInv
<1>10. \A d \in {"N3_osm", "N3_sdc", "N3_wikisub"} :
         mishaps' = 0 => deserved'[d] \in {NONE, UsageLevel(d)}
  BY <1>3, <1>7 DEF EvaluationInv
<1>11. \A d \in waiting' : level'[d] = NONE
  <2> TAKE d \in waiting'
  <2>1. d \in waiting /\ d # c
    BY <1>2 DEF EvaluationInv
  <2> QED
    BY <1>2, <2>1 DEF EvaluationInv
<1> QED
  BY <1>2, <1>3, <1>4, <1>8, <1>9, <1>10, <1>11 DEF EvaluationInv

\* A failure leaves a level unknown, unless it is STRONG already.
LEMMA FailKeeps ==
  ASSUME EvaluationInv, NEW C \in SUBSET Direct,
         level' \in [Direct -> Levels], deserved' \in [Direct -> Levels],
         \A c \in C : level'[c] = Max({level[c], UNKNOWN}),
         \A c \in Direct \ C : level'[c] = level[c],
         \A c \in Direct \ C : deserved'[c] = deserved[c],
         \A c \in C : level[c] = STRONG /\ deserved[c] = STRONG
                        => deserved'[c] = STRONG,
         mishaps' \in Nat, mishaps' > 0, lookups' = lookups,
         waiting' \subseteq waiting \ C,
         running' \notin waiting', running' # NoDetector => running' \in Direct
  PROVE  EvaluationInv'
<1>1. Structural \subseteq Direct /\ Content \subseteq Direct
      /\ "N2a" \in Direct /\ "N2b" \in Direct /\ UNKNOWN \in Levels
  BY DEF Direct, Content, Structural, Levels, NONE, UNKNOWN, STRONG
<1>2. \A c \in C : level'[c] = IF level[c] < UNKNOWN THEN UNKNOWN ELSE level[c]
  BY <1>1, HigherOf DEF EvaluationInv
<1>3. ASSUME NEW c \in Direct, Tracks(c)
      PROVE  Tracks(c)'
  <2>1. level[c] \in Levels /\ deserved[c] \in Levels
    BY DEF EvaluationInv
  <2>2. CASE c \in C
    BY <1>2, <1>3, <2>1, <2>2 DEF Tracks, Levels, NONE, UNKNOWN, STRONG
  <2>3. CASE c \notin C
    BY <1>3, <2>3 DEF Tracks
  <2> QED
    BY <2>2, <2>3
<1>4. /\ \A c \in Structural : Tracks(c)'
      /\ lookups' => \A c \in Content : Tracks(c)'
  BY <1>1, <1>3 DEF EvaluationInv
<1>5. \A c \in {"N2a", "N2b"} : level'[c] \in {NONE, WEAK, UNKNOWN, STRONG}
  <2> TAKE c \in {"N2a", "N2b"}
  <2>1. c \in Direct /\ level[c] \in {NONE, WEAK, UNKNOWN, STRONG}
    BY <1>1 DEF EvaluationInv
  <2>2. CASE c \in C
    BY <1>2, <2>1, <2>2
  <2>3. CASE c \notin C
    BY <2>1, <2>3
  <2> QED
    BY <2>2, <2>3
<1>6. \A c \in waiting' : level'[c] = NONE
  <2> TAKE c \in waiting'
  <2>1. c \in waiting /\ c \notin C /\ level[c] = NONE
    BY DEF EvaluationInv
  <2>2. c \in Direct
    BY DEF EvaluationInv
  <2> QED
    BY <2>1, <2>2
<1>7. ~(mishaps' = 0)
  OBVIOUS
<1> QED
  BY <1>4, <1>5, <1>6, <1>7 DEF EvaluationInv

\* One criterion whose detector or source failed.
LEMMA OneFails ==
  ASSUME EvaluationInv, NEW c \in Direct, NEW right \in Unseen,
         level' = AddError(level, c), deserved' = Deserving(deserved, c, right),
         mishaps' = mishaps + 1, lookups' = lookups,
         waiting' = waiting \ {c}, running' \notin waiting',
         running' # NoDetector => running' \in Direct
  PROVE  EvaluationInv'
<1>1. right \in Levels /\ UNKNOWN \in Levels
  BY DEF Unseen, Levels, NONE, WEAK, UNKNOWN, STRONG
<1>2. Max({level[c], UNKNOWN}) \in Levels
  BY <1>1, HigherOf DEF EvaluationInv
<1>3. /\ level' \in [Direct -> Levels]
      /\ level'[c] = Max({level[c], UNKNOWN})
      /\ \A d \in Direct \ {c} : level'[d] = level[d]
  BY <1>2 DEF AddError, Raise, EvaluationInv
<1>4. /\ deserved' \in [Direct -> Levels]
      /\ \A d \in Direct \ {c} : deserved'[d] = deserved[d]
      /\ deserved[c] = STRONG => deserved'[c] = STRONG
  BY <1>1 DEF Deserving, EvaluationInv, Levels, NONE, STRONG
<1>5. mishaps' \in Nat /\ mishaps' > 0
  BY DEF EvaluationInv
<1> DEFINE C == {c}
<1>6. /\ C \in SUBSET Direct
      /\ \A d \in C : level'[d] = Max({level[d], UNKNOWN})
      /\ \A d \in C : level[d] = STRONG /\ deserved[d] = STRONG
                       => deserved'[d] = STRONG
      /\ \A d \in Direct \ C : level'[d] = level[d]
      /\ \A d \in Direct \ C : deserved'[d] = deserved[d]
      /\ waiting' \subseteq waiting \ C
  BY <1>3, <1>4
<1> HIDE DEF C
<1> QED
  BY <1>3, <1>4, <1>5, <1>6, FailKeeps

LEMMA EvaluationStep ==
  ASSUME EvaluationInv, EvaluationNext
  PROVE  EvaluationInv'
<1>0. NoDetector \notin Direct
  BY Zenon DEF NoDetector, Direct, Content, Structural
<1>1. ASSUME NEW c \in Direct, StartDetector(c)
      PROVE  EvaluationInv'
  <2>1. running' = c /\ waiting' = waiting \ {c}
        /\ UNCHANGED <<deserved, level, lookups, mishaps>>
    BY <1>1 DEF StartDetector
  <2> QED
    BY <2>1 DEF EvaluationInv, Tracks
<1>2. ASSUME NEW c \in Direct, FailSource(c)
      PROVE  EvaluationInv'
  <2>1. PICK right \in Unseen : deserved' = Deserving(deserved, c, right)
    BY <1>2 DEF FailSource
  <2>2. /\ level' = AddError(level, c) /\ mishaps' = mishaps + 1
        /\ waiting' = waiting \ {c} /\ UNCHANGED <<running, lookups>>
    BY <1>2 DEF FailSource
  <2>3. running' \notin waiting' /\ (running' # NoDetector => running' \in Direct)
    BY <2>2 DEF EvaluationInv
  <2> QED
    BY <2>1, <2>2, <2>3, OneFails
<1>3. CASE FailDetector
  <2>1. PICK right \in Unseen : deserved' = Deserving(deserved, running, right)
    BY <1>3 DEF FailDetector
  <2>2. /\ running # NoDetector /\ level' = AddError(level, running)
        /\ mishaps' = mishaps + 1
        /\ running' = NoDetector /\ UNCHANGED <<waiting, lookups>>
    BY <1>3, Zenon DEF FailDetector, NoDetector
  <2>3. waiting' = waiting \ {running} /\ NoDetector \notin waiting
    BY <2>2, <1>0 DEF EvaluationInv
  <2>5. running' \notin waiting'
    BY <2>2, <2>3
  <2>4. running \in Direct
    BY <2>2 DEF EvaluationInv
  <2> QED
    BY <2>1, <2>2, <2>3, <2>4, <2>5, OneFails
<1>4. CASE FailContent
  <2>1. Content \subseteq Direct /\ "N1" \in Direct /\ "N2a" \in Direct
        /\ "N2b" \in Direct /\ UNKNOWN \in Levels /\ Unseen \subseteq Levels
        /\ Content = {"N1", "N2a", "N2b"}
    BY DEF Direct, Content, Structural, Unseen, Levels, NONE, WEAK, UNKNOWN,
           STRONG
  <2>2. /\ Content \subseteq waiting
        /\ level' = AddError(AddError(AddError(level, "N1"), "N2a"), "N2b")
        /\ waiting' = waiting \ Content
        /\ mishaps' = mishaps + 1 /\ UNCHANGED <<running, lookups>>
    BY <1>4 DEF FailContent
  <2>3. PICK right \in [Content -> Unseen] :
          deserved' = [c \in Direct |-> IF c \in Content THEN right[c]
                                        ELSE deserved[c]]
    BY <1>4 DEF FailContent
  <2>4. ASSUME NEW c \in Content
        PROVE  Max({level[c], UNKNOWN}) \in Levels
    <3>1. level[c] \in Levels
      BY <2>1 DEF EvaluationInv
    <3> QED
      BY <2>1, <3>1, HigherOf
  <2>5. /\ level' \in [Direct -> Levels]
        /\ \A c \in Content : level'[c] = Max({level[c], UNKNOWN})
        /\ \A c \in Direct \ Content : level'[c] = level[c]
    BY <2>1, <2>2, <2>4 DEF AddError, Raise, EvaluationInv
  <2>6. /\ deserved' \in [Direct -> Levels]
        /\ \A c \in Direct \ Content : deserved'[c] = deserved[c]
    BY <2>1, <2>3 DEF EvaluationInv
  <2>7. \A c \in Content : level[c] # STRONG
    BY <2>2 DEF EvaluationInv, NONE, STRONG
  <2>8. mishaps' \in Nat /\ mishaps' > 0
        /\ running' \notin waiting' /\ (running' # NoDetector => running' \in Direct)
        /\ waiting' \subseteq waiting \ Content
    BY <2>2 DEF EvaluationInv
  <2> QED
    BY <2>1, <2>2, <2>5, <2>6, <2>7, <2>8, FailKeeps
<1>5. CASE FinishDetector
  <2>1. running' = NoDetector /\ UNCHANGED <<deserved, level, waiting, lookups, mishaps>>
    BY <1>5, Zenon DEF FinishDetector, NoDetector
  <2>2. NoDetector \notin waiting
    BY <1>0 DEF EvaluationInv
  <2> QED
    BY <2>1, <2>2 DEF EvaluationInv, Tracks
<1>6. CASE JudgeSitelink
  <2>1. PICK j \in IF lookups THEN Judgements ELSE Misjudgements :
          Signal("N1", j[1], j[2])
    BY <1>6 DEF JudgeSitelink
  <2>2. NONE \in Levels
    BY DEF Levels, NONE, STRONG
  <2>3. CASE lookups
    <3>1. PICK s \in Sitelink : j = <<SitelinkLevel(s), SitelinkDeserves(s)>>
      BY <2>3 DEF Judgements
    <3>2. j[1] = j[2] /\ j[1] \in Levels
      BY <3>1, SitelinkJudged
    <3> QED
      BY <1>6, <2>1, <3>2, SignalKeeps
      DEF JudgeSitelink, Direct, Content, Structural
  <2>4. CASE ~lookups
    <3>1. PICK s \in Sitelink :
            j \in {NONE, SitelinkLevel(s), SitelinkLevel(Unprefixed(s))}
                    \X {SitelinkDeserves(s)}
      BY <2>4 DEF Misjudgements
    <3>2. Unprefixed(s) \in Sitelink
      BY DEF Unprefixed, Sitelink
    <3>3. j[1] \in Levels /\ j[2] \in Levels
      BY <2>2, <3>1, <3>2, SitelinkJudged
    <3> QED
      BY <1>6, <2>1, <2>4, <3>3, SignalKeeps
      DEF JudgeSitelink, Direct, Content, Structural
  <2> QED
    BY <2>3, <2>4 DEF EvaluationInv
<1>7. CASE CommonsCategory
  BY <1>7, SignalKeeps
  DEF CommonsCategory, Direct, Content, Structural, Levels, NONE, WEAK, STRONG
<1>8. ASSUME NEW t \in Statements, JudgeIdentifier(t) \/ JudgeReference(t)
      PROVE  EvaluationInv'
  <2>1. {NONE, WEAK, STRONG} \subseteq Levels
    BY DEF Levels, NONE, WEAK, STRONG
  <2>2. \A known \in BOOLEAN :
          /\ IdentifierLevel(t, known) \in {NONE, WEAK, STRONG}
          /\ ReferenceLevel(t, known) \in {NONE, WEAK, STRONG}
    BY DEF Statements, IdentifierLevel, ReferenceLevel
  <2>3. lookups \in BOOLEAN
    BY DEF EvaluationInv
  <2>4. /\ lookups => IdentifierLevel(t, lookups) = IdentifierLevel(t, TRUE)
        /\ lookups => ReferenceLevel(t, lookups) = ReferenceLevel(t, TRUE)
    BY <2>3
  <2>5. /\ {"N2a", "N2b"} \subseteq Direct
        /\ {"N2a", "N2b"} \intersect Structural = {}
        /\ {"N2a", "N2b"} \intersect {"N3_osm", "N3_sdc", "N3_wikisub"} = {}
    BY DEF Direct, Content, Structural
  <2>6. CASE JudgeIdentifier(t)
    BY <2>1, <2>2, <2>3, <2>4, <2>5, <2>6, SignalKeeps DEF JudgeIdentifier
  <2>7. CASE JudgeReference(t)
    BY <2>1, <2>2, <2>3, <2>4, <2>5, <2>7, SignalKeeps DEF JudgeReference
  <2> QED
    BY <1>8, <2>6, <2>7
<1>9. ASSUME NEW stored \in Levels, JudgeInlink(stored)
      PROVE  EvaluationInv'
  BY <1>9, SignalKeeps DEF JudgeInlink, Direct, Content, Structural
<1>10. ASSUME NEW c \in {"N3_osm", "N3_sdc", "N3_wikisub"}, JudgeUsage(c)
       PROVE  EvaluationInv'
  <2>1. c \in Direct /\ c \notin {"N2a", "N2b"} /\ UsageLevel(c) \in Levels
    BY DEF Direct, Content, Structural, UsageLevel, Levels, NONE, WEAK, STRONG
  <2> QED
    BY <1>10, <2>1, SignalKeeps DEF JudgeUsage
<1> QED
  BY <1>1, <1>2, <1>3, <1>4, <1>5, <1>6, <1>7, <1>8, <1>9, <1>10
  DEF EvaluationNext

\* N2, as numbers.
LEMMA DeducedN2 ==
  ASSUME NEW a \in Levels, NEW b \in Levels
  PROVE  DeduceN2(a, b) =
           IF a = 4 \/ b = 4 THEN 4
           ELSE IF a = 0 /\ b = 0 THEN 0
           ELSE IF a = 0 THEN (IF b = 2 \/ b = 5 THEN 2 ELSE 1)
           ELSE IF b = 0 THEN (IF a = 2 \/ a = 5 THEN 2 ELSE 1)
           ELSE IF a < b THEN a ELSE b
<1>1. CASE a = 4 \/ b = 4
  BY <1>1 DEF DeduceN2, UNKNOWN, NONE
<1>2. CASE a # 4 /\ b # 4 /\ a = 0
  BY <1>2
  DEF DeduceN2, Partial, UNKNOWN, NONE, PARTIAL_STRONG, PARTIAL_WEAK, STRONG
<1>3. CASE a # 4 /\ b # 4 /\ a # 0 /\ b = 0
  BY <1>3
  DEF DeduceN2, Partial, UNKNOWN, NONE, PARTIAL_STRONG, PARTIAL_WEAK, STRONG
<1>4. CASE a # 4 /\ b # 4 /\ a # 0 /\ b # 0
  BY <1>4, LowerOf DEF DeduceN2, UNKNOWN, NONE
<1> QED
  BY <1>1, <1>2, <1>3, <1>4

LEMMA DeducedN2Level ==
  ASSUME NEW a \in Levels, NEW b \in Levels
  PROVE  DeduceN2(a, b) \in Levels
BY DeducedN2 DEF Levels, NONE, STRONG

LEMMA N12Is ==
  ASSUME NEW l \in [Direct -> Levels]
  PROVE  /\ l["N1"] \in Levels /\ l["N2a"] \in Levels /\ l["N2b"] \in Levels
         /\ N12(l) = Max({l["N1"], DeduceN2(l["N2a"], l["N2b"])})
         /\ N12(l) \in Levels
<1>1. l["N1"] \in Levels /\ l["N2a"] \in Levels /\ l["N2b"] \in Levels
  BY DEF Direct, Content
<1> QED
  BY <1>1, DeducedN2Level, HigherOf DEF N12

LEMMA N3Is ==
  ASSUME NEW l \in [Direct -> Levels]
  PROVE  /\ N3(l) \in Levels
         /\ \E c \in Structural : N3(l) = l[c]
         /\ \A c \in Structural : l[c] <= N3(l)
<1>1. Structural \subseteq Direct /\ Structural # {}
  BY DEF Direct, Structural
<1>2. {l[c] : c \in Structural} \in SUBSET Levels
      /\ {l[c] : c \in Structural} # {}
  BY <1>1
<1> QED
  BY <1>2, Highest DEF N3

\* Two levels that agree with what is deserved make derived levels that do.
LEMMA AgreeHigher ==
  ASSUME NEW a \in Levels, NEW b \in Levels, NEW a2 \in Levels,
         NEW b2 \in Levels, mishaps \in Nat, Agree(a, a2), Agree(b, b2)
  PROVE  Agree(Max({a, b}), Max({a2, b2}))
<1>1. Max({a, b}) = IF a < b THEN b ELSE a
  BY HigherOf
<1>2. Max({a2, b2}) = IF a2 < b2 THEN b2 ELSE a2
  BY HigherOf
<1> QED
  BY <1>1, <1>2 DEF Agree, Levels, NONE, UNKNOWN, STRONG

LEMMA AgreeN2 ==
  ASSUME NEW a \in Levels, NEW b \in Levels, NEW a2 \in Levels,
         NEW b2 \in Levels, mishaps \in Nat, Agree(a, a2), Agree(b, b2)
  PROVE  Agree(DeduceN2(a, b), DeduceN2(a2, b2))
<1>1. CASE a = a2 /\ b = b2
  BY <1>1 DEF Agree
<1>2. CASE (a = 4 \/ b = 4) /\ mishaps > 0
  BY <1>2, DeducedN2 DEF Agree, UNKNOWN
<1> QED
  BY <1>1, <1>2 DEF Agree, UNKNOWN

LEMMA FinishedReport ==
  ASSUME EvaluationInv
  PROVE  ReportSound
<1>1. /\ level \in [Direct -> Levels] /\ deserved \in [Direct -> Levels]
      /\ mishaps \in Nat /\ Structural \subseteq Direct
      /\ \A c \in Structural : Tracks(c)
  BY DEF EvaluationInv, Direct
<1>2. \A c \in Direct : Tracks(c) => Agree(level[c], deserved[c])
  BY DEF Tracks, Agree
<1>3. Agree(N3(level), N3(deserved))
  <2>1. CASE \A c \in Structural : level[c] = deserved[c]
    <3>1. {level[c] : c \in Structural} = {deserved[c] : c \in Structural}
      BY <2>1
    <3> QED
      BY <3>1 DEF Agree, N3
  <2>2. ASSUME NEW d \in Structural, level[d] = UNKNOWN, mishaps > 0
        PROVE  Agree(N3(level), N3(deserved))
    <3>1. N3(level) \in Levels /\ level[d] <= N3(level)
      BY <1>1, N3Is
    <3>2. CASE N3(level) = UNKNOWN
      BY <2>2, <3>2 DEF Agree
    <3>3. CASE N3(level) = STRONG
      <4>1. PICK c \in Structural : level[c] = STRONG
        BY <1>1, <3>3, N3Is
      <4>2. deserved[c] = STRONG
        BY <1>1, <4>1 DEF Tracks, UNKNOWN, STRONG
      <4>3. N3(deserved) \in Levels /\ STRONG <= N3(deserved)
        BY <1>1, <4>2, N3Is
      <4>4. N3(deserved) = STRONG
        BY <4>3 DEF Levels, NONE, STRONG
      <4> QED
        BY <3>3, <4>4 DEF Agree
    <3> QED
      BY <2>2, <3>1, <3>2, <3>3 DEF Levels, NONE, UNKNOWN, STRONG
  <2> QED
    BY <1>1, <2>1, <2>2 DEF Tracks
<1>4. ASSUME lookups
      PROVE  /\ \A c \in Content : Agree(level[c], deserved[c])
             /\ Agree(N12(level), N12(deserved))
             /\ Agree(N(level), N(deserved))
  <2>1. \A c \in Content : Agree(level[c], deserved[c])
    <3>1. Content \subseteq Direct /\ \A c \in Content : Tracks(c)
      BY <1>4 DEF EvaluationInv, Direct
    <3> QED
      BY <1>2, <3>1
  <2>2. "N1" \in Content /\ "N2a" \in Content /\ "N2b" \in Content
    BY DEF Content
  <2>3. Agree(DeduceN2(level["N2a"], level["N2b"]),
              DeduceN2(deserved["N2a"], deserved["N2b"]))
    BY <1>1, <2>1, <2>2, N12Is, AgreeN2
  <2>4. Agree(N12(level), N12(deserved))
    <3> DEFINE found == DeduceN2(level["N2a"], level["N2b"])
               right == DeduceN2(deserved["N2a"], deserved["N2b"])
    <3>1. /\ level["N1"] \in Levels /\ deserved["N1"] \in Levels
          /\ found \in Levels /\ right \in Levels
      BY <1>1, N12Is, DeducedN2Level
    <3>2. Agree(level["N1"], deserved["N1"]) /\ Agree(found, right)
      BY <2>1, <2>2, <2>3
    <3>3. /\ N12(level) = Max({level["N1"], found})
          /\ N12(deserved) = Max({deserved["N1"], right})
      BY DEF N12
    <3> HIDE DEF found, right
    <3>4. Agree(Max({level["N1"], found}), Max({deserved["N1"], right}))
      BY <1>1, <3>1, <3>2, AgreeHigher
    <3> QED
      BY <3>3, <3>4
  <2>5. Agree(N(level), N(deserved))
    <3>1. /\ N12(level) \in Levels /\ N12(deserved) \in Levels
          /\ N3(level) \in Levels /\ N3(deserved) \in Levels
      BY <1>1, N12Is, N3Is
    <3>2. Agree(Max({N12(level), N3(level)}), Max({N12(deserved), N3(deserved)}))
      BY <1>1, <1>3, <2>4, <3>1, AgreeHigher
    <3> QED
      BY <3>2 DEF N
  <2> QED
    BY <2>1, <2>4, <2>5
<1> QED
  BY <1>1, <1>2, <1>3, <1>4 DEF ReportSound

\* What is stored is what was found, and what is missing is not known.
LEMMA WhatIsRead ==
  ASSUME EvaluationInv, NEW stored \in Storable
  PROVE  /\ LevelsRead(stored) \in [Direct -> Levels]
         /\ Content \subseteq stored =>
              \A c \in Content : /\ LevelsRead(stored)[c] = level[c]
                                 /\ level[c] # UNKNOWN
         /\ ~(Content \subseteq stored) =>
              \A c \in Content : LevelsRead(stored)[c] = UNKNOWN
         /\ LevelsRead(stored)["N3_inlinks"] \in {level["N3_inlinks"], UNKNOWN}
         /\ mishaps = 0 => \A c \in Structural \ {"N3_inlinks"} :
                             LevelsRead(stored)[c] = level[c]
<1>1. /\ level \in [Direct -> Levels] /\ UNKNOWN \in Levels
      /\ \A c \in {"N3_osm", "N3_sdc", "N3_wikisub"} : UsageRead(c) \in Levels
  BY DEF EvaluationInv, UsageRead, UsageLevel, Levels, NONE, WEAK, UNKNOWN,
         STRONG
<1>2. /\ Content \subseteq Direct /\ "N3_inlinks" \in Direct
      /\ "N3_inlinks" \notin Content /\ Structural \subseteq Direct
      /\ Structural \ {"N3_inlinks"} = {"N3_osm", "N3_sdc", "N3_wikisub"}
      /\ Direct \ (Content \union {"N3_inlinks"})
           = {"N3_osm", "N3_sdc", "N3_wikisub"}
      /\ Structural \intersect Content = {}
  BY DEF Direct, Content, Structural
<1>3. \A c \in Direct :
        LevelsRead(stored)[c] =
          IF c \notin Content \union {"N3_inlinks"} THEN UsageRead(c)
          ELSE IF c \in stored THEN level[c] ELSE UNKNOWN
  BY DEF LevelsRead
<1>4. LevelsRead(stored) \in [Direct -> Levels]
  <2>1. \A c \in Direct : level[c] \in Levels
    BY <1>1
  <2>2. \A c \in Direct : LevelsRead(stored)[c] \in Levels
    BY <1>1, <1>2, <1>3, <2>1
  <2>3. LevelsRead(stored) = [c \in Direct |-> LevelsRead(stored)[c]]
    BY DEF LevelsRead
  <2> QED
    BY <2>2, <2>3
<1>5. Content \subseteq stored \/ Content \intersect stored = {}
  <2>1. Content \intersect {"N3_inlinks"} = {}
    BY <1>2
  <2> QED
    BY <2>1 DEF Storable
<1>6. ASSUME Content \subseteq stored
      PROVE  \A c \in Content : /\ LevelsRead(stored)[c] = level[c]
                                /\ level[c] # UNKNOWN
  <2>1. \A c \in Content : level[c] # UNKNOWN
    BY <1>6 DEF Storable
  <2>2. \A c \in Content : LevelsRead(stored)[c] = level[c]
    BY <1>2, <1>3, <1>6
  <2> QED
    BY <2>1, <2>2
<1>7. ASSUME ~(Content \subseteq stored)
      PROVE  \A c \in Content : LevelsRead(stored)[c] = UNKNOWN
  BY <1>2, <1>3, <1>5, <1>7
<1>8. LevelsRead(stored)["N3_inlinks"] \in {level["N3_inlinks"], UNKNOWN}
  BY <1>2, <1>3
<1>9. ASSUME mishaps = 0, NEW c \in Structural \ {"N3_inlinks"}
      PROVE  LevelsRead(stored)[c] = level[c]
  <2>1. level[c] = deserved[c] /\ deserved[c] \in {NONE, UsageLevel(c)}
    BY <1>2, <1>9 DEF EvaluationInv, Tracks
  <2>2. LevelsRead(stored)[c] = UsageRead(c)
    BY <1>2, <1>3
  <2> QED
    BY <2>1, <2>2 DEF UsageRead
<1> QED
  BY <1>4, <1>6, <1>7, <1>8, <1>9

\* The view's rule for N2 agrees with that of the code on the levels of N2.
LEMMA ViewsN2 ==
  ASSUME NEW n1 \in Levels, n1 # UNKNOWN, NEW a \in {NONE, WEAK, STRONG},
         NEW b \in {NONE, WEAK, STRONG}
  PROVE  ViewN2(n1, a, b) = DeduceN2(a, b)
<1>1. a \in Levels /\ b \in Levels /\ UNKNOWN \notin {n1, a, b}
  BY DEF Levels, NONE, WEAK, UNKNOWN, STRONG
<1>2. CASE NONE \notin {a, b}
  BY <1>1, <1>2, LowerOf, DeducedN2
  DEF ViewN2, NONE, WEAK, UNKNOWN, STRONG
<1>3. CASE NONE \in {a, b}
  <2>1. Max({a, b}) = IF a < b THEN b ELSE a
    BY <1>1, HigherOf
  <2>2. ViewN2(n1, a, b) = IF Max({a, b}) = NONE THEN NONE
                           ELSE IF Max({a, b}) = STRONG THEN PARTIAL_STRONG
                           ELSE PARTIAL_WEAK
    <3>1. CASE Max({a, b}) = NONE
      BY <1>1, <1>3, <3>1 DEF ViewN2, NONE, STRONG
    <3>2. CASE Max({a, b}) = STRONG
      BY <1>1, <1>3, <3>2 DEF ViewN2, NONE, STRONG
    <3>3. CASE Max({a, b}) \notin {NONE, STRONG}
      BY <1>1, <1>3, <3>3 DEF ViewN2
    <3> QED
      BY <3>1, <3>2, <3>3 DEF NONE, STRONG
  <2> QED
    BY <1>1, <1>3, <2>1, <2>2, DeducedN2
    DEF NONE, WEAK, UNKNOWN, STRONG, PARTIAL_WEAK, PARTIAL_STRONG
<1> QED
  BY <1>2, <1>3

LEMMA ReadN3 ==
  ASSUME EvaluationInv, NEW read \in [Direct -> Levels],
         read["N3_inlinks"] \in {level["N3_inlinks"], UNKNOWN},
         \A c \in Structural \ {"N3_inlinks"} : read[c] = level[c]
  PROVE  N3(read) \in {N3(level), UNKNOWN}
<1>1. level \in [Direct -> Levels] /\ "N3_inlinks" \in Structural
  BY DEF EvaluationInv, Structural
<1>2. CASE read["N3_inlinks"] = level["N3_inlinks"]
  <2>1. \A c \in Structural : read[c] = level[c]
    BY <1>2
  <2>2. {read[c] : c \in Structural} = {level[c] : c \in Structural}
    BY <2>1
  <2> QED
    BY <2>2 DEF N3
<1>3. CASE read["N3_inlinks"] = UNKNOWN
  <2>1. N3(read) \in Levels /\ UNKNOWN <= N3(read)
    BY <1>1, <1>3, N3Is
  <2>2. CASE N3(read) = STRONG
    <3>1. PICK c \in Structural : read[c] = STRONG
      BY <2>2, N3Is
    <3>2. level[c] = STRONG
      BY <1>3, <3>1 DEF UNKNOWN, STRONG
    <3>3. N3(level) \in Levels /\ STRONG <= N3(level)
      BY <1>1, <3>2, N3Is
    <3> QED
      BY <2>2, <3>3 DEF Levels, NONE, STRONG
  <2> QED
    BY <2>1, <2>2 DEF Levels, NONE, UNKNOWN, STRONG
<1> QED
  BY <1>2, <1>3

LEMMA UnknownHigher ==
  ASSUME NEW a \in Levels, NEW b \in Levels, NEW a2 \in {a, UNKNOWN},
         NEW b2 \in {b, UNKNOWN}
  PROVE  Max({a2, b2}) \in {Max({a, b}), UNKNOWN}
<1>1. a2 \in Levels /\ b2 \in Levels
  BY DEF Levels, NONE, UNKNOWN, STRONG
<1>2. /\ Max({a, b}) = IF a < b THEN b ELSE a
      /\ Max({a2, b2}) = IF a2 < b2 THEN b2 ELSE a2
  BY <1>1, HigherOf
<1> QED
  BY <1>2 DEF Levels, NONE, UNKNOWN, STRONG

LEMMA FinishedReads ==
  ASSUME EvaluationInv
  PROVE  ReadsAgree
<1> SUFFICES ASSUME NEW stored \in Storable
             PROVE  LET read == LevelsRead(stored) IN
                    /\ N12(read) \in {N12(level), UNKNOWN}
                    /\ Content \subseteq stored =>
                         /\ N12(read) = N12(level)
                         /\ ViewN2(read["N1"], read["N2a"], read["N2b"])
                              = DeduceN2(level["N2a"], level["N2b"])
                         /\ ViewN12(read) = N12(level)
                    /\ mishaps = 0 => /\ N3(read) \in {N3(level), UNKNOWN}
                                      /\ N(read) \in {N(level), UNKNOWN}
  BY DEF ReadsAgree
<1> DEFINE read == LevelsRead(stored)
<1>1. /\ read \in [Direct -> Levels] /\ level \in [Direct -> Levels]
      /\ UNKNOWN \in Levels /\ Content = {"N1", "N2a", "N2b"}
  BY WhatIsRead DEF EvaluationInv, Levels, NONE, UNKNOWN, STRONG, Content
<1>2. ASSUME Content \subseteq stored
      PROVE  /\ N12(read) = N12(level)
             /\ ViewN2(read["N1"], read["N2a"], read["N2b"])
                  = DeduceN2(level["N2a"], level["N2b"])
             /\ ViewN12(read) = N12(level)
  <2>1. /\ read["N1"] = level["N1"] /\ read["N2a"] = level["N2a"]
        /\ read["N2b"] = level["N2b"] /\ level["N1"] # UNKNOWN
        /\ level["N2a"] # UNKNOWN /\ level["N2b"] # UNKNOWN
    BY <1>1, <1>2, WhatIsRead
  <2>2. /\ level["N2a"] \in {NONE, WEAK, STRONG}
        /\ level["N2b"] \in {NONE, WEAK, STRONG} /\ level["N1"] \in Levels
    BY <1>1, <2>1, N12Is DEF EvaluationInv
  <2>3. ViewN2(level["N1"], level["N2a"], level["N2b"])
          = DeduceN2(level["N2a"], level["N2b"])
    BY <2>1, <2>2, ViewsN2
  <2> HIDE DEF read
  <2> QED
    <3>1. N12(read) = N12(level)
      BY <2>1, Zenon DEF N12
    <3>2. ViewN12(read) = N12(level)
      BY <2>1, <2>3, Zenon DEF N12, ViewN12
    <3>3. ViewN2(read["N1"], read["N2a"], read["N2b"])
            = ViewN2(level["N1"], level["N2a"], level["N2b"])
      BY <2>1, Zenon
    <3> QED
      BY <2>3, <3>1, <3>2, <3>3, Zenon
<1>3. ASSUME ~(Content \subseteq stored)
      PROVE  N12(read) = UNKNOWN
  <2>1. read["N1"] = UNKNOWN /\ read["N2a"] = UNKNOWN /\ read["N2b"] = UNKNOWN
    BY <1>1, <1>3, WhatIsRead
  <2> HIDE DEF read
  <2>2. DeduceN2(UNKNOWN, UNKNOWN) = UNKNOWN
    BY DEF DeduceN2
  <2>3. Max({UNKNOWN, UNKNOWN}) = UNKNOWN
    BY <1>1, HigherOf
  <2> QED
    BY <2>1, <2>2, <2>3 DEF N12
<1>4. N12(read) \in {N12(level), UNKNOWN}
  BY <1>2, <1>3
<1>5. ASSUME mishaps = 0
      PROVE  N3(read) \in {N3(level), UNKNOWN} /\ N(read) \in {N(level), UNKNOWN}
  <2>1. N3(read) \in {N3(level), UNKNOWN}
    <3>1. /\ read["N3_inlinks"] \in {level["N3_inlinks"], UNKNOWN}
          /\ \A c \in Structural \ {"N3_inlinks"} : read[c] = level[c]
      BY <1>5, WhatIsRead
    <3> HIDE DEF read
    <3> QED
      BY <1>1, <3>1, ReadN3
  <2> HIDE DEF read
  <2>2. N12(level) \in Levels /\ N3(level) \in Levels
    BY <1>1, N12Is, N3Is
  <2>3. Max({N12(read), N3(read)}) \in {Max({N12(level), N3(level)}), UNKNOWN}
    BY <1>4, <2>1, <2>2, UnknownHigher
  <2> QED
    BY <2>1, <2>3 DEF N
<1> QED
  BY <1>2, <1>4, <1>5

-----------------------------------------------------------------------------
(* Types and bounds, beside what the invariants already say *)

\* A scan reads on only below its limit, so it overshoots by a block at most.
SubscribersTypes ==
  /\ late \subseteq assigned /\ subscribers \subseteq UsedItems
  /\ shared \in BOOLEAN /\ breakdowns \in 0..MaxBreakdowns
  /\ builder.limit <= LastRow /\ builder.at <= LastRow + BlockSize
  /\ builder.pc = "scan" => builder.at <= builder.limit
  /\ updater.limit <= LastRow /\ updater.at <= LastRow + BlockSize
  /\ updater.pc = "scan" => updater.at <= updater.limit

TraceTypes ==
  /\ recorded \in 0..LastEvent /\ sleeping \subseteq Events
  /\ {} \notin batches /\ pruner \in BOOLEAN

EvaluationTypes == signals \in 0..MaxSignals /\ mishaps \in 0..MaxMishaps

LauncherTypes ==
  /\ phase \in {"off", "starting", "watching", "restarting", "stopping", "ended"}
  /\ stray \subseteq units
  /\ handlers \in BOOLEAN /\ guarded \in BOOLEAN
  /\ stop \in BOOLEAN /\ exposed \in BOOLEAN

CreationTypes ==
  /\ wanted \subseteq NewItems
  /\ \A q \in NewItems : firsts[q] \subseteq History[q].firsts
  /\ Cardinality(pass.targets) <= FetchLimit
  /\ setbacks \in 0..MaxSetbacks

LEMMA LauncherTypesStep ==
  ASSUME LauncherInv, LauncherTypes, LauncherNext
  PROVE  LauncherTypes'
<1> USE DEF LauncherTypes
<1>1. phase = "off" => stray = {}
  BY Zenon DEF LauncherInv, StrayIsExposed, LaunchIsHandled
<1>2. ASSUME NEW p \in {"launch", "run"}, NEW names, NEW groups,
             StartUnits(p, names, groups)
      PROVE  LauncherTypes'
  BY <1>1, <1>2 DEF StartUnits
<1>3. ASSUME NEW p \in {"dev-workers", "reload"}, NEW u \in Units,
             StartWorker(p, u)
      PROVE  LauncherTypes'
  BY <1>1, <1>3 DEF StartWorker
<1>4. CASE Spawn \/ SpawnFails
  BY <1>4 DEF Spawn, SpawnFails
<1>5. ASSUME NEW gone \in BOOLEAN, RecordProcess(gone)
      PROVE  LauncherTypes'
  BY <1>5 DEF RecordProcess
<1>6. ASSUME NEW u \in Units, ProcessEnds(u) \/ StopProcess(u)
      PROVE  LauncherTypes'
  BY <1>6 DEF ProcessEnds, StopProcess
<1>7. CASE SeeProcessEnded \/ SeeFilesChanged \/ SeeStop \/ AllStopped
  BY <1>7 DEF SeeProcessEnded, SeeFilesChanged, SeeStop, AllStopped
<1>8. ASSUME NEW succeeded \in BOOLEAN, UnitEnded(succeeded)
      PROVE  LauncherTypes'
  BY <1>8 DEF UnitEnded
<1>9. CASE Signalled
  <2>1. Up \subseteq units /\ fresh \in units \union {0}
    BY Zenon DEF LauncherInv, Up
  <2>2. units' = units /\ handlers' = handlers /\ guarded' = guarded
    BY <1>9 DEF Signalled
  <2>3. stray' \subseteq units
    BY <1>9, <2>1 DEF Signalled, HandleLaunchSignal, SetStopEvent,
                      HandleWorkersSignal, DieOfSignal, Abandon
  <2>4. phase' \in {phase, "stopping", "ended"}
    BY <1>9 DEF Signalled, HandleLaunchSignal, SetStopEvent,
                HandleWorkersSignal, DieOfSignal, Abandon
  <2>5. stop' \in BOOLEAN
    BY <1>9 DEF Signalled, HandleLaunchSignal, SetStopEvent,
                HandleWorkersSignal, DieOfSignal, Abandon
  <2>6. exposed' \in BOOLEAN
    BY <1>9 DEF Signalled, HandleLaunchSignal, SetStopEvent,
                HandleWorkersSignal, DieOfSignal, Abandon
  <2> QED
    BY <2>2, <2>3, <2>4, <2>5, <2>6
<1>10. CASE ExceptionEnds
  <2>1. Up \subseteq units /\ fresh \in units \union {0}
    BY Zenon DEF LauncherInv, Up
  <2>2. /\ units' = units /\ handlers' = handlers /\ guarded' = guarded
        /\ stop' = stop
    BY <1>10 DEF ExceptionEnds
  <2>3. stray' \subseteq units
    BY <1>10, <2>1 DEF ExceptionEnds, Abandon
  <2>4. phase' \in {"stopping", "ended"} /\ exposed' \in BOOLEAN
    BY <1>10 DEF ExceptionEnds, Abandon
  <2> QED
    BY <2>2, <2>3, <2>4
<1> QED
  BY <1>2, <1>3, <1>4, <1>5, <1>6, <1>7, <1>8, <1>9, <1>10 DEF LauncherNext

LEMMA LauncherTyped ==
  ASSUME LauncherInv, LauncherTypes
  PROVE  LauncherTypeOK
<1>1. program \in Programs \union {""}
  BY Zenon DEF LauncherInv, Programs
<1>2. /\ units \subseteq Units /\ child \in [Units -> {"none", "up", "down"}]
      /\ fresh \in units \union {0}
  BY Zenon DEF LauncherInv
<1> QED
  BY <1>1, <1>2, Zenon DEF LauncherTypes, LauncherTypeOK

LEMMA EvaluationTypesStep ==
  ASSUME EvaluationTypes, EvaluationNext
  PROVE  EvaluationTypes'
<1>1. \/ signals' \in {signals, 0}
      \/ signals' = signals + 1 /\ signals < MaxSignals
  BY Zenon DEF EvaluationNext, StartDetector, FailSource, JudgeIdentifier, Signal,
         JudgeReference, JudgeInlink, JudgeUsage, JudgeSitelink, CommonsCategory,
         FinishDetector, FailDetector, FailContent
<1>2. \/ mishaps' = mishaps
      \/ mishaps' = mishaps + 1 /\ mishaps < MaxMishaps
  BY Zenon DEF EvaluationNext, StartDetector, FailSource, JudgeIdentifier, Signal,
         JudgeReference, JudgeInlink, JudgeUsage, JudgeSitelink, CommonsCategory,
         FinishDetector, FailDetector, FailContent
<1> QED
  BY <1>1, <1>2, EvaluationAssumption DEF EvaluationTypes

LEMMA EvaluationTyped ==
  ASSUME EvaluationInv, EvaluationTypes
  PROVE  EvaluationTypeOK
<1>1. running \in Direct \union {NoDetector}
  BY DEF EvaluationInv
<1>2. running \in Direct \union {""}
  BY <1>1, Zenon DEF NoDetector
<1>3. /\ deserved \in [Direct -> Levels] /\ level \in [Direct -> Levels]
      /\ waiting \subseteq Direct /\ lookups \in BOOLEAN
      /\ signals \in 0..MaxSignals /\ mishaps \in 0..MaxMishaps
  BY DEF EvaluationInv, EvaluationTypes
<1> QED
  BY <1>2, <1>3, Zenon DEF EvaluationTypeOK

LEMMA TraceTypesStep ==
  ASSUME TraceInv, TraceTypes, TraceNext
  PROVE  TraceTypes'
<1> USE DEF TraceTypes
<1>1. ASSUME NEW n \in Events, NEW aged \in BOOLEAN, Record(n, aged)
      PROVE  TraceTypes'
  <2>1. n \in Nat /\ n > 0 /\ recorded' = recorded + n
        /\ recorded + n <= LastEvent /\ pruner' = TRUE
    BY <1>1, TraceAssumption DEF Record, Events
  <2>2. recorded + n \in Events
    BY <2>1, TraceAssumption DEF Events
  <2>3. sleeping' \subseteq Events
    BY <1>1, <2>2 DEF Record
  <2>4. {} \notin batches'
    BY <1>1 DEF Record, Take
  <2> QED
    BY <2>1, <2>3, <2>4, TraceAssumption
<1>2. ASSUME NEW t \in Events, Wake(t)
      PROVE  TraceTypes'
  BY <1>2 DEF Wake, Take
<1>3. CASE Flush
  BY <1>3 DEF Flush, Take
<1>4. ASSUME NEW batch \in batches, NEW chunk \in SUBSET batch,
             WriteChunk(batch, chunk)
      PROVE  TraceTypes'
  BY <1>4 DEF WriteChunk
<1>5. ASSUME NEW batch \in batches, FailWrite(batch)
      PROVE  TraceTypes'
  BY <1>5 DEF FailWrite
<1>6. ASSUME NEW oldest \in Events, Prune(oldest)
      PROVE  TraceTypes'
  BY <1>6 DEF Prune
<1>7. CASE Close \/ EndProcess
  BY <1>7 DEF Close, EndProcess
<1> QED
  BY <1>1, <1>2, <1>3, <1>4, <1>5, <1>6, <1>7 DEF TraceNext

LEMMA TraceTyped ==
  ASSUME TraceInv, TraceTypes
  PROVE  TraceTypeOK
<1>1. 1..recorded \subseteq Events
  BY TraceAssumption DEF TraceTypes, Events
<1>2. /\ buffer \subseteq Events /\ Taken \subseteq Events
      /\ traced \subseteq Events /\ pruned \subseteq Events
      /\ lost \subseteq Events
  BY <1>1 DEF TraceInv
<1>3. batches \subseteq (SUBSET Events) \ {{}}
  BY <1>2 DEF Taken, TraceTypes
<1> QED
  BY <1>2, <1>3 DEF TraceTypeOK, TraceInv, TraceTypes

\* A scan goes on below its limit only.
LEMMA SubscribersTypesStep ==
  ASSUME SubscribersInv, SubscribersTypes, SubscribersNext
  PROVE  SubscribersTypes'
<1> USE DEF SubscribersTypes
<1>1. /\ builder \in [pc : {"off", "scan", "swap", "mark"}, limit : Nat, at : Nat,
                      staged : SUBSET UsedItems]
      /\ updater \in [pc : {"off", "scan", "mark"}, limit : Nat, at : Nat]
      /\ rows \in [Ids -> UsedItems \union {NoItem}]
      /\ Assigned
  BY DEF SubscribersInv, Assigned
<1>2. LastRow \in Nat /\ BlockSize \in Nat \ {0} /\ MaxBreakdowns \in Nat
  BY SubscribersAssumption
<1>3. NewestRow \in 0..LastRow
  <2>1. Present \subseteq 1..LastRow
    BY DEF Present, Ids
  <2>2. CASE Present = {}
    <3>1. NewestRow = 0
      BY <2>2, NewestIs
    <3> QED
      BY <1>2, <3>1
  <2>3. CASE Present # {}
    <3>1. NewestRow \in Present
      BY <2>3, NewestIs
    <3> QED
      BY <1>2, <2>1, <3>1
  <2> QED
    BY <2>2, <2>3
<1>4. mark \in Nat
  BY DEF SubscribersInv, Assigned, Ids
<1>5. ASSUME NEW i \in Ids, NEW item \in UsedItems, Subscribe(i, item)
      PROVE  SubscribersTypes'
  BY <1>5 DEF Subscribe
<1>6. ASSUME NEW i \in Ids, Unsubscribe(i)
      PROVE  SubscribersTypes'
  BY <1>6 DEF Unsubscribe
<1>7. CASE StartRebuild
  <2>1. \/ builder' = builder
        \/ builder' = [pc |-> "scan", limit |-> NewestRow, at |-> 0, staged |-> {}]
    BY <1>7 DEF StartRebuild, IdleBuilder
  <2>2. UNCHANGED <<late, assigned, subscribers, updater, shared, breakdowns>>
    BY <1>7 DEF StartRebuild, subscription
  <2> QED
    BY <1>2, <1>3, <2>1, <2>2
<1>8. CASE ScanBlock
  <2>1. /\ builder.pc = "scan" /\ builder'.at = builder.at + BlockSize
        /\ builder'.limit = builder.limit
        /\ builder'.pc = IF builder.at + BlockSize > builder.limit THEN "swap"
                         ELSE builder.pc
    BY <1>1, <1>8 DEF ScanBlock
  <2>2. UNCHANGED <<late, assigned, subscribers, updater, shared, breakdowns>>
    BY <1>8 DEF ScanBlock, subscription
  <2>3. builder'.at <= LastRow + BlockSize
    BY <1>1, <1>2, <2>1
  <2>4. builder'.pc = "scan" => builder'.at <= builder'.limit
    BY <1>1, <1>2, <2>1
  <2> QED
    BY <2>1, <2>2, <2>3, <2>4
<1>9. CASE SwapSubscribers
  <2>1. /\ subscribers' = builder.staged
        /\ builder'.pc = "mark" /\ builder'.at = builder.at
        /\ builder'.limit = builder.limit
        /\ UNCHANGED <<late, assigned, updater, shared, breakdowns>>
    BY <1>1, <1>9 DEF SwapSubscribers, subscription
  <2> QED
    BY <1>1, <2>1
<1>10. CASE MarkRebuilt
  <2>1. /\ builder' = IdleBuilder
        /\ UNCHANGED <<late, assigned, subscribers, updater, shared, breakdowns>>
    BY <1>10 DEF MarkRebuilt, subscription
  <2> QED
    BY <1>2, <2>1 DEF IdleBuilder
<1>11. CASE StartPass
  <2>1. /\ updater' = [pc |-> "scan", limit |-> NewestRow, at |-> mark + 1]
        /\ NewestRow > mark
        /\ UNCHANGED <<late, assigned, subscribers, builder, shared, breakdowns>>
    BY <1>11 DEF StartPass, subscription
  <2> QED
    BY <1>2, <1>3, <1>4, <2>1
<1>12. CASE CopyBlock
  <2>1. /\ updater.pc = "scan" /\ updater'.at = updater.at + BlockSize
        /\ updater'.limit = updater.limit
        /\ updater'.pc = IF updater.at + BlockSize > updater.limit THEN "mark"
                         ELSE updater.pc
    BY <1>1, <1>12 DEF CopyBlock
  <2>2. /\ UNCHANGED <<late, assigned, builder, shared, breakdowns>>
        /\ subscribers' \subseteq UsedItems
    BY <1>1, <1>12, BlockReads DEF CopyBlock, subscription
  <2>3. updater'.at <= LastRow + BlockSize
    BY <1>1, <1>2, <2>1
  <2>4. updater'.pc = "scan" => updater'.at <= updater'.limit
    BY <1>1, <1>2, <2>1
  <2> QED
    BY <2>1, <2>2, <2>3, <2>4
<1>13. CASE MarkCopied
  <2>1. /\ updater' = IdleUpdater
        /\ UNCHANGED <<late, assigned, subscribers, builder, shared, breakdowns>>
    BY <1>13 DEF MarkCopied, subscription
  <2> QED
    BY <1>2, <2>1 DEF IdleUpdater
<1>14. CASE BreakDown
  <2>1. /\ UNCHANGED <<late, assigned, subscribers, shared>>
        /\ breakdowns' = breakdowns + 1 /\ breakdowns < MaxBreakdowns
        /\ builder' \in {builder, IdleBuilder} /\ updater' \in {updater, IdleUpdater}
    BY <1>14 DEF BreakDown, subscription
  <2>2. builder' = builder \/ builder' = [pc |-> "off", limit |-> 0, at |-> 0, staged |-> {}]
    BY <2>1 DEF IdleBuilder
  <2>3. updater' = updater \/ updater' = [pc |-> "off", limit |-> 0, at |-> 0]
    BY <2>1 DEF IdleUpdater
  <2>4. breakdowns' \in 0..MaxBreakdowns
    BY <1>2, <2>1
  <2>5. /\ builder'.limit <= LastRow /\ builder'.at <= LastRow + BlockSize
        /\ builder'.pc = "scan" => builder'.at <= builder'.limit
    BY <1>2, <2>2
  <2>6. /\ updater'.limit <= LastRow /\ updater'.at <= LastRow + BlockSize
        /\ updater'.pc = "scan" => updater'.at <= updater'.limit
    BY <1>2, <2>3
  <2> QED
    BY <2>1, <2>4, <2>5, <2>6
<1> QED
  BY <1>5, <1>6, <1>7, <1>8, <1>9, <1>10, <1>11, <1>12, <1>13, <1>14
  DEF SubscribersNext

LEMMA SubscribersTyped ==
  ASSUME SubscribersInv, SubscribersTypes
  PROVE  SubscribersTypeOK
<1>1. mark \in 0..LastRow
  BY SubscribersAssumption DEF SubscribersInv, Assigned, Ids
<1>2. builder \in [pc : {"off", "scan", "swap", "mark"}, limit : 0..LastRow,
                   at : 0..(LastRow + BlockSize), staged : SUBSET UsedItems]
  BY SubscribersAssumption DEF SubscribersInv, Assigned, SubscribersTypes
<1>3. updater \in [pc : {"off", "scan", "mark"}, limit : 0..LastRow,
                   at : 0..(LastRow + BlockSize)]
  BY SubscribersAssumption DEF SubscribersInv, Assigned, SubscribersTypes
<1> QED
  BY <1>1, <1>2, <1>3
  DEF SubscribersInv, Assigned, SubscribersTypes, SubscribersTypeOK

\* Ranks are a total order of the items.
LEMMA Ranks ==
  ASSUME NEW p \in NewItems, NEW q \in NewItems
  PROVE  /\ ~IsRankedBefore(p, p)
         /\ p # q => IsRankedBefore(p, q) \/ IsRankedBefore(q, p)
         /\ \A r \in NewItems :
              IsRankedBefore(p, q) /\ IsRankedBefore(q, r) => IsRankedBefore(p, r)
<1>1. /\ p \in Nat /\ q \in Nat
      /\ History[p].priority \in Nat /\ History[q].priority \in Nat
  BY BackfillAssumption
<1>2. \A r \in NewItems : r \in Nat /\ History[r].priority \in Nat
  BY BackfillAssumption
<1> QED
  BY <1>1, <1>2 DEF IsRankedBefore

\* Of some of the lacking items one comes after all others.
LEMMA LastRanked ==
  ASSUME NEW T \in SUBSET {q \in NewItems : Lacking(q)}, T # {}
  PROVE  \E q \in T : \A p \in T \ {q} : p \in Better(q)
<1> DEFINE Less == OpToRel(<, Nat)
           Count(q) == Cardinality(Better(q))
           total == Cardinality(NewItems)
           Gaps == {total - Count(q) : q \in T}
<1>1. IsFiniteSet(NewItems) /\ total \in Nat
  BY BackfillAssumption, FS_CardinalityType
<1>2. \A q \in NewItems : /\ Better(q) \subseteq NewItems /\ IsFiniteSet(Better(q))
                         /\ Count(q) \in Nat /\ Count(q) <= total
  <2> SUFFICES ASSUME NEW q \in NewItems
               PROVE  /\ Better(q) \subseteq NewItems /\ IsFiniteSet(Better(q))
                      /\ Count(q) \in Nat /\ Count(q) <= total
    OBVIOUS
  <2>1. Better(q) \in SUBSET NewItems
    BY DEF Better
  <2>2. IsFiniteSet(Better(q)) /\ Count(q) <= total
    BY <1>1, <2>1, FS_Subset
  <2> QED
    BY <2>1, <2>2, FS_CardinalityType
<1>3. T \subseteq NewItems
  OBVIOUS
<1> HIDE DEF Count, total
<1>4. PICK q \in T : \A p \in T : ~(total - Count(p) < total - Count(q))
  <2>1. Gaps \subseteq Nat /\ Gaps # {}
    BY <1>1, <1>2, <1>3
  <2>2. PICK g \in Gaps : \A h \in Gaps : ~(<<h, g>> \in Less)
    <3>1. IsWellFoundedOn(Less, Nat)
      BY NatLessThanWellFounded
    <3> HIDE DEF Less, Gaps
    <3> QED
      BY <2>1, <3>1, WFMin
  <2>3. \A h \in Gaps : ~(h < g)
    BY <2>1, <2>2 DEF OpToRel
  <2> QED
    BY <2>3
<1>5. ASSUME NEW p \in T \ {q}
      PROVE  p \in Better(q)
  <2>1. p \in NewItems /\ q \in NewItems /\ p # q /\ Lacking(p) /\ Lacking(q)
    OBVIOUS
  <2>2. SUFFICES ASSUME ~IsRankedBefore(p, q) PROVE FALSE
    BY <2>1 DEF Better
  <2>3. IsRankedBefore(q, p)
    BY <2>1, <2>2, Ranks
  <2>4. Better(q) \union {q} \in SUBSET Better(p)
    <3>1. \A r \in Better(q) : r \in NewItems /\ Lacking(r) /\ IsRankedBefore(r, q)
      BY DEF Better
    <3>2. \A r \in Better(q) : IsRankedBefore(r, p)
      BY <2>1, <2>3, <3>1, Ranks
    <3> QED
      BY <2>1, <2>3, <3>1, <3>2 DEF Better
  <2>5. q \notin Better(q)
    BY <2>1, Ranks DEF Better
  <2>6. Cardinality(Better(q) \union {q}) = Count(q) + 1
    BY <1>2, <2>1, <2>5, FS_AddElement DEF Count
  <2>7. Count(q) + 1 <= Count(p)
    BY <1>2, <2>1, <2>4, <2>6, FS_Subset DEF Count
  <2>8. ~(total - Count(p) < total - Count(q))
    BY <1>4
  <2>9. Count(p) \in Nat /\ Count(q) \in Nat
    BY <1>2, <2>1
  <2> QED
    BY <1>1, <2>7, <2>8, <2>9
<1> QED
  BY <1>5

\* The list of targets, which takes each item that few enough precede, is no
\* longer than its limit.
LEMMA ListIsShort ==
  Cardinality({q \in NewItems : Lacking(q) /\ Cardinality(Better(q)) < FetchLimit})
    <= FetchLimit
<1> DEFINE T == {q \in NewItems : Lacking(q) /\ Cardinality(Better(q)) < FetchLimit}
<1>1. FetchLimit \in Nat /\ IsFiniteSet(NewItems)
  BY BackfillAssumption
<1>2. CASE T = {}
  <2>1. Cardinality(T) = 0
    BY <1>2, FS_EmptySet
  <2> QED
    BY <1>1, <2>1
<1>3. CASE T # {}
  <2>1. PICK q \in T : \A p \in T \ {q} : p \in Better(q)
    BY <1>3, LastRanked
  <2>2. q \in NewItems /\ Cardinality(Better(q)) < FetchLimit
    OBVIOUS
  <2>3. Better(q) \in SUBSET NewItems /\ T \in SUBSET NewItems
    BY DEF Better
  <2> HIDE DEF T
  <2>4. IsFiniteSet(Better(q)) /\ IsFiniteSet(T)
    BY <1>1, <2>3, FS_Subset
  <2>5. T \ {q} \in SUBSET Better(q)
    BY <2>1
  <2>6. Cardinality(T \ {q}) <= Cardinality(Better(q))
    BY <2>4, <2>5, FS_Subset
  <2>7. Cardinality(T \ {q}) = Cardinality(T) - 1
    BY <2>1, <2>4, FS_RemoveElement
  <2>8. Cardinality(T) \in Nat /\ Cardinality(Better(q)) \in Nat
    BY <2>4, FS_CardinalityType
  <2>9. Cardinality(T) <= FetchLimit
    BY <1>1, <2>2, <2>6, <2>7, <2>8
  <2> QED
    BY <2>9 DEF T
<1> QED
  BY <1>2, <1>3

LEMMA CreationTypesStep ==
  ASSUME CreationInv, CreationTypes, CreationNext
  PROVE  CreationTypes'
<1> USE DEF CreationTypes
<1>1. /\ firsts \in [NewItems -> SUBSET FirstRevisions]
      /\ pass \in [step : {"list", "fetch", "write"}, targets : SUBSET NewItems,
                   found : SUBSET NewRows]
  BY DEF CreationInv
<1>2. FetchLimit \in Nat /\ MaxSetbacks \in Nat /\ Cardinality({}) = 0
  BY BackfillAssumption, FS_EmptySet
<1>3. ASSUME pass' = IdlePass \/ pass'.targets = pass.targets
      PROVE  Cardinality(pass'.targets) <= FetchLimit
  BY <1>2, <1>3 DEF IdlePass
<1>4. ASSUME NEW q \in NewItems, Want(q) \/ Unwant(q)
      PROVE  CreationTypes'
  BY <1>2, <1>4 DEF Want, Unwant
<1>5. ASSUME NEW q \in NewItems, NEW r \in FirstRevisions, ShowFirst(q, r)
      PROVE  CreationTypes'
  <2>1. /\ r \in History[q].firsts
        /\ firsts' = [firsts EXCEPT ![q] = firsts[q] \union {r}]
        /\ UNCHANGED <<wanted, pass, setbacks>>
    BY <1>5 DEF ShowFirst
  <2> QED
    BY <1>1, <2>1
<1>6. CASE ListTargets
  <2>1. pass'.targets = {q \in NewItems :
                           Lacking(q) /\ Cardinality(Better(q)) < FetchLimit}
    BY <1>1, <1>6 DEF ListTargets
  <2>2. UNCHANGED <<wanted, firsts, setbacks>>
    BY <1>6 DEF ListTargets
  <2> QED
    BY <2>1, <2>2, ListIsShort
<1>7. CASE FetchTargets
  <2>1. pass' = IdlePass \/ pass'.targets = pass.targets
    BY <1>1, <1>7 DEF FetchTargets
  <2>2. UNCHANGED <<wanted, firsts, setbacks>>
    BY <1>7 DEF FetchTargets
  <2> QED
    BY <1>3, <2>1, <2>2
<1>8. ASSUME NEW f \in NewRows, WriteFound(f) \/ WriteUser(f)
      PROVE  CreationTypes'
  <2>1. pass' = IdlePass \/ pass'.targets = pass.targets
    BY <1>1, <1>8 DEF WriteFound, WriteUser
  <2>2. UNCHANGED <<wanted, firsts, setbacks>>
    BY <1>8 DEF WriteFound, WriteUser
  <2> QED
    BY <1>3, <2>1, <2>2
<1>9. CASE FailPass \/ FailRequest
  <2>1. pass' = IdlePass \/ pass' = pass
    BY <1>9 DEF FailPass, FailRequest
  <2>2. /\ UNCHANGED <<wanted, firsts>>
        /\ setbacks < MaxSetbacks /\ setbacks' = setbacks + 1
    BY <1>9 DEF FailPass, FailRequest
  <2>3. setbacks' \in 0..MaxSetbacks
    BY <1>2, <2>2
  <2> QED
    BY <1>3, <2>1, <2>2, <2>3
<1>10. CASE \/ FetchUser
            \/ \E r, s \in FirstRevisions : StartRequest(r.by, r.at, s.at + 1)
  BY <1>10 DEF FetchUser, StartRequest
<1> QED
  BY <1>4, <1>5, <1>6, <1>7, <1>8, <1>9, <1>10 DEF CreationNext

LEMMA CreationTyped ==
  ASSUME CreationInv, CreationTypes
  PROVE  CreationTypeOK
BY DEF CreationInv, CreationTypes, CreationTypeOK

-----------------------------------------------------------------------------
(* Theorems *)

\* Whatever a launcher does, and whatever the other parts do.
THEOREM LauncherInvariance == SupportSpec => []LauncherInv
<1>1. SupportInit => LauncherInv
  BY LauncherStart DEF SupportInit
<1>2. LauncherInv /\ [SupportNext]_supportVars => LauncherInv'
  <2> SUFFICES ASSUME LauncherInv, [SupportNext]_supportVars
               PROVE  LauncherInv'
    OBVIOUS
  <2>1. CASE LauncherNext
    BY <2>1, LauncherStep
  <2>2. CASE UNCHANGED launcherVars
    BY <2>2 DEF launcherVars, LauncherInv, Quiet, FreshWhileStarting,
                StrayIsExposed, LaunchIsHandled, OneWorker, Units
  <2> QED
    BY <2>1, <2>2 DEF SupportNext, supportVars, Subscribers, Lookups, Creating,
                      Tracing, OneEvaluation, Launching
<1> QED
  BY <1>1, <1>2, PTL DEF SupportSpec

\* However a launcher ends, no process is left behind.  Those other than
\* `launch` are excepted when a signal comes before they can stop what they
\* started, or an exception where they have no `finally` to stop it.
THEOREM NothingIsLeftBehind == SupportSpec => []NoOrphans
<1>1. LauncherInv => NoOrphans
  BY DEF LauncherInv, Quiet, StrayIsExposed, LaunchIsHandled, NoOrphans, Up
<1> QED
  BY <1>1, LauncherInvariance, PTL

\* Every part keeps its tables sound, however the others' steps are mixed in.
TablesInv == SubscribersInv /\ LookupInv /\ CreationInv /\ TraceInv

THEOREM TablesInvariance == SupportSpec => []TablesInv
<1>1. SupportInit => TablesInv
  BY SubscribersStart, LookupStart, CreationStart, TraceStart
  DEF SupportInit, TablesInv
<1>2. TablesInv /\ [SupportNext]_supportVars => TablesInv'
  <2> SUFFICES ASSUME TablesInv, [SupportNext]_supportVars
               PROVE  TablesInv'
    OBVIOUS
  <2>1. SubscribersInv'
    <3>1. CASE SubscribersNext
      BY <3>1, SubscribersStep DEF TablesInv
    <3>2. CASE UNCHANGED subscribersVars
      BY <3>2 DEF TablesInv, subscribersVars, subscription, SubscribersInv,
                  Assigned, Progress, MarkCovers, InOrderRows, Present
    <3> QED
      BY <3>1, <3>2 DEF SupportNext, supportVars, Subscribers, Lookups,
                        Creating, Tracing, OneEvaluation, Launching
  <2>2. LookupInv'
    <3>1. CASE LookupNext
      BY <3>1, LookupStep DEF TablesInv
    <3>2. CASE UNCHANGED lookupVars
      BY <3>2 DEF TablesInv, lookupVars, LookupInv, LookupTypeOK, Staging,
                  StampedIsCurrent, IsCopy, NeverPartial, Whole
    <3> QED
      BY <3>1, <3>2 DEF SupportNext, supportVars, Subscribers, Lookups,
                        Creating, Tracing, OneEvaluation, Launching
  <2>3. CreationInv'
    <3>1. CASE CreationNext
      BY <3>1, CreationStep DEF TablesInv
    <3>2. CASE UNCHANGED creationVars
      BY <3>2 DEF TablesInv, creationVars, CreationInv, CreationGenuine
    <3> QED
      BY <3>1, <3>2 DEF SupportNext, supportVars, Subscribers, Lookups,
                        Creating, Tracing, OneEvaluation, Launching
  <2>4. TraceInv'
    <3>1. CASE TraceNext
      BY <3>1, TraceStep DEF TablesInv
    <3>2. CASE UNCHANGED traceVars
      BY <3>2 DEF TablesInv, traceVars, TraceInv, Taken, Apart
    <3> QED
      BY <3>1, <3>2 DEF SupportNext, supportVars, Subscribers, Lookups,
                        Creating, Tracing, OneEvaluation, Launching
  <2> QED
    BY <2>1, <2>2, <2>3, <2>4 DEF TablesInv
<1> QED
  BY <1>1, <1>2, PTL DEF SupportSpec

\* For any size of the log, the tables, the blocks, the chunks and the
\* buffers, any number of failures, and any history of the items: marks and
\* stamps are backed, no table is partial, creations are genuine, and traced
\* events are in one place.
THEOREM TablesStaySound == SupportSpec => []TablesSound
<1>1. TablesInv => TablesSound
  BY TraceInvKept DEF TablesInv, TablesSound, SubscribersInv, LookupInv,
                      CreationInv
<1> QED
  BY <1>1, TablesInvariance, PTL
\* Of an evaluation the levels are known to follow what is deserved.
THEOREM EvaluationInvariance == SupportSpec => []EvaluationInv
<1>1. SupportInit => EvaluationInv
  BY EvaluationStart DEF SupportInit
<1>2. EvaluationInv /\ [SupportNext]_supportVars => EvaluationInv'
  <2> SUFFICES ASSUME EvaluationInv, [SupportNext]_supportVars
               PROVE  EvaluationInv'
    OBVIOUS
  <2>1. CASE EvaluationNext
    BY <2>1, EvaluationStep
  <2>2. CASE UNCHANGED evaluationVars
    BY <2>2 DEF evaluationVars, EvaluationInv, Tracks
  <2> QED
    BY <2>1, <2>2 DEF SupportNext, supportVars, Subscribers, Lookups, Creating,
                      Tracing, OneEvaluation, Launching
<1> QED
  BY <1>1, <1>2, PTL DEF SupportSpec

\* A finished report tells what the evidence deserves, or UNKNOWN, whatever
\* ran in whatever order and whatever failed (ReportSound); and whoever reads
\* it again is told the same or UNKNOWN (ReadsAgree).
THEOREM LevelsStaySound == SupportSpec => []LevelsSound
<1>1. EvaluationInv => LevelsSound
  BY FinishedReport, FinishedReads DEF LevelsSound
<1> QED
  BY <1>1, EvaluationInvariance, PTL

\* All parts stay within their types.
TypesInv ==
  /\ SubscribersTypes /\ CreationTypes /\ TraceTypes
  /\ EvaluationTypes /\ LauncherTypes

LEMMA TypesStart == SupportInit => TypesInv
<1> SUFFICES ASSUME SupportInit PROVE TypesInv
  OBVIOUS
<1>1. SubscribersTypes
  <2>1. SubscribersInit
    BY Zenon DEF SupportInit
  <2> QED
    BY <2>1, SubscribersAssumption
    DEF SubscribersInit, SubscribersTypes, IdleBuilder, IdleUpdater
<1>2. CreationTypes
  <2>1. Cardinality({}) = 0
    BY FS_EmptySet
  <2>2. /\ wanted = {} /\ firsts = [q \in NewItems |-> {}]
        /\ pass = IdlePass /\ setbacks = 0
    BY DEF SupportInit, CreationInit
  <2> QED
    BY <2>1, <2>2, BackfillAssumption DEF CreationTypes, IdlePass
<1>3. TraceTypes
  <2>1. TraceInit
    BY Zenon DEF SupportInit
  <2>2. recorded = 0 /\ sleeping = {} /\ batches = {} /\ pruner = FALSE
    BY <2>1, Zenon DEF TraceInit
  <2>3. recorded \in 0..LastEvent
    BY <2>2, TraceAssumption
  <2> QED
    BY <2>2, <2>3 DEF TraceTypes
<1>4. EvaluationTypes
  <2>1. signals = 0 /\ mishaps = 0
    BY DEF SupportInit, EvaluationInit
  <2> QED
    BY <2>1, EvaluationAssumption DEF EvaluationTypes
<1>5. LauncherTypes
  <2>1. LauncherInit
    BY Zenon DEF SupportInit
  <2>2. /\ phase = "off" /\ stray = {}
        /\ handlers = FALSE /\ guarded = FALSE
        /\ stop = FALSE /\ exposed = FALSE
    BY <2>1, Zenon DEF LauncherInit
  <2> QED
    BY <2>2 DEF LauncherTypes
<1> QED
  BY <1>1, <1>2, <1>3, <1>4, <1>5 DEF TypesInv

LEMMA TypesStep ==
  TablesInv /\ EvaluationInv /\ LauncherInv /\ TypesInv /\ [SupportNext]_supportVars
    => TypesInv'
<1> SUFFICES ASSUME TablesInv, EvaluationInv, LauncherInv, TypesInv,
                    [SupportNext]_supportVars
             PROVE  TypesInv'
  OBVIOUS
<1> USE DEF SupportNext, supportVars, Subscribers, Lookups, Creating, Tracing,
            OneEvaluation, Launching
<1>1. SubscribersTypes'
  <2>1. CASE SubscribersNext
    BY <2>1, SubscribersTypesStep DEF TablesInv, TypesInv
  <2>2. CASE UNCHANGED subscribersVars
    BY <2>2 DEF TypesInv, subscribersVars, subscription, SubscribersTypes
  <2> QED
    BY <2>1, <2>2
<1>2. CreationTypes'
  <2>1. CASE CreationNext
    BY <2>1, CreationTypesStep DEF TablesInv, TypesInv
  <2>2. CASE UNCHANGED creationVars
    BY <2>2 DEF TypesInv, creationVars, CreationTypes
  <2> QED
    BY <2>1, <2>2
<1>3. TraceTypes'
  <2>1. CASE TraceNext
    BY <2>1, TraceTypesStep DEF TablesInv, TypesInv
  <2>2. CASE UNCHANGED traceVars
    BY <2>2 DEF TypesInv, traceVars, TraceTypes
  <2> QED
    BY <2>1, <2>2
<1>4. EvaluationTypes'
  <2>1. CASE EvaluationNext
    BY <2>1, EvaluationTypesStep DEF TypesInv
  <2>2. CASE UNCHANGED evaluationVars
    BY <2>2 DEF TypesInv, evaluationVars, EvaluationTypes
  <2> QED
    BY <2>1, <2>2
<1>5. LauncherTypes'
  <2>1. CASE LauncherNext
    BY <2>1, LauncherTypesStep DEF TypesInv
  <2>2. CASE UNCHANGED launcherVars
    BY <2>2 DEF TypesInv, launcherVars, LauncherTypes
  <2> QED
    BY <2>1, <2>2
<1> QED
  BY <1>1, <1>2, <1>3, <1>4, <1>5 DEF TypesInv

\* Every variable of every part stays within its type and bounds: ids within
\* the log, versions within the tables, lists within their limits, levels and
\* processes within what there is of them.
THEOREM SupportTypeCorrect == SupportSpec => []SupportTypeOK
<1> DEFINE All == TablesInv /\ EvaluationInv /\ LauncherInv
<1>1. SupportSpec => []All
  BY TablesInvariance, EvaluationInvariance, LauncherInvariance, PTL
<1>2. All /\ TypesInv /\ [SupportNext]_supportVars => TypesInv'
  BY TypesStep
<1>3. SupportSpec => []TypesInv
  BY <1>1, <1>2, TypesStart, PTL DEF SupportSpec
<1>4. All /\ TypesInv => SupportTypeOK
  BY SubscribersTyped, CreationTyped, TraceTyped, EvaluationTyped, LauncherTyped
  DEF TablesInv, TypesInv, LookupInv, SupportTypeOK
<1> QED
  BY <1>1, <1>3, <1>4, PTL
=============================================================================
