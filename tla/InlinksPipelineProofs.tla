----------------------- MODULE InlinksPipelineProofs -----------------------
(***************************************************************************)
(* Safety of the inlinks worker, for any targets, items, levels and limit: *)
(* the types, that a cut entry holds the links the limit allows, that      *)
(* nothing but STRONG is concluded from part of the links, and that only a *)
(* stop leaves UNKNOWN in the table.                                       *)
(*                                                                         *)
(* record_empty_graph empties an entry without clearing graph_truncated.   *)
(* That it never does so to a cut entry rests on the passes: one that      *)
(* holds graphs took up no cut entry, and until it has recorded them       *)
(* nobody else marks one as cut (graphing in GraphingInv).  All four facts *)
(* therefore speak of what each coroutine holds as well as of the board.   *)
(***************************************************************************)
EXTENDS InlinksPipeline, FiniteSetTheorems, TLAPS

\* An entry, or a fetched graph, that counts as cut holds as many links as the
\* limit allows.
CutAtLimit(g) == g.truncated => Cardinality(g.inlinks) = Limit

Context == {g \in [inlinks : SUBSET Items, truncated : BOOLEAN] : CutAtLimit(g)}
Sound == {e \in Entry : CutAtLimit(e) /\ (e.truncated => e.fetched)}

\* What a coroutine holds of some of the targets.
OfSome(R) == UNION {[T -> R] : T \in SUBSET Targets}

Counting == [at : {"idle", "record", "write"}, found : OfSome({0, 1})]
Graphing == [at : {"idle", "record", "write"}, found : OfSome(Context), same : SUBSET Targets]
Evaluating == [at : {"idle", "levels", "write", "delete"}, entries : OfSome(Sound),
               result : OfSome(0..5)]

WorldInv ==
  /\ \A t \in Targets : links[t] \subseteq Items \union {t}
  /\ DOMAIN links = Targets
  /\ level \in [Items -> Levels]
  /\ pushed \subseteq Targets /\ interested \subseteq Targets
  /\ changes \in 0..MaxChanges

BoardInv == board \in [Targets -> Sound \union {Absent}]

TableInv == row \in [Targets -> Row \union {Absent}]

ReadInv == read # Absent => read \in OfSome(Row \union {Absent})

PublisherInv == published \subseteq Items /\ Range(last) \subseteq Targets

CountingInv ==
  /\ counting \in Counting
  /\ counting.at = "idle" <=> DOMAIN counting.found = {}

GraphingInv ==
  /\ graphing \in Graphing
  /\ graphing.at = "idle" <=> DOMAIN graphing.found = {}
  /\ graphing.same \subseteq DOMAIN graphing.found
  /\ graphing.at = "record" =>
       \A t \in DOMAIN graphing.found : board[t] # Absent => ~board[t].truncated

EvaluatingInv ==
  /\ evaluating \in Evaluating
  /\ evaluating.at = "idle" <=> DOMAIN evaluating.entries = {}
  /\ DOMAIN evaluating.result =
       IF evaluating.at \in {"write", "delete"} THEN DOMAIN evaluating.entries ELSE {}
  /\ PartNeverDecides

IInv ==
  /\ WorldInv /\ BoardInv /\ TableInv /\ ReadInv /\ PublisherInv
  /\ CountingInv /\ GraphingInv /\ EvaluatingInv

-----------------------------------------------------------------------------
(* Lemmas about what the coroutines hold *)

LEMMA OfSomeIntro ==
  ASSUME NEW R, NEW T \in SUBSET Targets, NEW f \in [T -> R]
  PROVE  f \in OfSome(R)
BY DEF OfSome

LEMMA OfSomeElim ==
  ASSUME NEW R, NEW f \in OfSome(R)
  PROVE  DOMAIN f \subseteq Targets /\ f \in [DOMAIN f -> R]
BY DEF OfSome

\* Between passes a coroutine holds nothing.
LEMMA NobodyHeld ==
  ASSUME NEW R
  PROVE  Nobody \in OfSome(R) /\ DOMAIN Nobody = {}
<1>1. Nobody \in [{} -> R] /\ DOMAIN Nobody = {}
  BY DEF Nobody
<1> QED
  BY <1>1, OfSomeIntro

LEMMA IdleHolds ==
  /\ IdleCounting \in Counting /\ IdleCounting.at = "idle"
  /\ DOMAIN IdleCounting.found = {}
  /\ IdleGraphing \in Graphing /\ IdleGraphing.at = "idle"
  /\ DOMAIN IdleGraphing.found = {} /\ IdleGraphing.same = {}
  /\ IdleEvaluating \in Evaluating /\ IdleEvaluating.at = "idle"
  /\ DOMAIN IdleEvaluating.entries = {} /\ DOMAIN IdleEvaluating.result = {}
BY NobodyHeld DEF IdleCounting, Counting, IdleGraphing, Graphing, IdleEvaluating, Evaluating

\* A pass takes up some of the targets that lack something or whose answer is
\* old, and at least one.
LEMMA StaleSome ==
  ASSUME NEW M, NEW K, NEW T \in Stale(M, K)
  PROVE  T # {} /\ T \subseteq M \union K
BY DEF Stale

\* A new whole-second stamp changes nothing of a graph pass but graphing.same.
LEMMA StampedHolds ==
  ASSUME graphing \in Graphing, graphing.same \subseteq DOMAIN graphing.found,
         NEW T, NEW g \in Stamped(T)
  PROVE  /\ g \in Graphing /\ g.at = graphing.at /\ g.found = graphing.found
         /\ g.same \subseteq DOMAIN g.found
<1>1. DOMAIN graphing.found \subseteq Targets
  BY OfSomeElim DEF Graphing
<1>2. CASE graphing.at = "record"
  <2>1. PICK S \in SUBSET (T \intersect DOMAIN graphing.found) :
          g = [graphing EXCEPT !.same = (@ \ T) \union S]
    BY <1>2 DEF Stamped
  <2> QED
    BY <1>1, <2>1 DEF Graphing
<1>3. CASE graphing.at # "record"
  BY <1>3 DEF Stamped
<1> QED
  BY <1>2, <1>3

-----------------------------------------------------------------------------
(* Lemmas about entries *)

LEMMA AbsentIsNone ==
  Absent \notin Sound /\ Absent \notin Row /\ Absent \notin {0, 1}
BY InlinksAssumption DEF Sound

\* What the passes make of an entry is an entry; it is cut only by a graph that
\* is, and stays cut.
LEMMA NewEntrySound ==
  ASSUME NEW r \in Row \union {Absent}
  PROVE  NewEntry(r) \in Sound /\ ~NewEntry(r).truncated
<1>1. (IF r = Absent THEN Absent ELSE r.count) \in {0, 1, Absent}
  BY DEF Row
<1> QED
  BY <1>1, Zenon DEF NewEntry, Sound, Entry, CutAtLimit

LEMMA FilledSound ==
  ASSUME NEW e \in Sound, NEW r \in Row \union {Absent}
  PROVE  Filled(e, r) \in Sound /\ Filled(e, r).truncated = e.truncated
<1>1. CASE r = Absent
  BY <1>1 DEF Filled
<1>2. CASE r # Absent
  <2> DEFINE c == IF e.count = Absent THEN r.count ELSE e.count
  <2>1. c \in {0, 1, Absent}
    BY <1>2 DEF Row, Sound, Entry
  <2>2. Filled(e, r) = [e EXCEPT !.count = c, !.evaluated = TRUE]
    BY <1>2 DEF Filled
  <2> HIDE DEF c
  <2> QED
    BY <2>1, <2>2 DEF Sound, Entry, CutAtLimit
<1> QED
  BY <1>1, <1>2

LEMMA EmptiedSound ==
  ASSUME NEW e \in Sound, ~e.truncated, NEW same
  PROVE  Emptied(e, same) \in Sound
BY DEF Emptied, Sound, Entry, CutAtLimit

LEMMA LinkedSound ==
  ASSUME NEW e \in Sound, NEW g \in Context
  PROVE  Linked(e, g) \in Sound
BY DEF Linked, Sound, Entry, Context, CutAtLimit

\* What any pass over counts leaves of an entry.
LEMMA CountedSound ==
  ASSUME NEW e \in Sound, NEW c \in {0, 1}, NEW v \in BOOLEAN
  PROVE  /\ [e EXCEPT !.count = c, !.evaluated = v] \in Sound
         /\ [e EXCEPT !.count = c, !.evaluated = v].truncated = e.truncated
BY DEF Sound, Entry, CutAtLimit

\* A nonempty set of levels has its Max as greatest element.
LEMMA BestLevel ==
  ASSUME NEW S \in SUBSET (0..5), S # {}
  PROVE  Max(S) \in S
<1>1. \E x \in S : \A y \in S : x >= y
  <2>1. CASE 5 \in S
    BY <2>1
  <2>2. CASE 5 \notin S /\ 4 \in S
    BY <2>2
  <2>3. CASE 5 \notin S /\ 4 \notin S /\ 3 \in S
    BY <2>3
  <2>4. CASE 5 \notin S /\ 4 \notin S /\ 3 \notin S /\ 2 \in S
    BY <2>4
  <2>5. CASE 5 \notin S /\ 4 \notin S /\ 3 \notin S /\ 2 \notin S
    <3>1. \A y \in S : y \in {0, 1}
      BY <2>5
    <3>2. CASE 1 \in S
      BY <3>1, <3>2
    <3>3. CASE 1 \notin S
      <4>1. PICK x \in S : TRUE
        OBVIOUS
      <4>2. \A y \in S : y = 0
        BY <3>1, <3>3
      <4> QED
        BY <4>1, <4>2
    <3> QED
      BY <3>2, <3>3
  <2> QED
    BY <2>1, <2>2, <2>3, <2>4, <2>5
<1> QED
  BY <1>1 DEF Max

\* The level found for an entry is a level; from a cut one, which has links
\* since it holds as many as the limit, it is STRONG or UNKNOWN.
LEMMA EvaluateHolds ==
  ASSUME level \in [Items -> Levels], NEW e \in Sound
  PROVE  /\ EvaluateTarget(e) \in 0..5
         /\ e.truncated => EvaluateTarget(e) \in {Strong, Unknown}
<1> DEFINE found == {level[i] : i \in e.inlinks}
<1>1. e.inlinks \subseteq Items /\ e.truncated \in BOOLEAN
  BY DEF Sound, Entry
<1>2. found \subseteq 0..5
  BY <1>1, InlinksAssumption
<1>3. e.truncated => e.inlinks # {}
  <2>1. Cardinality({}) = 0
    BY FS_EmptySet
  <2> QED
    BY <2>1, InlinksAssumption DEF Sound, CutAtLimit
<1>4. e.inlinks # {} => found # {}
  OBVIOUS
<1>5. e.inlinks # {} => Max(found) \in 0..5
  <2> HIDE DEF found
  <2> QED
    BY <1>2, <1>4, BestLevel
<1>6. EvaluateTarget(e) = IF e.inlinks = {} THEN None
                          ELSE IF Strong \in found THEN Strong
                          ELSE IF Unknown \in found \/ e.truncated THEN Unknown
                          ELSE Max(found)
  BY DEF EvaluateTarget
<1> HIDE DEF found
<1> QED
  BY <1>3, <1>5, <1>6 DEF None, Strong, Unknown

-----------------------------------------------------------------------------
(* The steps *)

LEMMA Establishes == Init => IInv
<1> SUFFICES ASSUME Init PROVE IInv
  OBVIOUS
<1>1. WorldInv
  BY InlinksAssumption DEF Init, WorldInv
<1>2. BoardInv /\ TableInv /\ ReadInv
  BY DEF Init, BoardInv, TableInv, ReadInv
<1>3. PublisherInv
  <2>1. DOMAIN last = {}
    BY DEF Init
  <2> QED
    BY <2>1 DEF Init, PublisherInv, Range
<1>4. CountingInv /\ GraphingInv /\ EvaluatingInv
  BY IdleHolds DEF Init, CountingInv, GraphingInv, EvaluatingInv, PartNeverDecides
<1> QED
  BY <1>1, <1>2, <1>3, <1>4 DEF IInv

\* The reads of interest.
LEMMA ReadInterestStep ==
  ASSUME IInv, ReadInterest PROVE IInv'
<1>1. ReadInv'
  <2>1. read' = [t \in interested |-> row[t]] /\ interested \in SUBSET Targets
    BY DEF ReadInterest, IInv, WorldInv
  <2>2. read' \in [interested -> Row \union {Absent}]
    BY <2>1 DEF IInv, TableInv
  <2> QED
    BY <2>1, <2>2, OfSomeIntro DEF ReadInv
<1> QED
  BY <1>1 DEF ReadInterest, world, IInv, WorldInv, BoardInv, TableInv, PublisherInv,
              CountingInv, GraphingInv, EvaluatingInv, PartNeverDecides

LEMMA ApplyInterestStep ==
  ASSUME IInv, ApplyInterest PROVE IInv'
<1>1. read \in OfSome(Row \union {Absent})
  BY DEF ApplyInterest, IInv, ReadInv
<1>2. \A t \in DOMAIN read : read[t] \in Row \union {Absent}
  BY <1>1, OfSomeElim
<1>3. \A t \in Targets :
        /\ board'[t] \in Sound \union {Absent}
        /\ board'[t] # Absent /\ board[t] # Absent => board'[t].truncated = board[t].truncated
        /\ board'[t] # Absent /\ board[t] = Absent => ~board'[t].truncated
  <2> TAKE t \in Targets
  <2>1. board[t] \in Sound \union {Absent}
    BY DEF IInv, BoardInv
  <2>2. board'[t] = IF t \notin DOMAIN read THEN Absent
                    ELSE IF board[t] = Absent THEN NewEntry(read[t])
                    ELSE Filled(board[t], read[t])
    BY DEF ApplyInterest, Pruned
  <2>3. CASE t \notin DOMAIN read
    BY <2>2, <2>3
  <2>4. CASE t \in DOMAIN read /\ board[t] = Absent
    BY <1>2, <2>2, <2>4, NewEntrySound
  <2>5. CASE t \in DOMAIN read /\ board[t] # Absent
    BY <1>2, <2>1, <2>2, <2>5, FilledSound
  <2> QED
    BY <2>3, <2>4, <2>5
<1>4. BoardInv'
  <2>1. board' = [t \in Targets |-> board'[t]]
    BY DEF ApplyInterest
  <2> QED
    BY <1>3, <2>1 DEF BoardInv
<1>5. GraphingInv'
  <2>1. graphing' \in Graphing /\ graphing'.at = graphing.at /\ graphing'.found = graphing.found
        /\ graphing'.same \subseteq DOMAIN graphing'.found
    BY StampedHolds DEF ApplyInterest, IInv, GraphingInv
  <2>2. DOMAIN graphing.found \subseteq Targets
    BY OfSomeElim DEF IInv, GraphingInv, Graphing
  <2> QED
    BY <1>3, <2>1, <2>2 DEF IInv, GraphingInv
<1>6. ReadInv'
  BY DEF ApplyInterest, ReadInv
<1> QED
  BY <1>4, <1>5, <1>6 DEF ApplyInterest, world, IInv, WorldInv, TableInv, PublisherInv,
                          CountingInv, EvaluatingInv, PartNeverDecides

\* A count pass is taken up, recorded and written.
LEMMA CountStep ==
  ASSUME IInv, CountPass \/ RecordCounts \/ WriteZeroCounts PROVE IInv'
<1>1. CASE CountPass
  <2>1. PICK T \in CountCandidates : ReadCounts(T)
    BY <1>1 DEF CountPass
  <2>2. T # {} /\ T \in SUBSET Targets
    BY StaleSome DEF CountCandidates, Known
  <2>3. counting' = [at |-> "record", found |-> [t \in T |-> Count(t)]]
    BY <2>1 DEF ReadCounts
  <2>4. [t \in T |-> Count(t)] \in [T -> {0, 1}]
    BY DEF Count
  <2>5. [t \in T |-> Count(t)] \in OfSome({0, 1})
    BY <2>2, <2>4, OfSomeIntro
  <2>6. CountingInv'
    BY <2>2, <2>3, <2>5 DEF CountingInv, Counting
  <2> QED
    BY <2>1, <2>6 DEF ReadCounts, world, IInv, WorldInv, BoardInv, TableInv, ReadInv,
                      PublisherInv, GraphingInv, EvaluatingInv, PartNeverDecides
<1>2. CASE RecordCounts
  <2>1. counting \in Counting /\ counting.found \in OfSome({0, 1})
    BY DEF IInv, CountingInv, Counting
  <2>2. \A t \in DOMAIN counting.found : counting.found[t] \in {0, 1}
    BY <2>1, OfSomeElim
  <2>3. \A t \in Targets :
          /\ board'[t] \in Sound \union {Absent}
          /\ board'[t] # Absent => board[t] # Absent /\ board'[t].truncated = board[t].truncated
    <3> TAKE t \in Targets
    <3>1. board[t] \in Sound \union {Absent}
      BY DEF IInv, BoardInv
    <3>2. CASE t \notin Known \intersect DOMAIN counting.found
      BY <1>2, <3>1, <3>2 DEF RecordCounts
    <3>3. CASE t \in Known \intersect DOMAIN counting.found
      <4>1. board[t] \in Sound /\ counting.found[t] \in {0, 1}
        BY <2>2, <3>1, <3>3 DEF Known
      <4> DEFINE v == board[t].evaluated \/ t \in ZeroCounts
      <4>2. board'[t] = [board[t] EXCEPT !.count = counting.found[t], !.evaluated = v]
        BY <1>2, <3>3 DEF RecordCounts
      <4>3. v \in BOOLEAN
        OBVIOUS
      <4> HIDE DEF v
      <4> DEFINE e == board[t]
                 c == counting.found[t]
      <4>4. e \in Sound /\ c \in {0, 1} /\ board'[t] = [e EXCEPT !.count = c, !.evaluated = v]
        BY <4>1, <4>2
      <4> HIDE DEF e, c
      <4>5. board'[t] \in Sound /\ board'[t].truncated = e.truncated
        <5>1. /\ [e EXCEPT !.count = c, !.evaluated = v] \in Sound
              /\ [e EXCEPT !.count = c, !.evaluated = v].truncated = e.truncated
          BY <4>3, <4>4, CountedSound, Zenon
        <5> QED
          BY <4>4, <5>1, Zenon
      <4> QED
        BY <3>3, <4>5 DEF Known, e
    <3> QED
      BY <3>2, <3>3
  <2>4. BoardInv'
    <3>1. board' = [t \in Targets |-> board'[t]]
      BY <1>2 DEF RecordCounts
    <3> QED
      BY <2>3, <3>1 DEF BoardInv
  <2>5. GraphingInv'
    <3>1. /\ graphing' \in Graphing /\ graphing'.at = graphing.at
          /\ graphing'.found = graphing.found
          /\ graphing'.same \subseteq DOMAIN graphing'.found
      BY <1>2, StampedHolds DEF RecordCounts, IInv, GraphingInv
    <3>2. DOMAIN graphing.found \subseteq Targets
      BY OfSomeElim DEF IInv, GraphingInv, Graphing
    <3> QED
      BY <2>3, <3>1, <3>2 DEF IInv, GraphingInv
  <2>6. CountingInv'
    <3>1. CASE ZeroCounts = {}
      <4>1. counting' = IdleCounting
        BY <1>2, <3>1 DEF RecordCounts
      <4> QED
        BY <4>1, IdleHolds DEF CountingInv
    <3>2. CASE ZeroCounts # {}
      <4>1. counting' = [counting EXCEPT !.at = "write"] /\ counting.at = "record"
        BY <1>2, <3>2 DEF RecordCounts
      <4> QED
        BY <2>1, <4>1 DEF IInv, CountingInv, Counting
    <3> QED
      BY <3>1, <3>2
  <2> QED
    BY <1>2, <2>4, <2>5, <2>6
    DEF RecordCounts, world, IInv, WorldInv, TableInv, ReadInv, PublisherInv, EvaluatingInv,
        PartNeverDecides
<1>3. CASE WriteZeroCounts
  <2>1. ZeroRow \in Row
    BY DEF ZeroRow, Row, None
  <2>2. TableInv'
    BY <1>3, <2>1 DEF WriteZeroCounts, IInv, TableInv
  <2>3. CountingInv'
    BY <1>3, IdleHolds DEF WriteZeroCounts, CountingInv
  <2> QED
    BY <1>3, <2>2, <2>3
    DEF WriteZeroCounts, world, IInv, WorldInv, BoardInv, ReadInv, PublisherInv, GraphingInv,
        EvaluatingInv, PartNeverDecides
<1> QED
  BY <1>1, <1>2, <1>3

\* What the replica answers of a target: its links but those to itself, cut at
\* the limit when there are more.
LEMMA ContextsHold ==
  ASSUME IInv, NEW t \in Targets, NEW g \in Contexts(t)
  PROVE  g \in Context
<1>1. Others(t) \subseteq Items
  BY DEF Others, IInv, WorldInv
<1>2. CASE Cardinality(Others(t)) > Limit
  <2>1. g \in [inlinks : kSubset(Limit, Others(t)), truncated : {TRUE}]
    BY <1>2 DEF Contexts
  <2>2. g \in [inlinks : SUBSET Items, truncated : BOOLEAN] /\ Cardinality(g.inlinks) = Limit
    BY <1>1, <2>1 DEF kSubset
  <2> QED
    BY <2>2 DEF Context, CutAtLimit
<1>3. CASE ~(Cardinality(Others(t)) > Limit)
  <2>1. g = [inlinks |-> Others(t), truncated |-> FALSE]
    BY <1>3, Zenon DEF Contexts
  <2> QED
    BY <1>1, <2>1 DEF Context, CutAtLimit
<1> QED
  BY <1>2, <1>3

\* A graph pass is taken up, recorded and written.  What it takes up is not cut.
LEMMA GraphStep ==
  ASSUME IInv, GraphPass \/ RecordGraphs \/ WriteEmptyGraphs PROVE IInv'
<1>1. CASE GraphPass
  <2>1. PICK T \in GraphCandidates : ReadGraphs(T)
    BY <1>1 DEF GraphPass
  <2>2. /\ T # {} /\ T \in SUBSET Targets
        /\ \A t \in T : board[t] # Absent /\ (~board[t].fetched \/ ~board[t].truncated)
    BY StaleSome DEF GraphCandidates, Known
  <2>3. \A t \in T : ~board[t].truncated
    BY <2>2 DEF IInv, BoardInv, Sound
  <2>4. PICK found \in [T -> UNION {Contexts(t) : t \in T}],
             same \in SUBSET {t \in T : board[t].evaluated} :
          /\ \A t \in T : found[t] \in Contexts(t)
          /\ graphing' = [at |-> "record", found |-> found, same |-> same]
    BY <2>1 DEF ReadGraphs
  <2>5. found \in [T -> Context]
    BY <2>2, <2>4, ContextsHold
  <2>6. found \in OfSome(Context) /\ DOMAIN found = T
    BY <2>2, <2>5, OfSomeIntro
  <2>7. GraphingInv'
    <3>1. board' = board
      BY <2>1 DEF ReadGraphs
    <3>2. graphing' \in Graphing /\ graphing'.same \subseteq T
      BY <2>2, <2>4, <2>6 DEF Graphing
    <3> QED
      BY <2>2, <2>3, <2>4, <2>6, <3>1, <3>2 DEF GraphingInv
  <2> QED
    BY <2>1, <2>7 DEF ReadGraphs, world, IInv, WorldInv, BoardInv, TableInv, ReadInv,
                      PublisherInv, CountingInv, EvaluatingInv, PartNeverDecides
<1>2. CASE RecordGraphs
  <2>1. graphing \in Graphing /\ graphing.found \in OfSome(Context)
    BY DEF IInv, GraphingInv, Graphing
  <2>2. \A t \in DOMAIN graphing.found : graphing.found[t] \in Context
    BY <2>1, OfSomeElim
  <2>3. \A t \in Targets : board'[t] \in Sound \union {Absent}
    <3> TAKE t \in Targets
    <3>1. board[t] \in Sound \union {Absent}
      BY DEF IInv, BoardInv
    <3>2. CASE t \notin Known \intersect DOMAIN graphing.found
      BY <1>2, <3>1, <3>2 DEF RecordGraphs
    <3>3. CASE t \in Known \intersect DOMAIN graphing.found /\ t \in EmptyGraphs
      <4>1. board[t] \in Sound /\ ~board[t].truncated
        BY <1>2, <3>1, <3>3 DEF Known, RecordGraphs, IInv, GraphingInv
      <4>2. board'[t] = Emptied(board[t], t \in graphing.same)
        BY <1>2, <3>3 DEF RecordGraphs
      <4> QED
        BY <4>1, <4>2, EmptiedSound
    <3>4. CASE t \in Known \intersect DOMAIN graphing.found /\ t \notin EmptyGraphs
      <4>1. board[t] \in Sound
        BY <3>1, <3>4 DEF Known
      <4>2. board'[t] = Linked(board[t], graphing.found[t])
        BY <1>2, <3>4 DEF RecordGraphs
      <4> QED
        BY <2>2, <3>4, <4>1, <4>2, LinkedSound
    <3> QED
      BY <3>2, <3>3, <3>4
  <2>4. BoardInv'
    <3>1. board' = [t \in Targets |-> board'[t]]
      BY <1>2 DEF RecordGraphs
    <3> QED
      BY <2>3, <3>1 DEF BoardInv
  <2>5. GraphingInv'
    <3>1. CASE EmptyGraphs = {}
      <4>1. graphing' = IdleGraphing
        BY <1>2, <3>1 DEF RecordGraphs
      <4> QED
        BY <4>1, IdleHolds DEF GraphingInv
    <3>2. CASE EmptyGraphs # {}
      <4>1. graphing' = [graphing EXCEPT !.at = "write"] /\ graphing.at = "record"
        BY <1>2, <3>2 DEF RecordGraphs
      <4> QED
        BY <2>1, <4>1 DEF IInv, GraphingInv, Graphing
    <3> QED
      BY <3>1, <3>2
  <2> QED
    BY <1>2, <2>4, <2>5
    DEF RecordGraphs, world, IInv, WorldInv, TableInv, ReadInv, PublisherInv, CountingInv,
        EvaluatingInv, PartNeverDecides
<1>3. CASE WriteEmptyGraphs
  <2>1. ZeroRow \in Row
    BY DEF ZeroRow, Row, None
  <2>2. TableInv'
    BY <1>3, <2>1 DEF WriteEmptyGraphs, IInv, TableInv
  <2>3. GraphingInv'
    BY <1>3, IdleHolds DEF WriteEmptyGraphs, GraphingInv
  <2> QED
    BY <1>3, <2>2, <2>3
    DEF WriteEmptyGraphs, world, IInv, WorldInv, BoardInv, ReadInv, PublisherInv, CountingInv,
        EvaluatingInv, PartNeverDecides
<1> QED
  BY <1>1, <1>2, <1>3

\* An evaluation is taken up, its levels are read, and its results written and,
\* where UNKNOWN, deleted.
LEMMA EvaluationStep ==
  ASSUME IInv, EvaluationPass \/ ReadLevels \/ WriteLevels \/ DeleteUnknown PROVE IInv'
<1>1. CASE EvaluationPass
  <2>1. PICK T \in EvaluationCandidates : TakeEntries(T)
    BY <1>1 DEF EvaluationPass
  <2>2. T # {} /\ T \in SUBSET Targets /\ \A t \in T : board[t] # Absent
    BY StaleSome DEF EvaluationCandidates, Known
  <2>3. evaluating' = [at |-> "levels", entries |-> [t \in T |-> board[t]], result |-> Nobody]
    BY <2>1 DEF TakeEntries
  <2>4. [t \in T |-> board[t]] \in [T -> Sound]
    BY <2>2 DEF IInv, BoardInv
  <2>5. [t \in T |-> board[t]] \in OfSome(Sound)
    BY <2>2, <2>4, OfSomeIntro
  <2>6. Nobody \in OfSome(0..5) /\ DOMAIN Nobody = {}
    BY NobodyHeld
  <2>7. EvaluatingInv'
    BY <2>2, <2>3, <2>5, <2>6 DEF EvaluatingInv, Evaluating, PartNeverDecides
  <2> QED
    BY <2>1, <2>7 DEF TakeEntries, world, IInv, WorldInv, BoardInv, TableInv, ReadInv,
                      PublisherInv, CountingInv, GraphingInv
<1>2. CASE ReadLevels
  <2> DEFINE T == DOMAIN evaluating.entries
             result == [t \in T |-> EvaluateTarget(evaluating.entries[t])]
  <2>1. /\ evaluating \in Evaluating /\ evaluating.entries \in OfSome(Sound)
        /\ evaluating.at = "levels"
    BY <1>2 DEF ReadLevels, IInv, EvaluatingInv, Evaluating
  <2>2. T \subseteq Targets /\ \A t \in T : evaluating.entries[t] \in Sound
    BY <2>1, OfSomeElim
  <2>3. \A t \in T :
          /\ EvaluateTarget(evaluating.entries[t]) \in 0..5
          /\ evaluating.entries[t].truncated =>
               EvaluateTarget(evaluating.entries[t]) \in {Strong, Unknown}
    BY <2>2, EvaluateHolds DEF IInv, WorldInv
  <2>4. /\ result \in [T -> 0..5] /\ DOMAIN result = T
        /\ \A t \in T : evaluating.entries[t].truncated => result[t] \in {Strong, Unknown}
    <3> HIDE DEF T
    <3> QED
      BY <2>3
  <2>5. result \in OfSome(0..5)
    <3> HIDE DEF result
    <3> QED
      BY <2>2, <2>4, OfSomeIntro
  <2>6. evaluating' = [evaluating EXCEPT !.at = "write", !.result = result]
    BY <1>2 DEF ReadLevels
  <2>7. EvaluatingInv'
    <3> HIDE DEF result
    <3>1. /\ evaluating' \in Evaluating /\ evaluating'.at = "write"
          /\ evaluating'.entries = evaluating.entries /\ evaluating'.result = result
      BY <2>1, <2>5, <2>6 DEF Evaluating
    <3> QED
      BY <2>1, <2>4, <3>1 DEF IInv, EvaluatingInv, PartNeverDecides
  <2>8. \A t \in Targets :
          /\ board'[t] \in Sound \union {Absent}
          /\ board'[t] # Absent => board[t] # Absent /\ board'[t].truncated = board[t].truncated
    <3> TAKE t \in Targets
    <3>1. board[t] \in Sound \union {Absent}
      BY DEF IInv, BoardInv
    <3>2. CASE t \in T \intersect Known
      <4>1. board'[t] = [board[t] EXCEPT !.evaluated = TRUE] /\ board[t] # Absent
        BY <1>2, <3>2 DEF ReadLevels, Known
      <4> QED
        BY <3>1, <4>1 DEF Sound, Entry, CutAtLimit
    <3>3. CASE t \notin T \intersect Known
      BY <1>2, <3>1, <3>3 DEF ReadLevels
    <3> QED
      BY <3>2, <3>3
  <2>9. BoardInv'
    <3>1. board' = [t \in Targets |-> board'[t]]
      BY <1>2 DEF ReadLevels
    <3> QED
      BY <2>8, <3>1 DEF BoardInv
  <2>10. GraphingInv'
    <3>1. /\ graphing' \in Graphing /\ graphing'.at = graphing.at
          /\ graphing'.found = graphing.found
          /\ graphing'.same \subseteq DOMAIN graphing'.found
      BY <1>2, StampedHolds DEF ReadLevels, IInv, GraphingInv
    <3>2. DOMAIN graphing.found \subseteq Targets
      BY OfSomeElim DEF IInv, GraphingInv, Graphing
    <3> QED
      BY <2>8, <3>1, <3>2 DEF IInv, GraphingInv
  <2> QED
    BY <1>2, <2>7, <2>9, <2>10
    DEF ReadLevels, world, IInv, WorldInv, TableInv, ReadInv, PublisherInv, CountingInv
<1>3. CASE WriteLevels
  <2>1. /\ evaluating \in Evaluating /\ evaluating.result \in OfSome(0..5)
        /\ evaluating.at = "write"
    BY <1>3 DEF WriteLevels, IInv, EvaluatingInv, Evaluating
  <2>2. \A t \in DOMAIN evaluating.result : evaluating.result[t] \in 0..5
    BY <2>1, OfSomeElim
  <2>3. TableInv'
    <3>1. \A t \in DOMAIN evaluating.result : Evaluated(t) \in Row
      <4> SUFFICES ASSUME NEW t \in DOMAIN evaluating.result PROVE Evaluated(t) \in Row
        OBVIOUS
      <4> DEFINE c == IF evaluating.entries[t].count = 0 /\ evaluating.entries[t].inlinks = {}
                      THEN 0 ELSE 1
      <4>1. c \in 0..1
        OBVIOUS
      <4>2. Evaluated(t) = [level |-> evaluating.result[t], count |-> c]
        BY DEF Evaluated
      <4> HIDE DEF c
      <4> QED
        BY <2>2, <4>1, <4>2 DEF Row
    <3>2. row' = [t \in Targets |->
                   IF t \in DOMAIN evaluating.result THEN Evaluated(t) ELSE row[t]]
      BY <1>3 DEF WriteLevels
    <3> QED
      BY <3>1, <3>2 DEF IInv, TableInv
  <2>4. EvaluatingInv'
    <3>1. CASE UnknownResults = {}
      <4>1. evaluating' = IdleEvaluating
        BY <1>3, <3>1 DEF WriteLevels
      <4> QED
        BY <4>1, IdleHolds DEF EvaluatingInv, PartNeverDecides
    <3>2. CASE UnknownResults # {}
      <4>1. evaluating' = [evaluating EXCEPT !.at = "delete"]
        BY <1>3, <3>2 DEF WriteLevels
      <4>2. /\ evaluating' \in Evaluating /\ evaluating'.at = "delete"
            /\ evaluating'.entries = evaluating.entries
            /\ evaluating'.result = evaluating.result
        BY <2>1, <4>1 DEF Evaluating
      <4> QED
        BY <2>1, <4>2 DEF IInv, EvaluatingInv, PartNeverDecides
    <3> QED
      BY <3>1, <3>2
  <2> QED
    BY <1>3, <2>3, <2>4
    DEF WriteLevels, world, IInv, WorldInv, BoardInv, ReadInv, PublisherInv, CountingInv,
        GraphingInv
<1>4. CASE DeleteUnknown
  <2>1. TableInv'
    BY <1>4 DEF DeleteUnknown, IInv, TableInv
  <2>2. EvaluatingInv'
    BY <1>4, IdleHolds DEF DeleteUnknown, EvaluatingInv, PartNeverDecides
  <2> QED
    BY <1>4, <2>1, <2>2
    DEF DeleteUnknown, world, IInv, WorldInv, BoardInv, ReadInv, PublisherInv, CountingInv,
        GraphingInv
<1> QED
  BY <1>1, <1>2, <1>3, <1>4

\* The publisher's list is one of the targets; what it publishes are their links.
LEMMA PublisherStep ==
  ASSUME IInv, PublishNothing \/ Publish PROVE IInv'
<1>1. PublisherInv'
  <2>1. CASE PublishNothing
    <3>1. DOMAIN last' = {} /\ published' = {}
      BY <2>1 DEF PublishNothing
    <3> QED
      BY <3>1 DEF PublisherInv, Range
  <2>2. CASE Publish
    <3>1. last' \in [1..Cardinality(Known) -> Known]
      BY <2>2 DEF Publish, Bijection, Injection
    <3>2. Range(last') \subseteq Targets
      BY <3>1 DEF Range, Known
    <3>3. \A t \in Known : board[t].inlinks \subseteq Items
      BY DEF Known, IInv, BoardInv, Sound, Entry
    <3>4. published' \subseteq Items
      BY <2>2, <3>3 DEF Publish
    <3> QED
      BY <3>2, <3>4 DEF PublisherInv, Range
  <2> QED
    BY <2>1, <2>2
<1> QED
  BY <1>1 DEF PublishNothing, Publish, world, IInv, WorldInv, BoardInv, TableInv, ReadInv,
              CountingInv, GraphingInv, EvaluatingInv, PartNeverDecides

LEMMA PushStep ==
  ASSUME IInv, NEW T \in SUBSET Targets, PushStrong(T) PROVE IInv'
<1>1. StrongRow \in Row
  BY DEF StrongRow, Row, Strong
<1>2. TableInv'
  BY <1>1 DEF PushStrong, IInv, TableInv
<1> QED
  BY <1>2 DEF PushStrong, IInv, WorldInv, BoardInv, ReadInv, PublisherInv, CountingInv,
              GraphingInv, EvaluatingInv, PartNeverDecides

\* Edits, interest, levels, failures and restarts.
LEMMA DisturbStep ==
  ASSUME IInv, Disturb PROVE IInv'
<1>1. Changes => changes' \in 0..MaxChanges
  BY InlinksAssumption DEF Changes, IInv, WorldInv
<1>2. CASE (\E t \in Targets : \E i \in Items \union {t} : Edit(t, i))
           \/ (\E t \in Targets : ToggleInterest(t))
           \/ (\E i \in Items, n \in Levels : Resolve(i, n))
  <2>1. WorldInv'
    <3>1. CASE \E t \in Targets : \E i \in Items \union {t} : Edit(t, i)
      BY <1>1, <3>1 DEF Edit, IInv, WorldInv
    <3>2. CASE \E t \in Targets : ToggleInterest(t)
      BY <1>1, <3>2 DEF ToggleInterest, IInv, WorldInv
    <3>3. CASE \E i \in Items, n \in Levels : Resolve(i, n)
      BY <1>1, <3>3 DEF Resolve, IInv, WorldInv
    <3> QED
      BY <1>2, <3>1, <3>2, <3>3
  <2>2. UNCHANGED pipeline
    BY <1>2 DEF Edit, ToggleInterest, Resolve
  <2> QED
    BY <2>1, <2>2 DEF pipeline, IInv, BoardInv, TableInv, ReadInv, PublisherInv, CountingInv,
                      GraphingInv, EvaluatingInv, PartNeverDecides
<1>3. CASE CountsFail
  <2>1. CountingInv'
    BY <1>3, IdleHolds DEF CountsFail, CountingInv
  <2> QED
    BY <1>1, <1>3, <2>1
    DEF CountsFail, world, IInv, WorldInv, BoardInv, TableInv, ReadInv, PublisherInv,
        GraphingInv, EvaluatingInv, PartNeverDecides
<1>4. CASE GraphsFail
  <2>1. GraphingInv'
    BY <1>4, IdleHolds DEF GraphsFail, GraphingInv
  <2> QED
    BY <1>1, <1>4, <2>1
    DEF GraphsFail, world, IInv, WorldInv, BoardInv, TableInv, ReadInv, PublisherInv,
        CountingInv, EvaluatingInv, PartNeverDecides
<1>5. CASE Restart
  <2>1. CountingInv' /\ GraphingInv' /\ EvaluatingInv'
    BY <1>5, IdleHolds DEF Restart, CountingInv, GraphingInv, EvaluatingInv, PartNeverDecides
  <2>2. PublisherInv'
    <3>1. DOMAIN last' = {} /\ published' = {}
      BY <1>5 DEF Restart
    <3> QED
      BY <3>1 DEF PublisherInv, Range
  <2>3. WorldInv' /\ TableInv'
    BY <1>1, <1>5 DEF Restart, world, IInv, WorldInv, TableInv
  <2>4. BoardInv' /\ ReadInv'
    BY <1>5 DEF Restart, BoardInv, ReadInv
  <2> QED
    BY <2>1, <2>2, <2>3, <2>4 DEF IInv
<1> QED
  BY <1>2, <1>3, <1>4, <1>5 DEF Disturb

LEMMA Preserves == IInv /\ [Next]_vars => IInv'
<1> SUFFICES ASSUME IInv, [Next]_vars PROVE IInv'
  OBVIOUS
<1>1. CASE UNCHANGED vars
  BY <1>1 DEF vars, world, IInv, WorldInv, BoardInv, TableInv, ReadInv, PublisherInv,
              CountingInv, GraphingInv, EvaluatingInv, PartNeverDecides
<1> QED
  BY <1>1, ReadInterestStep, ApplyInterestStep, CountStep, GraphStep, EvaluationStep,
     PublisherStep, PushStep, DisturbStep
  DEF Next

\* The inductive invariant holds in every reachable state of the coroutines and
\* of what happens around them.
THEOREM Invariance == Spec => []IInv
  BY Establishes, Preserves, PTL DEF Spec

-----------------------------------------------------------------------------
(* What follows *)

\* Every variable stays within its type, each coroutine holds something exactly
\* when it is within a pass.
THEOREM TypeCorrect == Spec => []TypeOK
<1>1. IInv => TypeOK
  <2> SUFFICES ASSUME IInv PROVE TypeOK
    OBVIOUS
  <2>1. /\ counting.at \in {"idle", "record", "write"} /\ DOMAIN counting.found \subseteq Targets
        /\ counting.at = "idle" <=> DOMAIN counting.found = {}
    BY OfSomeElim DEF IInv, CountingInv, Counting
  <2>2. /\ graphing.at \in {"idle", "record", "write"} /\ DOMAIN graphing.found \subseteq Targets
        /\ graphing.at = "idle" <=> DOMAIN graphing.found = {}
        /\ graphing.same \subseteq DOMAIN graphing.found
    BY OfSomeElim DEF IInv, GraphingInv, Graphing
  <2>3. /\ evaluating.at \in {"idle", "levels", "write", "delete"}
        /\ DOMAIN evaluating.entries \subseteq Targets
        /\ evaluating.at = "idle" <=> DOMAIN evaluating.entries = {}
    BY OfSomeElim DEF IInv, EvaluatingInv, Evaluating
  <2>4. read = Absent \/ DOMAIN read \subseteq Targets
    BY OfSomeElim DEF IInv, ReadInv
  <2>5. board \in [Targets -> Entry \union {Absent}]
    BY DEF IInv, BoardInv, Sound
  <2> QED
    BY <2>1, <2>2, <2>3, <2>4, <2>5 DEF TypeOK, IInv, WorldInv, TableInv, PublisherInv
<1> QED
  BY Invariance, <1>1, PTL

\* A cut entry holds as many links as the limit allows, for any limit and any
\* order of passes, prunes, failures and restarts.
THEOREM CutEntriesHoldLimit == Spec => []CutHoldsLimit
<1>1. IInv => CutHoldsLimit
  BY DEF IInv, BoardInv, Sound, CutAtLimit, CutHoldsLimit, Known
<1> QED
  BY Invariance, <1>1, PTL

\* From part of a target's links nothing but STRONG is concluded.
THEOREM PartsNeverDecide == Spec => []PartNeverDecides
<1>1. IInv => PartNeverDecides
  BY DEF IInv, EvaluatingInv
<1> QED
  BY Invariance, <1>1, PTL

\* A write to the table is the evaluator's, or leaves only levels other than
\* UNKNOWN.
LEMMA LeftStep ==
  ASSUME IInv, NoneLeft, [Next]_vars, ~Restart
  PROVE  NoneLeft'
<1> SUFFICES ASSUME NEW t \in Targets, row'[t] # Absent, row'[t].level = Unknown
             PROVE  evaluating'.at = "delete" /\ t \in UnknownResults'
  BY DEF NoneLeft, Left
<1>1. row[t] # Absent /\ row[t].level = Unknown
        => evaluating.at = "delete" /\ t \in UnknownResults
  BY DEF NoneLeft, Left
<1>2. CASE WriteLevels
  <2>1. evaluating.at = "write" /\ evaluating \in Evaluating
    BY <1>2 DEF WriteLevels, IInv, EvaluatingInv
  <2>2. t \in DOMAIN evaluating.result /\ evaluating.result[t] = Unknown
    <3>1. CASE t \notin DOMAIN evaluating.result
      BY <1>1, <1>2, <2>1, <3>1 DEF WriteLevels
    <3>2. CASE t \in DOMAIN evaluating.result
      <4>1. row'[t] = Evaluated(t)
        BY <1>2, <3>2 DEF WriteLevels
      <4>2. Evaluated(t).level = evaluating.result[t]
        BY DEF Evaluated
      <4> QED
        BY <3>2, <4>1, <4>2
    <3> QED
      BY <3>1, <3>2
  <2>3. t \in UnknownResults
    BY <2>2 DEF UnknownResults
  <2>4. evaluating' = [evaluating EXCEPT !.at = "delete"]
    BY <1>2, <2>3 DEF WriteLevels
  <2>5. evaluating'.at = "delete" /\ evaluating'.result = evaluating.result
    BY <2>1, <2>4 DEF Evaluating
  <2> QED
    BY <2>2, <2>5 DEF UnknownResults
<1>3. CASE DeleteUnknown
  <2>1. t \notin UnknownResults /\ row'[t] = row[t]
    BY <1>3 DEF DeleteUnknown
  <2> QED
    BY <1>1, <2>1
<1>4. CASE WriteZeroCounts \/ WriteEmptyGraphs \/ \E T \in SUBSET Targets : PushStrong(T)
  <2>1. ZeroRow.level # Unknown /\ StrongRow.level # Unknown
    BY DEF ZeroRow, StrongRow, None, Strong, Unknown
  <2>2. row'[t] \in {ZeroRow, StrongRow, row[t]} /\ UNCHANGED evaluating
    BY <1>4 DEF WriteZeroCounts, WriteEmptyGraphs, PushStrong
  <2>3. row'[t] = row[t]
    BY <2>1, <2>2
  <2> QED
    BY <1>1, <2>2, <2>3 DEF UnknownResults
<1>5. CASE EvaluationPass \/ ReadLevels
  <2>1. evaluating.at # "delete" /\ row' = row
    BY <1>5 DEF EvaluationPass, TakeEntries, ReadLevels
  <2> QED
    BY <1>1, <2>1
<1>6. CASE UNCHANGED <<row, evaluating>>
  BY <1>1, <1>6 DEF UnknownResults
<1>7. CASE ReadInterest \/ ApplyInterest \/ CountPass \/ GraphPass \/ RecordCounts
           \/ RecordGraphs \/ PublishNothing \/ Publish
  <2>1. UNCHANGED <<row, evaluating>>
    BY <1>7 DEF ReadInterest, ApplyInterest, CountPass, ReadCounts, GraphPass, ReadGraphs,
                RecordCounts, RecordGraphs, PublishNothing, Publish
  <2> QED
    BY <1>6, <2>1
<1>8. CASE Disturb
  <2>1. UNCHANGED <<row, evaluating>>
    BY <1>8 DEF Disturb, Edit, ToggleInterest, Resolve, CountsFail, GraphsFail, Restart, pipeline
  <2> QED
    BY <1>6, <2>1
<1>9. CASE UNCHANGED vars
  BY <1>6, <1>9 DEF vars
<1> QED
  BY <1>2, <1>3, <1>4, <1>5, <1>7, <1>8, <1>9 DEF Next

\* Only a stop between the evaluator's write and its delete leaves UNKNOWN in
\* the table, whatever the other coroutines and the content worker write.
THEOREM UnknownLeftByStops == Spec => OnlyStopsLeaveUnknown
<1>1. IInv /\ [Next]_vars => [NoneLeft /\ ~Restart => NoneLeft']_vars
  BY LeftStep
<1> QED
  BY Invariance, <1>1, PTL DEF Spec, OnlyStopsLeaveUnknown
=============================================================================
