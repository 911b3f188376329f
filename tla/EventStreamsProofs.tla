------------------------ MODULE EventStreamsProofs ------------------------
(***************************************************************************)
(* What a page shows never goes back, and the types and bounds of every    *)
(* variable, for any items, edits, changes of the page and faults.         *)
(*                                                                         *)
(* A stream sends what it read earlier, and two streams may be running.    *)
(* Only the stream that the page listens to counts, and what that one has  *)
(* read is no older than what the page shows (Ahead): it read it itself,   *)
(* after the page began to listen to it, and nothing else is shown since.  *)
(* The types take more: what is leased, snapshotted or still to be written *)
(* are items of the page because every statement carries items it had.     *)
(***************************************************************************)
EXTENDS EventStreams, TLAPS

StreamRecord == [pc : {"off", "lookup", "lease", "insert", "poll", "send"},
                 qids : SUBSET Items, seen : [Items -> Nat],
                 read : [Items -> Nat]]

Typed ==
  /\ shown \in [Items -> Nat] /\ row \in [Items -> Nat]
  /\ stream \in [Streams -> StreamRecord]
  /\ es \in Streams \union {NoStream}
  /\ snapshot \subseteq Items /\ asked \subseteq Items /\ want \subseteq Items

\* The page shows no row that the table has not had.
Behind == \A q \in Items : shown[q] <= row[q]

\* A stream that is off, or has not read since it last sent, holds nothing.
Empty ==
  \A i \in Streams : stream[i].pc # "send" => stream[i].read = Unseen

\* What the page will be sent next is no older than what it shows, and no
\* stream has read more than the table had.
Ahead ==
  \A i \in Streams, q \in Items :
    stream[i].read[q] # 0 =>
      /\ stream[i].read[q] <= row[q]
      /\ es = i => shown[q] <= stream[i].read[q]

IInv == Typed /\ Behind /\ Empty /\ Ahead

LEMMA UnseenType == Unseen \in [Items -> Nat]
  BY DEF Unseen

LEMMA OffType ==
  /\ Off \in StreamRecord
  /\ Off.read = Unseen /\ Off.pc # "send"
  BY UnseenType DEF Off, StreamRecord

LEMMA Establishes == Init => IInv
<1> SUFFICES ASSUME Init PROVE IInv
  OBVIOUS
<1>1. /\ shown = Unseen /\ row = Unseen
      /\ stream = [i \in Streams |-> Off]
      /\ es = NoStream /\ snapshot = {} /\ asked = {} /\ want = Loaded
  BY DEF Init
<1>2. Typed
  <2>1. shown \in [Items -> Nat] /\ row \in [Items -> Nat]
    BY <1>1, UnseenType
  <2>2. stream \in [Streams -> StreamRecord]
    BY <1>1, OffType
  <2>3. /\ es \in Streams \union {NoStream} /\ snapshot \subseteq Items
        /\ asked \subseteq Items
    BY <1>1
  <2>4. want \subseteq Items
    BY <1>1, EventStreamsAssumption
  <2> QED
    BY <2>1, <2>2, <2>3, <2>4 DEF Typed
<1>3. Behind
  <2> SUFFICES ASSUME NEW q \in Items
               PROVE  shown[q] <= row[q]
    BY DEF Behind
  <2>1. shown[q] = 0 /\ row[q] = 0
    BY <1>1 DEF Unseen
  <2> QED
    BY <2>1
<1>4. Empty
  BY <1>1, OffType DEF Empty
<1>5. Ahead
  BY <1>1, OffType DEF Ahead, Unseen
<1> QED
  BY <1>2, <1>3, <1>4, <1>5 DEF IInv

\* The rows stay as they are, what the page shows too, and each stream either
\* goes on with what it had read, or is one that has read nothing.  The page
\* may stop listening, or listen to a stream that has read nothing.
LEMMA CalmStep ==
  ASSUME IInv,
         UNCHANGED <<shown, row>>,
         stream' \in [Streams -> StreamRecord],
         \A i \in Streams :
           \/ /\ stream'[i].read = stream[i].read
              /\ stream'[i].pc = "send" <=> stream[i].pc = "send"
           \/ stream'[i].read = Unseen /\ stream'[i].pc # "send",
         es' \in Streams \union {NoStream},
         es' # NoStream /\ es' # es => stream'[es'].read = Unseen,
         snapshot' \subseteq Items, asked' \subseteq Items,
         want' \subseteq Items
  PROVE  IInv'
<1>1. Typed'
  BY DEF IInv, Typed
<1>2. Behind'
  BY DEF IInv, Behind
<1>3. Empty'
  BY DEF IInv, Empty
<1>4. Ahead'
  <2> SUFFICES ASSUME NEW i \in Streams, NEW q \in Items,
                      stream'[i].read[q] # 0
               PROVE  /\ stream'[i].read[q] <= row[q]
                      /\ es' = i => shown[q] <= stream'[i].read[q]
    BY DEF Ahead
  <2>1. stream'[i].read # Unseen
    BY DEF Unseen
  <2>2. stream'[i].read = stream[i].read
    BY <2>1
  <2>3. es' = i => es = i
    BY <2>1 DEF Streams, NoStream
  <2> QED
    BY <2>2, <2>3 DEF IInv, Ahead
<1> QED
  BY <1>1, <1>2, <1>3, <1>4 DEF IInv

\* A stream that is turned off, or passes to another place without reading.
LEMMA StreamOff ==
  ASSUME IInv, NEW i \in Streams, stream' = [stream EXCEPT ![i] = Off]
  PROVE  /\ stream' \in [Streams -> StreamRecord]
         /\ \A j \in Streams :
              stream'[j] = IF j = i THEN Off ELSE stream[j]
  BY OffType DEF IInv, Typed

LEMMA StreamMoved ==
  ASSUME IInv, NEW i \in Streams,
         NEW place \in {"lookup", "lease", "insert", "poll"},
         NEW items \in SUBSET Items,
         stream' = [stream EXCEPT ![i].pc = place, ![i].qids = items]
  PROVE  /\ stream' \in [Streams -> StreamRecord]
         /\ stream'[i].pc = place
         /\ stream'[i].read = stream[i].read
         /\ \A j \in Streams \ {i} : stream'[j] = stream[j]
  BY DEF IInv, Typed, StreamRecord

LEMMA StreamPlaced ==
  ASSUME IInv, NEW i \in Streams,
         NEW place \in {"lookup", "lease", "insert", "poll"},
         stream' = [stream EXCEPT ![i].pc = place]
  PROVE  /\ stream' \in [Streams -> StreamRecord]
         /\ stream'[i].pc = place
         /\ stream'[i].read = stream[i].read
         /\ \A j \in Streams \ {i} : stream'[j] = stream[j]
  BY DEF IInv, Typed, StreamRecord

-----------------------------------------------------------------------------
(* The page *)

LEMMA OpenStep ==
  ASSUME IInv, NEW i \in Streams, Open(i),
         UNCHANGED <<shown, row>>,
         snapshot' \subseteq Items, asked' \subseteq Items, want' \subseteq Items
  PROVE  IInv'
<1>1. /\ stream[i].pc = "off" /\ es' = i
      /\ stream' = [stream EXCEPT ![i].pc = "lookup"]
  BY DEF Open
<1>2. stream[i].read = Unseen
  BY <1>1 DEF IInv, Empty
<1>3. /\ stream' \in [Streams -> StreamRecord]
      /\ stream'[i].pc = "lookup" /\ stream'[i].read = stream[i].read
      /\ \A j \in Streams \ {i} : stream'[j] = stream[j]
  BY <1>1, StreamPlaced
<1> QED
  BY <1>1, <1>2, <1>3, CalmStep

LEMMA PageStep ==
  ASSUME IInv,
         \/ Script \/ AskFails
         \/ Hide \/ Focus \/ Show \/ Click \/ Leave
         \/ \E q \in Items : Discover(q)
  PROVE  IInv'
<1>1. Typed
  BY DEF IInv
<1>2. CASE Ask \/ AskDropped \/ AskFails \/ Focus \/ Show
           \/ \E q \in Items : Discover(q)
  <2>1. UNCHANGED <<shown, row, stream, es, snapshot>>
    BY <1>2 DEF Ask, AskDropped, AskFails, Focus, Show, Discover
  <2>2. asked' \subseteq Items /\ want' \subseteq Items
    BY <1>1, <1>2 DEF Ask, AskDropped, AskFails, Focus, Show, Discover, Typed
  <2> QED
    BY <1>1, <2>1, <2>2, CalmStep DEF Typed
<1>3. CASE Hide \/ Leave
  <2>1. UNCHANGED <<shown, row, stream, snapshot, want>>
    BY <1>3 DEF Hide, Leave
  <2>2. es' \in {es, NoStream} /\ asked' \in {asked, {}}
    BY <1>3 DEF Hide, Leave
  <2> QED
    BY <1>1, <2>1, <2>2, CalmStep DEF Typed
<1>4. CASE Answer
  <2>1. /\ UNCHANGED <<shown, row, want>>
        /\ snapshot' = asked /\ asked' = {}
    BY <1>4 DEF Answer
  <2>2. CASE \E i \in Streams : Open(i)
    BY <1>1, <2>1, <2>2, OpenStep DEF Typed
  <2>3. CASE UNCHANGED <<es, stream>>
    BY <1>1, <2>1, <2>3, CalmStep DEF Typed
  <2> QED
    BY <1>4, <2>2, <2>3 DEF Answer
<1>5. CASE Reconnect \/ Click
  BY <1>1, <1>5, OpenStep DEF Reconnect, Click, Typed
<1> QED
  BY <1>2, <1>3, <1>4, <1>5 DEF Script

-----------------------------------------------------------------------------
(* The server *)

\* A stream that goes on without reading or sending.
LEMMA LeaseStep ==
  ASSUME IInv, NEW i \in Streams,
         Lookup(i) \/ LeaseDelete(i) \/ LeaseInsert(i)
  PROVE  IInv'
<1>1. Typed
  BY DEF IInv
<1>2. UNCHANGED <<shown, row, snapshot, asked, want>>
  BY DEF Lookup, LeaseDelete, LeaseInsert
<1>3. stream[i].pc # "send"
  BY DEF Lookup, LeaseDelete, LeaseInsert
<1>4. es' \in {es, NoStream}
  BY DEF Lookup, LeaseDelete, LeaseInsert, Disconnected
<1>5. CASE stream' = [stream EXCEPT ![i] = Off]
  <2>1. /\ stream' \in [Streams -> StreamRecord]
        /\ \A j \in Streams : stream'[j] = IF j = i THEN Off ELSE stream[j]
    BY <1>5, StreamOff
  <2> QED
    BY <1>1, <1>2, <1>4, <2>1, OffType, CalmStep DEF Typed
<1>6. CASE stream' = [stream EXCEPT ![i].pc = "lease", ![i].qids = snapshot]
  <2>1. /\ stream' \in [Streams -> StreamRecord]
        /\ stream'[i].pc = "lease" /\ stream'[i].read = stream[i].read
        /\ \A j \in Streams \ {i} : stream'[j] = stream[j]
    BY <1>1, <1>6, StreamMoved DEF Typed
  <2> QED
    BY <1>1, <1>2, <1>3, <1>4, <2>1, CalmStep DEF Typed
<1>7. CASE \E place \in {"insert", "poll"} :
             stream' = [stream EXCEPT ![i].pc = place]
  <2>1. PICK place \in {"insert", "poll"} :
          stream' = [stream EXCEPT ![i].pc = place]
    BY <1>7
  <2>2. /\ stream' \in [Streams -> StreamRecord]
        /\ stream'[i].pc = place /\ stream'[i].read = stream[i].read
        /\ \A j \in Streams \ {i} : stream'[j] = stream[j]
    BY <2>1, StreamPlaced
  <2> QED
    BY <1>1, <1>2, <1>3, <1>4, <2>1, <2>2, CalmStep DEF Typed
<1> QED
  BY <1>5, <1>6, <1>7 DEF Lookup, LeaseDelete, LeaseInsert

\* A stream that ends, and whatever makes it end.
LEMMA EndStep ==
  ASSUME IInv, NEW i \in Streams, Deadline(i) \/ StreamFails(i) \/ Cancel(i)
  PROVE  IInv'
<1>1. /\ UNCHANGED <<shown, row, snapshot, asked, want>>
      /\ stream' = [stream EXCEPT ![i] = Off]
      /\ es' \in {es, NoStream}
  BY DEF Deadline, StreamFails, Cancel, Disconnected
<1>2. /\ stream' \in [Streams -> StreamRecord]
      /\ \A j \in Streams : stream'[j] = IF j = i THEN Off ELSE stream[j]
  BY <1>1, StreamOff
<1> QED
  BY <1>1, <1>2, OffType, CalmStep DEF IInv, Typed

\* A stream reads rows of the table, none older than those shown.
LEMMA ReadStep ==
  ASSUME IInv, NEW i \in Streams, Read(i)
  PROVE  IInv'
<1> DEFINE got == [q \in Items |-> IF Changed(i, q) THEN row[q] ELSE 0]
<1>1. /\ stream' = [stream EXCEPT ![i].pc = "send", ![i].read = got]
      /\ UNCHANGED <<shown, row, es, snapshot, asked, want>>
  BY DEF Read
<1>2. got \in [Items -> Nat]
  BY DEF IInv, Typed
<1>3. \A q \in Items : got[q] = 0 \/ got[q] = row[q]
  OBVIOUS
<1> HIDE DEF got
<1>4. /\ stream' \in [Streams -> StreamRecord]
      /\ stream'[i].pc = "send" /\ stream'[i].read = got
      /\ \A j \in Streams \ {i} : stream'[j] = stream[j]
  BY <1>1, <1>2 DEF IInv, Typed, StreamRecord
<1>5. Typed' /\ Behind'
  BY <1>1, <1>4 DEF IInv, Typed, Behind
<1>6. Empty'
  BY <1>4 DEF IInv, Empty
<1>7. Ahead'
  <2> SUFFICES ASSUME NEW j \in Streams, NEW q \in Items,
                      stream'[j].read[q] # 0
               PROVE  /\ stream'[j].read[q] <= row[q]
                      /\ es = j => shown[q] <= stream'[j].read[q]
    BY <1>1 DEF Ahead
  <2>1. CASE j = i
    <3>1. stream'[j].read[q] = row[q]
      BY <1>3, <1>4, <2>1
    <3> QED
      BY <3>1 DEF IInv, Behind, Typed
  <2>2. CASE j # i
    BY <1>4, <2>2 DEF IInv, Ahead
  <2> QED
    BY <2>1, <2>2
<1> QED
  BY <1>5, <1>6, <1>7 DEF IInv

\* What the page then shows is what its stream has read, or what it showed.
LEMMA SendShows ==
  ASSUME IInv, NEW i \in Streams, Send(i), NEW q \in Items
  PROVE  /\ shown'[q] \in {shown[q], stream[i].read[q]}
         /\ shown'[q] # shown[q] => es = i /\ stream[i].read[q] # 0
  BY DEF Send, Sent, Heard, IInv, Typed

LEMMA SendStep ==
  ASSUME IInv, NEW i \in Streams, Send(i)
  PROVE  IInv'
<1> DEFINE sent == Sent(i, stream[i].seen)
           r == IF es = i
                THEN [stream[i] EXCEPT !.pc = "poll", !.read = Unseen, !.seen = sent]
                ELSE Off
<1>1. /\ stream' = [stream EXCEPT ![i] = r]
      /\ UNCHANGED <<row, es, snapshot, asked, want>>
  BY DEF Send
<1>2. stream[i].read \in [Items -> Nat] /\ stream[i].seen \in [Items -> Nat]
  BY DEF IInv, Typed, StreamRecord
<1>3. sent \in [Items -> Nat]
  BY <1>2 DEF Sent
<1> HIDE DEF sent
<1>4. /\ stream' \in [Streams -> StreamRecord]
      /\ stream'[i].pc # "send" /\ stream'[i].read = Unseen
      /\ \A j \in Streams \ {i} : stream'[j] = stream[j]
  <2>1. stream[i] \in StreamRecord
    BY DEF IInv, Typed
  <2>2. r \in StreamRecord /\ r.pc # "send" /\ r.read = Unseen
    BY <1>3, <2>1, UnseenType, OffType DEF StreamRecord
  <2> HIDE DEF r
  <2> QED
    BY <1>1, <2>2 DEF IInv, Typed
<1> HIDE DEF r
<1>5. /\ shown' \in [Items -> Nat]
      /\ es # i => shown' = shown
  BY <1>2 DEF Send, Sent, Heard, IInv, Typed
<1>6. Typed'
  BY <1>1, <1>4, <1>5 DEF IInv, Typed
<1>7. Behind'
  <2> SUFFICES ASSUME NEW q \in Items
               PROVE  shown'[q] <= row[q]
    BY <1>1 DEF Behind
  <2>1. shown'[q] = shown[q] \/ (/\ shown'[q] = stream[i].read[q]
                                 /\ stream[i].read[q] # 0)
    BY SendShows
  <2> QED
    BY <2>1 DEF IInv, Behind, Ahead
<1>8. Empty'
  BY <1>4 DEF IInv, Empty
<1>9. Ahead'
  <2> SUFFICES ASSUME NEW j \in Streams, NEW q \in Items,
                      stream'[j].read[q] # 0
               PROVE  /\ stream'[j].read[q] <= row[q]
                      /\ es = j => shown'[q] <= stream'[j].read[q]
    BY <1>1 DEF Ahead
  <2>1. j # i
    BY <1>4 DEF Unseen
  <2>2. es = j => shown' = shown
    BY <1>5, <2>1
  <2> QED
    BY <1>4, <2>1, <2>2 DEF IInv, Ahead
<1> QED
  BY <1>6, <1>7, <1>8, <1>9 DEF IInv

-----------------------------------------------------------------------------
(* The rest of the system *)

\* Edits change no row, and rows that are stored get the next number.
LEMMA RowsStep ==
  ASSUME IInv, NEW q \in Items, Edit(q) \/ Store(q) \/ StoreOutdated(q)
  PROVE  IInv'
<1>1. UNCHANGED <<shown, stream, es, snapshot, asked, want>>
  BY DEF Edit, Store, StoreOutdated, Stored
<1>2. row' \in [Items -> Nat] /\ \A s \in Items : row[s] <= row'[s]
  <2>1. row \in [Items -> Nat]
    BY DEF IInv, Typed
  <2>2. row' = row \/ row' = [row EXCEPT ![q] = row[q] + 1]
    BY DEF Edit, Store, StoreOutdated, Stored
  <2> QED
    BY <2>1, <2>2
<1>3. Typed'
  BY <1>1, <1>2 DEF IInv, Typed
<1>4. Behind'
  BY <1>1, <1>2 DEF IInv, Typed, Behind
<1>5. Empty'
  BY <1>1 DEF IInv, Empty
<1>6. Ahead'
  <2> SUFFICES ASSUME NEW i \in Streams, NEW s \in Items,
                      stream[i].read[s] # 0
               PROVE  /\ stream[i].read[s] <= row'[s]
                      /\ es = i => shown[s] <= stream[i].read[s]
    BY <1>1 DEF Ahead
  <2>1. stream[i].read[s] <= row[s] /\ (es = i => shown[s] <= stream[i].read[s])
    BY DEF IInv, Ahead
  <2>2. stream[i].read[s] \in Nat /\ row[s] \in Nat /\ row'[s] \in Nat
    BY <1>2 DEF IInv, Typed, StreamRecord
  <2> QED
    BY <1>2, <2>1, <2>2
<1> QED
  BY <1>3, <1>4, <1>5, <1>6 DEF IInv

LEMMA OtherStep ==
  ASSUME IInv,
         \/ \E s \in late : RunLate(s)
         \/ DeleteSession \/ Expire \/ Restart \/ UNCHANGED vars
  PROVE  IInv'
<1>1. Typed
  BY DEF IInv
<1>2. CASE Restart
  <2>1. /\ UNCHANGED <<shown, row, want>>
        /\ stream' = [i \in Streams |-> Off]
        /\ es' = NoStream /\ snapshot' = {} /\ asked' = {}
    BY <1>2 DEF Restart
  <2> QED
    BY <1>1, <2>1, OffType, CalmStep DEF Typed
<1>3. CASE \/ \E s \in late : RunLate(s)
           \/ DeleteSession \/ Expire \/ UNCHANGED vars
  <2>1. /\ UNCHANGED <<shown, row, want, stream, es, asked>>
        /\ snapshot' \in {snapshot, {}}
    BY <1>3 DEF RunLate, DeleteSession, Expire, vars
  <2> QED
    BY <1>1, <2>1, CalmStep DEF Typed
<1> QED
  BY <1>2, <1>3

LEMMA Preserves == IInv /\ [Next]_vars => IInv'
<1> SUFFICES ASSUME IInv, [Next]_vars PROVE IInv'
  OBVIOUS
<1> QED
  BY PageStep, LeaseStep, EndStep, ReadStep, SendStep, RowsStep, OtherStep
  DEF Next, Stream

\* The inductive invariant holds in every reachable state of a page and its
\* streams.
THEOREM Invariance == Spec => []IInv
  BY Establishes, Preserves, PTL DEF Spec

\* What a page shows of an item is never replaced by something stored earlier,
\* for any two streams to it and whatever fails.
THEOREM ShownOnlyGrows == Spec => ShownNeverRegresses
<1>1. IInv /\ [Next]_vars => [\A q \in Items : shown'[q] >= shown[q]]_vars
  <2> SUFFICES ASSUME IInv, Next, NEW q \in Items
               PROVE  shown'[q] >= shown[q]
    OBVIOUS
  <2>1. shown[q] \in Nat
    BY DEF IInv, Typed
  <2>2. ASSUME NEW i \in Streams, Send(i)
        PROVE  shown'[q] >= shown[q]
    <3>1. CASE shown'[q] = shown[q]
      BY <2>1, <3>1
    <3>2. CASE /\ es = i /\ stream[i].read[q] # 0
               /\ shown'[q] = stream[i].read[q]
      <4>1. stream[i].read[q] \in Nat
        BY DEF IInv, Typed, StreamRecord
      <4> QED
        BY <2>1, <3>2, <4>1 DEF IInv, Ahead
    <3> QED
      BY <2>2, <3>1, <3>2, SendShows
  <2>3. CASE UNCHANGED shown
    BY <2>1, <2>3
  <2> QED
    BY <2>2, <2>3
    DEF Next, Script, Stream, Ask, AskDropped, Answer, AskFails, Reconnect, Hide,
        Focus, Show, Click, Leave, Discover, Edit, Store, StoreOutdated, Stored,
        Lookup, LeaseDelete, LeaseInsert, Read, Deadline, StreamFails, Cancel, RunLate,
        DeleteSession, Expire, Restart
<1> QED
  BY Invariance, <1>1, PTL DEF Spec, ShownNeverRegresses

-----------------------------------------------------------------------------
(* Types and bounds *)

StreamOf(items) ==
  [pc : {"off", "lookup", "lease", "insert", "poll", "send"},
   qids : SUBSET items, seen : [Items -> Nat], read : [Items -> Nat]]

\* The server only holds items the page has asked for.
Wanted ==
  /\ want \in SUBSET Items
  /\ asked \in SUBSET want /\ snapshot \in SUBSET want /\ rows \in SUBSET want
  /\ late \in SUBSET Statement
  /\ \A s \in late : s.qids \subseteq want

Edited == edits \in 0 .. MaxEdits /\ fits \in SUBSET Items

Listening ==
  /\ stream \in [Streams -> StreamOf(want)]
  /\ es # NoStream => stream[es].pc # "off"

Flags ==
  /\ kind \in {"gadget", "dashboard"}
  /\ page \in {"visible", "hidden", "left"}
  /\ due \in BOOLEAN /\ subscribed \in BOOLEAN /\ bye \in BOOLEAN
  /\ changes \in 0 .. MaxChanges /\ faults \in 0 .. MaxFaults

TypeInv == Wanted /\ Edited /\ Listening /\ Flags

LEMMA TypeInvImplies == IInv /\ TypeInv => TypeOK
BY DEF TypeOK, TypeInv, IInv, Typed, Behind, Wanted, Edited, Listening, Flags,
       StreamOf

LEMMA OffBounded ==
  ASSUME NEW items
  PROVE  Off \in StreamOf(items)
  BY UnseenType DEF Off, StreamOf

LEMMA TypesEstablished == Init => TypeInv
<1> SUFFICES ASSUME Init PROVE TypeInv
  OBVIOUS
<1>1. Wanted
  BY EventStreamsAssumption DEF Init, Wanted
<1>2. Edited
  BY EventStreamsAssumption DEF Init, Edited
<1>3. Listening
  BY OffBounded DEF Init, Listening
<1>4. Flags
  <2>1. /\ kind \in {"gadget", "dashboard"} /\ page = "visible"
        /\ due = TRUE /\ subscribed = FALSE /\ bye = FALSE
        /\ changes = 0 /\ faults = 0
    BY DEF Init
  <2>2. changes \in 0 .. MaxChanges /\ faults \in 0 .. MaxFaults
    BY <2>1, EventStreamsAssumption
  <2> QED
    BY <2>1, <2>2 DEF Flags
<1> QED
  BY <1>1, <1>2, <1>3, <1>4 DEF TypeInv

\* A stream that goes to another place stays a stream of the page's items.
LEMMA MovedListening ==
  ASSUME NEW items, stream \in [Streams -> StreamOf(items)], NEW i \in Streams,
         NEW place \in {"lookup", "lease", "insert", "poll"},
         stream' = [stream EXCEPT ![i].pc = place]
  PROVE  /\ stream' \in [Streams -> StreamOf(items)]
         /\ \A j \in Streams : stream'[j].pc = IF j = i THEN place ELSE stream[j].pc
  BY DEF StreamOf

LEMMA OpenListens ==
  ASSUME Listening, NEW i \in Streams, Open(i), want' = want
  PROVE  Listening'
<1>1. /\ es' = i /\ stream' = [stream EXCEPT ![i].pc = "lookup"]
      /\ stream \in [Streams -> StreamOf(want)]
  BY DEF Open, Listening
<1>2. stream' \in [Streams -> StreamOf(want)] /\ stream'[i].pc = "lookup"
  BY <1>1, MovedListening
<1> QED
  BY <1>1, <1>2 DEF Listening, NoStream, Streams

\* A stream is turned off that the page does not listen to, or no longer.
LEMMA OffListening ==
  ASSUME Listening, NEW i \in Streams, stream' = [stream EXCEPT ![i] = Off],
         es' \in {es, NoStream}, es' # i, es \in Streams \union {NoStream},
         want' = want
  PROVE  Listening'
<1>1. stream' \in [Streams -> StreamOf(want)]
  BY OffBounded DEF Listening
<1>2. \A j \in Streams \ {i} : stream'[j] = stream[j]
  BY DEF Listening
<1> QED
  BY <1>1, <1>2 DEF Listening, NoStream


LEMMA PageTypes ==
  ASSUME IInv, TypeInv,
         \/ Script \/ AskFails
         \/ Hide \/ Focus \/ Show \/ Click \/ Leave
         \/ \E q \in Items : Discover(q)
  PROVE  TypeInv'
<1>1. Wanted'
  <2>1. UNCHANGED <<rows, late>>
    BY DEF Script, Ask, AskDropped, Answer, AskFails, Reconnect, Hide, Focus,
           Show, Click, Leave, Discover
  <2>2. /\ want' \in SUBSET Items /\ want \subseteq want'
        /\ asked' \in SUBSET want' /\ snapshot' \in SUBSET want'
    BY DEF TypeInv, Wanted, Script, Ask, AskDropped, Answer, AskFails, Reconnect,
           Hide, Focus, Show, Click, Leave, Discover
  <2> QED
    BY <2>1, <2>2 DEF TypeInv, Wanted
<1>2. Edited'
  <2>1. UNCHANGED <<edits, fits>>
    BY DEF Script, Ask, AskDropped, Answer, AskFails, Reconnect, Hide, Focus,
           Show, Click, Leave, Discover
  <2> QED
    BY <2>1 DEF TypeInv, Edited
<1>3. Listening'
  <2>1. CASE \/ Ask \/ AskDropped \/ AskFails \/ Focus \/ Show \/ Hide \/ Leave
             \/ \E q \in Items : Discover(q)
    <3>1. /\ stream' = stream /\ want \subseteq want'
          /\ es' \in {es, NoStream}
      BY <2>1 DEF Ask, AskDropped, AskFails, Focus, Show, Hide, Leave, Discover
    <3>2. StreamOf(want) \subseteq StreamOf(want')
      BY <3>1 DEF StreamOf
    <3> QED
      BY <3>1, <3>2 DEF TypeInv, Listening
  <2>2. CASE Answer \/ Reconnect \/ Click
    <3>1. want' = want
      BY <2>2 DEF Answer, Reconnect, Click
    <3>2. CASE \E i \in Streams : Open(i)
      BY <3>1, <3>2, OpenListens DEF TypeInv
    <3>3. CASE UNCHANGED <<es, stream>>
      BY <3>1, <3>3 DEF TypeInv, Listening
    <3> QED
      BY <2>2, <3>2, <3>3 DEF Answer, Reconnect, Click
  <2> QED
    BY <2>1, <2>2 DEF Script
<1>4. Flags'
  <2>1. /\ kind' = kind /\ page' \in {"visible", "hidden", "left"}
    BY DEF TypeInv, Flags, Script, Ask, AskDropped, Answer, AskFails, Reconnect,
           Hide, Focus, Show, Click, Leave, Discover
  <2>2. due' \in BOOLEAN /\ subscribed' \in BOOLEAN /\ bye' \in BOOLEAN
    BY DEF TypeInv, Flags, Script, Ask, AskDropped, Answer, AskFails, Reconnect,
           Hide, Focus, Show, Click, Leave, Discover
  <2>3. changes' \in 0 .. MaxChanges /\ faults' \in 0 .. MaxFaults
    BY EventStreamsAssumption
    DEF TypeInv, Flags, Change, Fault, Script, Ask, AskDropped, Answer, AskFails,
        Reconnect, Hide, Focus, Show, Click, Leave, Discover
  <2> QED
    BY <2>1, <2>2, <2>3 DEF TypeInv, Flags
<1> QED
  BY <1>1, <1>2, <1>3, <1>4 DEF TypeInv

\* What no step of the server changes.
LEMMA ServerTypes ==
  ASSUME IInv, TypeInv,
         UNCHANGED <<kind, want, page, subscribed, fits, edits, changes>>,
         due' \in BOOLEAN, bye' \in BOOLEAN, faults' \in 0 .. MaxFaults,
         asked' \in SUBSET want, snapshot' \in SUBSET want,
         rows' \in SUBSET want, late' \in SUBSET Statement,
         \A s \in late' : s.qids \subseteq want,
         Listening'
  PROVE  TypeInv'
<1>1. Wanted'
  BY DEF TypeInv, Wanted
<1>2. Edited'
  BY DEF TypeInv, Edited
<1>3. Flags'
  BY DEF TypeInv, Flags
<1> QED
  BY <1>1, <1>2, <1>3 DEF TypeInv

LEMMA LeaseTypes ==
  ASSUME IInv, TypeInv, NEW i \in Streams,
         Lookup(i) \/ LeaseDelete(i) \/ LeaseInsert(i)
  PROVE  TypeInv'
<1>1. /\ UNCHANGED <<kind, want, page, subscribed, fits, edits, changes, bye,
                     faults, asked, snapshot, late>>
      /\ due' \in BOOLEAN
  BY DEF Lookup, LeaseDelete, LeaseInsert, Disconnected, TypeInv, Flags
<1>2. stream \in [Streams -> StreamOf(want)] /\ es \in Streams \union {NoStream}
  BY DEF TypeInv, Listening, IInv, Typed
<1>3. rows' \in SUBSET want
  <2>1. stream[i].qids \subseteq want
    BY <1>2 DEF StreamOf
  <2> QED
    BY <2>1 DEF Lookup, LeaseDelete, LeaseInsert, TypeInv, Wanted
<1>4. Listening'
  <2>1. CASE LeaseDelete(i) \/ LeaseInsert(i)
    <3>1. PICK place \in {"insert", "poll"} :
            stream' = [stream EXCEPT ![i].pc = place]
      BY <2>1 DEF LeaseDelete, LeaseInsert
    <3>2. es' = es
      BY <2>1 DEF LeaseDelete, LeaseInsert
    <3>3. place \in {"lookup", "lease", "insert", "poll"} /\ place # "off"
      BY <3>1
    <3>4. /\ stream' \in [Streams -> StreamOf(want)]
          /\ \A j \in Streams : stream'[j].pc = IF j = i THEN place ELSE stream[j].pc
      BY <1>2, <3>1, <3>3, MovedListening
    <3>5. es # NoStream => es \in Streams /\ stream[es].pc # "off"
      BY <1>2 DEF TypeInv, Listening
    <3>6. want' = want
      BY <1>1
    <3> QED
      BY <3>2, <3>3, <3>4, <3>5, <3>6 DEF Listening
  <2>2. CASE Lookup(i) /\ snapshot = {}
    <3>1. /\ stream' = [stream EXCEPT ![i] = Off]
          /\ es' \in {es, NoStream} /\ es' # i
      BY <2>2 DEF Lookup, Disconnected, NoStream, Streams
    <3> QED
      BY <1>1, <1>2, <3>1, OffListening DEF TypeInv
  <2>3. CASE Lookup(i) /\ snapshot # {}
    <3> DEFINE r == [stream[i] EXCEPT !.pc = "lease", !.qids = snapshot]
    <3>1. es' = es /\ stream' = [stream EXCEPT ![i] = r]
      BY <1>2, <2>3 DEF Lookup
    <3>2. r \in StreamOf(want) /\ r.pc # "off"
      BY <1>2 DEF StreamOf, TypeInv, Wanted
    <3> HIDE DEF r
    <3> QED
      BY <1>1, <1>2, <3>1, <3>2 DEF Listening, TypeInv
  <2> QED
    BY <2>1, <2>2, <2>3
<1>5. /\ asked' \in SUBSET want /\ snapshot' \in SUBSET want
      /\ late' \in SUBSET Statement /\ \A s \in late' : s.qids \subseteq want
  BY <1>1 DEF TypeInv, Wanted
<1>6. due' \in BOOLEAN /\ bye' \in BOOLEAN /\ faults' \in 0 .. MaxFaults
  BY <1>1 DEF TypeInv, Flags
<1>7. UNCHANGED <<kind, want, page, subscribed, fits, edits, changes>>
  BY <1>1
<1> QED
  BY <1>3, <1>4, <1>5, <1>6, <1>7, ServerTypes

LEMMA ReadTypes ==
  ASSUME IInv, TypeInv, NEW i \in Streams, Read(i)
  PROVE  TypeInv'
<1> DEFINE got == [q \in Items |-> IF Changed(i, q) THEN row[q] ELSE 0]
           r == [stream[i] EXCEPT !.pc = "send", !.read = got]
<1>1. /\ UNCHANGED <<kind, want, page, due, subscribed, fits, edits, changes,
                     bye, faults, asked, snapshot, late, rows, es>>
      /\ stream' = [stream EXCEPT ![i] = r]
  BY DEF Read, IInv, Typed
<1>2. got \in [Items -> Nat]
  BY DEF IInv, Typed
<1> HIDE DEF got
<1>3. stream \in [Streams -> StreamOf(want)]
  BY DEF TypeInv, Listening
<1>4. r \in StreamOf(want) /\ r.pc # "off"
  BY <1>2, <1>3 DEF StreamOf
<1> HIDE DEF r
<1>5. Listening'
  BY <1>1, <1>3, <1>4 DEF Listening, TypeInv
<1> QED
  BY <1>1, <1>5, ServerTypes DEF TypeInv, Wanted, Flags

LEMMA SendTypes ==
  ASSUME IInv, TypeInv, NEW i \in Streams, Send(i)
  PROVE  TypeInv'
<1> DEFINE sent == Sent(i, stream[i].seen)
           r == IF es = i
                THEN [stream[i] EXCEPT !.pc = "poll", !.read = Unseen, !.seen = sent]
                ELSE Off
<1>1. UNCHANGED <<kind, want, page, due, subscribed, fits, edits, changes, bye,
                  faults, asked, snapshot, late, rows, es>>
  BY DEF Send
<1>2. stream \in [Streams -> StreamOf(want)]
  BY DEF TypeInv, Listening
<1>3. stream' = [stream EXCEPT ![i] = r]
  BY DEF Send
<1>4. sent \in [Items -> Nat]
  BY <1>2 DEF StreamOf, Sent
<1> HIDE DEF sent
<1>5. r \in StreamOf(want) /\ (es = i => r.pc # "off")
  BY <1>2, <1>4, UnseenType, OffBounded DEF StreamOf
<1> HIDE DEF r
<1>6. Listening'
  BY <1>1, <1>2, <1>3, <1>5 DEF Listening, TypeInv
<1> QED
  BY <1>1, <1>6, ServerTypes DEF TypeInv, Wanted, Flags

LEMMA EndTypes ==
  ASSUME IInv, TypeInv, NEW i \in Streams,
         Deadline(i) \/ StreamFails(i) \/ Cancel(i)
  PROVE  TypeInv'
<1>1. /\ UNCHANGED <<kind, want, page, subscribed, fits, edits, changes, bye,
                     asked, snapshot, rows>>
      /\ stream' = [stream EXCEPT ![i] = Off]
      /\ es' \in {es, NoStream} /\ es' # i
  BY DEF Deadline, StreamFails, Cancel, Disconnected, NoStream, Streams
<1>2. due' \in BOOLEAN
  BY DEF Deadline, StreamFails, Cancel, Disconnected, TypeInv, Flags
<1>3. Listening'
  BY <1>1, OffListening DEF TypeInv, IInv, Typed
<1>4. late' \in SUBSET Statement /\ \A s \in late' : s.qids \subseteq want
  <2>1. late \in SUBSET Statement /\ \A s \in late : s.qids \subseteq want
    BY DEF TypeInv, Wanted
  <2>2. CASE late' = late
    BY <2>1, <2>2
  <2>3. CASE late' = late \union Orphan(i)
    <3>1. stream[i].qids \subseteq want /\ want \subseteq Items
      BY DEF TypeInv, Listening, StreamOf, Wanted
    <3>2. \A s \in Orphan(i) : s \in Statement /\ s.qids \subseteq want
      <4>1. CASE stream[i].pc = "lease" /\ ~Guarded(i)
        <5>1. Orphan(i) = {[op |-> "delete", qids |-> {}]}
          BY <4>1 DEF Orphan
        <5> QED
          BY <5>1 DEF Statement
      <4>2. CASE stream[i].pc = "insert"
        <5>1. Orphan(i) = {[op |-> "insert", qids |-> stream[i].qids]}
          BY <4>2 DEF Orphan
        <5> QED
          BY <3>1, <5>1 DEF Statement
      <4>3. CASE ~(stream[i].pc = "lease" /\ ~Guarded(i)) /\ stream[i].pc # "insert"
        BY <4>3 DEF Orphan
      <4> QED
        BY <4>1, <4>2, <4>3
    <3> QED
      BY <2>1, <2>3, <3>2
  <2> QED
    BY <2>2, <2>3 DEF Deadline, StreamFails, Cancel
<1>5. faults' \in 0 .. MaxFaults
  <2>1. faults \in 0 .. MaxFaults
    BY DEF TypeInv, Flags
  <2>2. faults' = faults \/ (faults < MaxFaults /\ faults' = faults + 1)
    BY DEF Deadline, StreamFails, Cancel, Fault
  <2> QED
    BY <2>1, <2>2, EventStreamsAssumption
<1> QED
  BY <1>1, <1>2, <1>3, <1>4, <1>5, ServerTypes DEF TypeInv, Wanted, Flags

LEMMA RowsTypes ==
  ASSUME IInv, TypeInv, NEW q \in Items, Edit(q) \/ Store(q) \/ StoreOutdated(q)
  PROVE  TypeInv'
<1>1. UNCHANGED <<kind, want, page, due, subscribed, changes, bye, faults,
                  asked, snapshot, late, rows, es, stream>>
  BY DEF Edit, Store, StoreOutdated, Stored
<1>2. Edited'
  <2>1. edits' = edits \/ (edits < MaxEdits /\ edits' = edits + 1)
    BY DEF Edit, Store, StoreOutdated
  <2>2. fits' \in SUBSET Items
    BY DEF Edit, Store, StoreOutdated, TypeInv, Edited
  <2> QED
    BY <2>1, <2>2, EventStreamsAssumption DEF TypeInv, Edited
<1>3. Wanted' /\ Flags'
  BY <1>1 DEF TypeInv, Wanted, Flags
<1>4. Listening'
  BY <1>1 DEF TypeInv, Listening
<1> QED
  BY <1>2, <1>3, <1>4 DEF TypeInv

LEMMA OtherTypes ==
  ASSUME IInv, TypeInv,
         \/ \E s \in late : RunLate(s)
         \/ DeleteSession \/ Expire \/ Restart \/ UNCHANGED vars
  PROVE  TypeInv'
<1>1. UNCHANGED <<kind, want, page, subscribed, fits, edits, changes>>
  BY DEF RunLate, DeleteSession, Expire, Restart, vars
<1>2. due' \in BOOLEAN /\ bye' \in BOOLEAN
  BY DEF RunLate, DeleteSession, Expire, Restart, vars, TypeInv, Flags
<1>3. faults' \in 0 .. MaxFaults
  BY EventStreamsAssumption
  DEF Fault, RunLate, DeleteSession, Expire, Restart, vars, TypeInv, Flags
<1>4. asked' \in {asked, {}} /\ snapshot' \in {snapshot, {}} /\ late' \subseteq late
  BY DEF RunLate, DeleteSession, Expire, Restart, vars
<1>5. rows' \in SUBSET want
  BY DEF RunLate, DeleteSession, Expire, Restart, vars, TypeInv, Wanted
<1>6. Listening'
  <2>1. CASE Restart
    <3>1. es' = NoStream /\ stream' = [i \in Streams |-> Off]
      BY <2>1 DEF Restart
    <3> QED
      BY <3>1, OffBounded DEF Listening
  <2>2. CASE UNCHANGED <<es, stream>>
    BY <1>1, <2>2 DEF TypeInv, Listening
  <2> QED
    BY <2>1, <2>2 DEF RunLate, DeleteSession, Expire, vars
<1>7. asked' \in SUBSET want /\ snapshot' \in SUBSET want
  BY <1>4 DEF TypeInv, Wanted
<1>8. late' \in SUBSET Statement /\ \A s \in late' : s.qids \subseteq want
  BY <1>4 DEF TypeInv, Wanted
<1> QED
  BY <1>1, <1>2, <1>3, <1>5, <1>6, <1>7, <1>8, ServerTypes

LEMMA TypesPreserved == IInv /\ TypeInv /\ [Next]_vars => TypeInv'
<1> SUFFICES ASSUME IInv, TypeInv, [Next]_vars PROVE TypeInv'
  OBVIOUS
<1> QED
  BY PageTypes, LeaseTypes, EndTypes, ReadTypes, SendTypes, RowsTypes,
     OtherTypes
  DEF Next, Stream

\* Every variable stays within its type and bounds: the page shows no row that
\* the table has not had, and the server holds, leases and leaves to its threads
\* only items that the page has.
THEOREM TypeCorrect == Spec => []TypeOK
<1>1. Spec => [](IInv /\ TypeInv)
  BY Establishes, Preserves, TypesEstablished, TypesPreserved, PTL DEF Spec
<1> QED
  BY <1>1, TypeInvImplies, PTL
=============================================================================
