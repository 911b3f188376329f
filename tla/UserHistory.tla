---------------------------- MODULE UserHistory ----------------------------
(***************************************************************************)
(* Requests for the creations of a user (wd_notability/user_history.py and *)
(* run_user_creation_backfill in metadata/write.py).                       *)
(*                                                                         *)
(* The web server and the recent-changes worker share one row of the       *)
(* user_history table: a request reads the row, widens its window and      *)
(* writes it back; the worker lists the row, writes it back as started,    *)
(* fetches the user's creations of that window, stores them, and writes    *)
(* the row back as finished.  Every one of these is a call of its own, and *)
(* every write replaces the whole row by what its caller read earlier.     *)
(*                                                                         *)
(* requested_at has microseconds, finished_at whole seconds; a window is   *)
(* an interval of Days.  One user is followed.                             *)
(***************************************************************************)
EXTENDS Naturals, FiniteSets

CONSTANTS
  Clients,         \* requests that may be under way at once
  Days,            \* bound: windows are intervals of 1..Days
  TicksPerSecond,
  LastTick,         \* bound: no request arrives after this tick
  NoRow

VARIABLES
  tick,
  hist,     \* the row of the user, or NoRow
  stored,   \* days whose creations are in recent_changes_cache
  asked,    \* the window each client asks for, NoRow when it asks nothing
  got,      \* the row it read
  cpc,
  rec,      \* the record the worker listed
  wpc,
  queued,   \* days of windows accepted and not yet backfilled (not stored
            \* by the code)
  lost      \* a write has replaced a row other than the one its writer knew
            \* (not stored by the code)

historyVars == <<tick, hist, stored, asked, got, cpc, rec, wpc, queued, lost>>

Windows == {w \in [lo : 1..Days, hi : 1..Days] : w.lo <= w.hi}

DaysOf(w) == w.lo..w.hi

Record == [lo : 1..Days, hi : 1..Days, requested : Nat, finished : Nat,
           error : BOOLEAN]

Questions == [lo : 1..Days, hi : 1..Days, force : BOOLEAN]

ASSUME HistoryAssumption ==
  /\ Days \in Nat \ {0}
  /\ TicksPerSecond \in Nat \ {0}
  /\ LastTick \in Nat
  /\ NoRow \notin Record \union Questions

HistoryTypeOK ==
  /\ tick \in Nat \ {0}
  /\ hist \in Record \union {NoRow}
  /\ stored \subseteq 1..Days
  /\ asked \in [Clients -> Questions \union {NoRow}]
  /\ got \in [Clients -> Record \union {NoRow}]
  /\ cpc \in [Clients -> {"idle", "read", "write"}]
  /\ rec \in Record \union {NoRow}
  /\ wpc \in {"list", "start", "fetch", "store", "finish", "fail"}
  /\ queued \subseteq 1..Days
  /\ lost \in BOOLEAN

HistoryInit ==
  /\ tick = TicksPerSecond
  /\ hist = NoRow /\ stored = {}
  /\ asked = [c \in Clients |-> NoRow]
  /\ got = [c \in Clients |-> NoRow]
  /\ cpc = [c \in Clients |-> "idle"]
  /\ rec = NoRow /\ wpc = "list"
  /\ queued = {} /\ lost = FALSE

Second(t) == (t \div TicksPerSecond) * TicksPerSecond

Smaller(a, b) == IF a < b THEN a ELSE b
Larger(a, b) == IF a < b THEN b ELSE a

HistoryTick ==
  /\ tick < LastTick /\ tick' = tick + 1
  /\ UNCHANGED <<hist, stored, asked, got, cpc, rec, wpc, queued, lost>>

\* The row is written by one who last saw it as `known`.
Replaces(known) == lost' = (lost \/ hist # known)

-----------------------------------------------------------------------------
(* A request: request_user_history *)

Ask(c, w, force) ==
  /\ tick < LastTick
  /\ cpc[c] = "idle"
  /\ asked' = [asked EXCEPT ![c] = [lo |-> w.lo, hi |-> w.hi, force |-> force]]
  /\ cpc' = [cpc EXCEPT ![c] = "read"]
  /\ UNCHANGED <<tick, hist, stored, got, rec, wpc, queued, lost>>

\* A finished row covers the window, whether it succeeded or failed.
Covers(r, w) ==
  /\ r.finished # 0
  /\ r.lo <= w.lo /\ w.hi <= r.hi

\* Answered from the row, or about to be queued.
Read(c) ==
  /\ cpc[c] = "read"
  /\ IF hist # NoRow /\ ~asked[c].force /\ Covers(hist, asked[c])
     THEN /\ cpc' = [cpc EXCEPT ![c] = "idle"]
          /\ asked' = [asked EXCEPT ![c] = NoRow]
          /\ UNCHANGED got
     ELSE /\ cpc' = [cpc EXCEPT ![c] = "write"]
          /\ got' = [got EXCEPT ![c] = hist]
          /\ UNCHANGED asked
  /\ UNCHANGED <<tick, hist, stored, rec, wpc, queued, lost>>

AskedOnly(w, r) == [lo |-> w.lo, hi |-> w.hi]

\* The window is the hull of the asked one and of the one read.
Widened(w, r) ==
  [lo |-> IF r = NoRow THEN w.lo ELSE Smaller(w.lo, r.lo),
   hi |-> IF r = NoRow THEN w.hi ELSE Larger(w.hi, r.hi)]

Write(c) ==
  /\ cpc[c] = "write"
  /\ LET w == Widened(asked[c], got[c]) IN
       hist' = [lo |-> w.lo, hi |-> w.hi, requested |-> tick, finished |-> 0,
                error |-> FALSE]
  /\ queued' = queued \union DaysOf(asked[c])
  /\ tick' = tick + 1
  /\ cpc' = [cpc EXCEPT ![c] = "idle"]
  /\ asked' = [asked EXCEPT ![c] = NoRow]
  /\ got' = [got EXCEPT ![c] = NoRow]
  /\ Replaces(got[c])
  /\ UNCHANGED <<stored, rec, wpc>>

\* The call fails, or the server stops.
GiveUp(c) ==
  /\ cpc[c] # "idle"
  /\ cpc' = [cpc EXCEPT ![c] = "idle"]
  /\ asked' = [asked EXCEPT ![c] = NoRow]
  /\ got' = [got EXCEPT ![c] = NoRow]
  /\ UNCHANGED <<tick, hist, stored, rec, wpc, queued, lost>>

-----------------------------------------------------------------------------
(* The worker: run_user_creation_backfill *)

Pending(r) == r.finished = 0 \/ r.requested > r.finished

Idle == wpc' = "list" /\ rec' = NoRow

List ==
  /\ wpc = "list"
  /\ hist # NoRow /\ Pending(hist)
  /\ rec' = hist
  /\ wpc' = "start"
  /\ UNCHANGED <<tick, hist, stored, asked, got, cpc, queued, lost>>

StartedRow == [rec EXCEPT !.finished = 0, !.error = FALSE]

Start ==
  /\ wpc = "start"
  /\ hist' = StartedRow
  /\ Replaces(rec)
  /\ wpc' = "fetch"
  /\ UNCHANGED <<tick, stored, asked, got, cpc, rec, queued>>

\* The replica answers, in a thread.
FetchCreations ==
  /\ wpc = "fetch"
  /\ wpc' = "store"
  /\ UNCHANGED <<tick, hist, stored, asked, got, cpc, rec, queued, lost>>

StoreNothing == UNCHANGED stored
StoreWindow == stored' = stored \union DaysOf(rec)

Store ==
  /\ wpc = "store"
  /\ StoreWindow
  /\ queued' = queued \ DaysOf(rec)
  /\ wpc' = "finish"
  /\ UNCHANGED <<tick, hist, asked, got, cpc, rec, lost>>

Finish ==
  /\ wpc = "finish"
  /\ hist' = [rec EXCEPT !.finished = Second(tick), !.error = FALSE]
  /\ Replaces(StartedRow)
  /\ Idle
  /\ UNCHANGED <<tick, stored, asked, got, cpc, queued>>

\* Any of the calls above raises; some of the creations may be stored.
Raise ==
  /\ wpc \in {"start", "fetch", "store", "finish"}
  /\ wpc' = "fail"
  /\ UNCHANGED <<tick, hist, stored, asked, got, cpc, rec, queued, lost>>

\* The error is recorded as the end of the job; when that fails too, the row
\* stays as it is.
RecordError ==
  /\ wpc = "fail"
  /\ \/ /\ hist' = [rec EXCEPT !.finished = Second(tick), !.error = TRUE]
        /\ lost' = (lost \/ hist \notin {rec, StartedRow})
     \/ UNCHANGED <<hist, lost>>
  /\ Idle
  /\ UNCHANGED <<tick, stored, asked, got, cpc, queued>>

WorkerDies ==
  /\ wpc # "list"
  /\ Idle
  /\ UNCHANGED <<tick, hist, stored, asked, got, cpc, queued, lost>>

\* clear_user_history
Clear ==
  /\ hist # NoRow
  /\ hist' = NoRow /\ queued' = {}
  /\ UNCHANGED <<tick, stored, asked, got, cpc, rec, wpc, lost>>

Backfill == List \/ Start \/ FetchCreations \/ Store \/ Finish \/ RecordError

Request(c) == Read(c) \/ Write(c)

HistoryNext ==
  \/ HistoryTick \/ Clear
  \/ \E c \in Clients :
       \/ \E w \in Windows, force \in BOOLEAN : Ask(c, w, force)
       \/ Request(c) \/ GiveUp(c)
  \/ Backfill \/ Raise \/ WorkerDies

HistorySpec == HistoryInit /\ [][HistoryNext]_historyVars

(***************************************************************************)
(* Fairness: requests end, the worker goes on, time passes, and a job that *)
(* is run again and again gets to its end.                                 *)
(***************************************************************************)
FairHistorySpec ==
  /\ HistorySpec
  /\ WF_historyVars(HistoryTick) /\ WF_historyVars(Backfill)
  /\ \A c \in Clients : WF_historyVars(Request(c) \/ GiveUp(c))
  /\ SF_historyVars(Start) /\ SF_historyVars(FetchCreations)
  /\ SF_historyVars(Store) /\ SF_historyVars(Finish)

-----------------------------------------------------------------------------
(* Properties *)

\* A row that says finished without an error has its whole window's creations
\* stored, however requests and jobs interleave and whatever fails: a request
\* answered from the row is answered truthfully.
FinishedBacked ==
  hist # NoRow /\ hist.finished # 0 /\ ~hist.error => DaysOf(hist) \subseteq stored

\* Every accepted request is backfilled, or the failure of its job recorded,
\* as long as nobody has written over a row he had not seen.
RequestsServedUnlessLost ==
  \A d \in 1..Days :
    d \in queued ~> d \notin queued \/ (hist # NoRow /\ hist.error) \/ lost
=============================================================================
