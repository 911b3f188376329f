----------------------------- MODULE LogCopier -----------------------------
(***************************************************************************)
(* What a monitor that copies a log promises, whatever it reads, saves and *)
(* repeats to keep the promise: entries are only ever added to the copy,   *)
(* and the monitor puts an entry behind it, so that it may never look at   *)
(* it again, only if the entry is copied, of no use, or excused.  Only     *)
(* entries that have aged may be excused, when the monitor starts without  *)
(* knowing where it was; and it may forget where it was at any time.       *)
(***************************************************************************)
CONSTANTS
  Entries,
  Useless    \* entries that need no copy

VARIABLES
  log,       \* entries so far
  aged,      \* those of them that are a day old
  copied,    \* the copy
  behind,    \* the entries the monitor has put behind it
  excused    \* the entries a start has passed over

copierVars == <<log, aged, copied, behind, excused>>

CopierInit ==
  log = {} /\ aged = {} /\ copied = {} /\ behind = {} /\ excused = {}

Append(e) ==
  /\ e \in Entries \ log
  /\ log' = log \union {e}
  /\ UNCHANGED <<aged, copied, behind, excused>>

Age(S) ==
  /\ aged \subseteq S /\ S \subseteq log
  /\ aged' = S
  /\ UNCHANGED <<log, copied, behind, excused>>

Copy(S) ==
  /\ S \subseteq log \ Useless
  /\ copied' = copied \union S
  /\ UNCHANGED <<log, aged, behind, excused>>

PutBehind(S) ==
  /\ S \subseteq log /\ S \subseteq copied \union Useless \union excused
  /\ behind' = S
  /\ UNCHANGED <<log, aged, copied, excused>>

StartBehind(S) ==
  /\ S \subseteq aged
  /\ behind' = S
  /\ excused' = excused \union S
  /\ UNCHANGED <<log, aged, copied>>

CopierNext ==
  \/ \E e \in Entries : Append(e)
  \/ \E S \in SUBSET Entries :
       Age(S) \/ Copy(S) \/ PutBehind(S) \/ StartBehind(S)

CopierSpec == CopierInit /\ [][CopierNext]_copierVars

\* What follows: whatever is behind the monitor was copied, is of no use, or had
\* aged when a start passed over it.
NothingMissed ==
  /\ excused \subseteq aged /\ aged \subseteq log
  /\ behind \subseteq copied \union Useless \union excused
=============================================================================
