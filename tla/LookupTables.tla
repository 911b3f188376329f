---------------------------- MODULE LookupTables ----------------------------
(***************************************************************************)
(* The lookup tables copied from elsewhere: usage of items in Commons      *)
(* (sdc_usage, from a dump), on OpenStreetMap (osm_usage, page by page),   *)
(* the namespaces of the wikis (one request per site) and the properties of *)
(* some classes (one query per class).  Each has a job that reads the      *)
(* source part by part and then replaces the whole table; the long-running *)
(* processes keep a snapshot of namespaces and properties in memory.       *)
(*                                                                         *)
(* The four jobs share nothing, so `kind` chooses the one a behaviour is   *)
(* about.  A part of a table is the set of what was read of it: each the   *)
(* version of the source and the download of the run that it came from.    *)
(* It is {} when the part is missing, and a part that was counted twice    *)
(* holds two, of the same version or not.                                  *)
(***************************************************************************)
EXTENDS Naturals, FiniteSetsExt

CONSTANTS
  LastPart,       \* parts of a source: 1..LastPart
  LastVersion,    \* bound: versions of a part
  MaxAttempts,    \* downloads of the dump in one run (6 in the code)
  MaxFaults,      \* bound: failures of the sources and of the jobs
  NoSnapshot      \* nothing loaded

ASSUME LookupAssumption ==
  /\ LastPart \in Nat \ {0} /\ LastVersion \in Nat \ {0}
  /\ MaxAttempts \in Nat \ {0} /\ MaxFaults \in Nat

VARIABLES
  kind,      \* the table; never changes
  source,    \* version of each part (external)
  table,
  stamp,     \* sdc_dump_last_modified: the version it names, 0 for none
  build,     \* a run of the job
  snapshot,  \* the snapshot a reader keeps (LookupCache)
  faults

lookupVars == <<kind, source, table, stamp, build, snapshot, faults>>

Kinds == {"sdc", "osm", "namespaces", "properties"}
Parts == 1..LastPart
Versions == 1..LastVersion
Counts == Versions \X (1..MaxAttempts)
Table == [Parts -> SUBSET Counts]
Missing == [p \in Parts |-> {}]

\* `headed` is the version the HEAD request announced, 0 for no Last-Modified;
\* `file` the one the download is of.
NoBuild == [pc |-> "off", headed |-> 0, file |-> 0, attempt |-> 0, left |-> {},
            staged |-> Missing]

LookupTypeOK ==
  /\ kind \in Kinds
  /\ source \in [Parts -> Versions]
  /\ table \in Table
  /\ stamp \in 0..LastVersion
  /\ build \in [pc : {"off", "read", "swap", "stamp"}, headed : 0..LastVersion,
                file : 0..LastVersion, attempt : 0..MaxAttempts,
                left : SUBSET Parts, staged : Table]
  /\ snapshot \in Table \union {NoSnapshot}
  /\ faults \in 0..MaxFaults

LookupInit ==
  /\ kind \in Kinds
  /\ source = [p \in Parts |-> 1]
  /\ table = Missing
  /\ stamp = 0
  /\ build = NoBuild
  /\ snapshot = NoSnapshot
  /\ faults = 0

\* A dump is published as a whole; the other sources change in places.
Publish ==
  /\ \A p \in Parts : source[p] < LastVersion
  /\ kind = "sdc"
  /\ source' = [p \in Parts |-> source[p] + 1]
  /\ UNCHANGED <<kind, table, stamp, build, snapshot, faults>>

Revise(p) ==
  /\ kind # "sdc"
  /\ source[p] < LastVersion
  /\ source' = [source EXCEPT ![p] = @ + 1]
  /\ UNCHANGED <<kind, table, stamp, build, snapshot, faults>>

-----------------------------------------------------------------------------
(* A run of the job *)

Reading(headed) ==
  [pc |-> "read", headed |-> headed,
   file |-> IF kind = "sdc" THEN source[1] ELSE 0, attempt |-> 1,
   left |-> Parts, staged |-> Missing]

\* The dump is skipped when its Last-Modified is the stamp.
StartSdc ==
  /\ kind = "sdc" /\ build.pc = "off"
  /\ source[1] # stamp
  /\ build' = Reading(source[1])
  /\ UNCHANGED <<kind, source, table, stamp, snapshot, faults>>

\* Without a Last-Modified the dump is always read, and the stamp kept.
StartSdcUndated ==
  /\ kind = "sdc" /\ build.pc = "off" /\ faults < MaxFaults
  /\ faults' = faults + 1
  /\ build' = Reading(0)
  /\ UNCHANGED <<kind, source, table, stamp, snapshot>>

StartOsm ==
  /\ kind = "osm" /\ build.pc = "off"
  /\ build' = Reading(0)
  /\ UNCHANGED <<kind, source, table, stamp, snapshot, faults>>

StartNamespaces ==
  /\ kind = "namespaces" /\ build.pc = "off"
  /\ build' = Reading(0)
  /\ UNCHANGED <<kind, source, table, stamp, snapshot, faults>>

StartProperties ==
  /\ kind = "properties" /\ build.pc = "off"
  /\ build' = Reading(0)
  /\ UNCHANGED <<kind, source, table, stamp, snapshot, faults>>

Stage(p, counts) ==
  build' = [build EXCEPT !.staged[p] = counts, !.left = @ \ {p},
                         !.pc = IF build.left = {p} THEN "swap" ELSE "read"]

\* Counts are added to what is staged, also to what a failed attempt left.
CountChunk(p) ==
  /\ kind = "sdc" /\ build.pc = "read" /\ p = Min(build.left)
  /\ Stage(p, build.staged[p] \union {<<build.file, build.attempt>>})
  /\ UNCHANGED <<kind, source, table, stamp, snapshot, faults>>

FetchPage(p) ==
  /\ kind = "osm" /\ build.pc = "read" /\ p = Min(build.left)
  /\ Stage(p, {<<source[p], 1>>})
  /\ UNCHANGED <<kind, source, table, stamp, snapshot, faults>>

\* Sites are asked concurrently.  (A site that fails may be taken from a JSON file
\* given to the job, which the repository does not have; here the run then fails.)
FetchSite(p) ==
  /\ kind = "namespaces" /\ build.pc = "read" /\ p \in build.left
  /\ Stage(p, {<<source[p], 1>>})
  /\ UNCHANGED <<kind, source, table, stamp, snapshot, faults>>

FetchClass(p) ==
  /\ kind = "properties" /\ build.pc = "read" /\ p = Min(build.left)
  /\ Stage(p, {<<source[p], 1>>})
  /\ UNCHANGED <<kind, source, table, stamp, snapshot, faults>>

\* The download breaks off and begins again, of whatever the dump is by then;
\* the chunks already staged stay, and are counted a second time.
RetryDownload ==
  /\ kind = "sdc" /\ build.pc = "read"
  /\ build.attempt < MaxAttempts /\ faults < MaxFaults
  /\ faults' = faults + 1
  /\ build' = [build EXCEPT !.attempt = @ + 1, !.left = Parts,
                            !.file = source[1]]
  /\ UNCHANGED <<kind, source, table, stamp, snapshot>>

\* A page without rows, or one the builder cannot read, counts as the end.
EndScan ==
  /\ kind = "osm" /\ build.pc = "read" /\ faults < MaxFaults
  /\ faults' = faults + 1
  /\ build' = [build EXCEPT !.pc = "swap", !.left = {}]
  /\ UNCHANGED <<kind, source, table, stamp, snapshot>>

\* Each swap is one transaction: DELETE, INSERT from the staged rows, COMMIT.
Replace(next) ==
  /\ build.pc = "swap"
  /\ table' = build.staged
  /\ build' = next
  /\ UNCHANGED <<kind, source, stamp, snapshot, faults>>

SwapSdc ==
  /\ kind = "sdc"
  /\ Replace(IF build.headed = 0 THEN NoBuild
             ELSE [NoBuild EXCEPT !.pc = "stamp", !.headed = build.headed])

SwapOsm == kind = "osm" /\ Replace(NoBuild)

\* Any site that failed keeps the whole table from being written.
SwapNamespacesFetched ==
  /\ kind = "namespaces" /\ build.pc \in {"read", "swap"}
  /\ table' = build.staged
  /\ build' = NoBuild
  /\ UNCHANGED <<kind, source, stamp, snapshot, faults>>

SwapNamespaces == kind = "namespaces" /\ Replace(NoBuild)

SwapProperties == kind = "properties" /\ Replace(NoBuild)

StampNewest ==
  /\ build.pc = "stamp"
  /\ stamp' = source[1]
  /\ build' = NoBuild
  /\ UNCHANGED <<kind, source, table, snapshot, faults>>

StampDump ==
  /\ build.pc = "stamp"
  /\ stamp' = build.headed
  /\ build' = NoBuild
  /\ UNCHANGED <<kind, source, table, snapshot, faults>>

\* A request that fails for good, a duplicate row, a lost connection or the
\* end of the process: the run ends, and what it had staged is gone.
GiveUp ==
  /\ build.pc # "off" /\ faults < MaxFaults
  /\ faults' = faults + 1
  /\ build' = NoBuild
  /\ UNCHANGED <<kind, source, table, stamp, snapshot>>

-----------------------------------------------------------------------------
(* A reader *)

Cached == kind \in {"namespaces", "properties"}

\* The first lookup loads the tables; state_token() is always None, so no
\* later lookup finds them changed.
LoadSnapshot ==
  /\ Cached /\ snapshot = NoSnapshot
  /\ snapshot' = table
  /\ UNCHANGED <<kind, source, table, stamp, build, faults>>

\* Only a site the snapshot does not know has it loaded again.
LookUpSite(p) ==
  /\ kind = "namespaces" /\ snapshot # NoSnapshot
  /\ snapshot[p] = {}
  /\ snapshot' = table
  /\ UNCHANGED <<kind, source, table, stamp, build, faults>>

RestartReader ==
  /\ snapshot' = NoSnapshot
  /\ UNCHANGED <<kind, source, table, stamp, build, faults>>

LookupNext ==
  \/ Publish
  \/ StartSdc \/ StartSdcUndated
  \/ StartOsm \/ StartNamespaces \/ StartProperties
  \/ \E p \in Parts :
       \/ Revise(p) \/ CountChunk(p) \/ FetchPage(p) \/ FetchSite(p)
       \/ FetchClass(p) \/ LookUpSite(p)
  \/ RetryDownload \/ EndScan
  \/ SwapSdc \/ SwapOsm \/ SwapNamespaces \/ SwapProperties \/ StampDump
  \/ GiveUp \/ LoadSnapshot \/ RestartReader

-----------------------------------------------------------------------------
(* Properties *)

\* The table holds every part of the source as it is, and nothing else: counted
\* by the d-th download, which came through, and perhaps again by those before
\* it, which had broken off; once if the first came through.
IsCopy ==
  \E d \in 1..MaxAttempts : \A p \in Parts :
    /\ <<source[p], d>> \in table[p]
    /\ table[p] \subseteq {source[p]} \X (1..d)

\* The stamp, which makes the job skip a dump, is only that of the current
\* dump when the table holds that dump and no other: not after a dump published
\* between HEAD and GET, a download that began again on the next dump, or a
\* run that ended between swap and stamp.  After a download that began again on
\* the same dump it holds some of the counts more than once.
StampedIsCurrent == kind = "sdc" /\ stamp = source[1] => IsCopy

Whole(t) == (\A p \in Parts : t[p] = {}) \/ (\A p \in Parts : t[p] # {})

\* Neither the table nor a reader's snapshot ever holds some parts of a source
\* and lacks others, however runs fail; except that a scan of OpenStreetMap
\* which ends early replaces the table by what it has.
NeverPartial ==
  kind # "osm" =>
    /\ Whole(table)
    /\ snapshot # NoSnapshot => Whole(snapshot)

\* When the source rests, the table becomes a copy of it, but for what broken
\* downloads of the dump counted twice: the stamp keeps that as it is.
TableCurrent == IsCopy

LookupSpec == LookupInit /\ [][LookupNext]_lookupVars
=============================================================================
