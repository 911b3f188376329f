------------------------------ MODULE Launcher ------------------------------
(***************************************************************************)
(* The four ways the command line starts other processes: `launch` keeps   *)
(* the selected units of the runtime manifest up, `run` runs them one      *)
(* after the other, `dev-workers` keeps a worker pool up, and `--reload`   *)
(* runs a worker under a parent that restarts it.  All but `run` restart   *)
(* what they started when a Python file changes.                           *)
(*                                                                         *)
(* A process is out of the launcher's reach between Popen and the          *)
(* assignment that records it.  A signal is a SIGTERM; a SIGINT does no    *)
(* worse.  An exception is that of a print whose output is gone, or of the *)
(* look at the Python files; that memory or threads run out is left out.   *)
(***************************************************************************)
EXTENDS Naturals, FiniteSetsExt

CONSTANT Manifest  \* the units, in order: records of groups and mode

ASSUME LauncherAssumption ==
  DOMAIN Manifest # {} /\ DOMAIN Manifest \subseteq Nat \ {0}

VARIABLES
  program,   \* the command that runs
  units,     \* positions in the manifest of the units it starts
  phase,
  child,     \* what the launcher knows of each unit's process
  fresh,     \* the unit whose process was just started, 0 for none
  stray,     \* units whose process outlives its launcher
  handlers,  \* whether signal handlers are installed
  guarded,   \* whether a `finally` stops the processes
  stop,      \* launch_units: stop_event
  exposed    \* a signal or an exception came when nothing stops a process

launcherVars ==
  <<program, units, phase, child, fresh, stray, handlers, guarded, stop,
    exposed>>

Units == DOMAIN Manifest
Programs == {"launch", "run", "dev-workers", "reload"}

LauncherTypeOK ==
  /\ program \in Programs \union {""}
  /\ units \subseteq Units
  /\ phase \in {"off", "starting", "watching", "restarting", "stopping",
                "ended"}
  /\ child \in [Units -> {"none", "up", "down"}]
  /\ fresh \in units \union {0}
  /\ stray \subseteq units
  /\ handlers \in BOOLEAN /\ guarded \in BOOLEAN
  /\ stop \in BOOLEAN /\ exposed \in BOOLEAN

LauncherInit ==
  /\ program = ""
  /\ units = {}
  /\ phase = "off"
  /\ child = [u \in Units |-> "none"]
  /\ fresh = 0
  /\ stray = {}
  /\ handlers = FALSE /\ guarded = FALSE /\ stop = FALSE /\ exposed = FALSE

Up == {u \in Units : child[u] = "up"}

-----------------------------------------------------------------------------
(* Starting *)

\* select_units: by name or by group, the default groups without either.
Selected(names, groups, default) ==
  LET wanted == IF names = {} /\ groups = {} THEN {default} ELSE groups
  IN {u \in Units : u \in names \/ Manifest[u].groups \intersect wanted # {}}

\* launch_units refuses a unit that is not continuous.
Accepted(p, selection) ==
  /\ selection # {}
  /\ p = "launch" => \A u \in selection : Manifest[u].mode = "continuous"

StartUnits(p, names, groups) ==
  LET selection == Selected(names, groups,
                            IF p = "launch" THEN "dev" ELSE "maintenance")
  IN /\ phase = "off"
     /\ Accepted(p, selection)
     /\ program' = p /\ units' = selection
     /\ phase' = "starting"
     /\ handlers' = (p = "launch") /\ guarded' = (p = "launch")
     /\ UNCHANGED <<child, fresh, stray, stop, exposed>>

StartWorker(p, u) ==
  /\ phase = "off"
  /\ program' = p /\ units' = {u}
  /\ phase' = "starting"
  /\ UNCHANGED <<child, fresh, stray, handlers, guarded, stop, exposed>>

Unstarted == {u \in units : child[u] = "none"}

\* run_units starts a unit when the one before it has succeeded.
Spawn ==
  /\ phase = "starting" /\ fresh = 0 /\ Unstarted # {}
  /\ program = "run" => Up = {}
  /\ fresh' = Min(Unstarted)
  /\ UNCHANGED <<program, units, phase, child, stray, handlers, guarded, stop,
                 exposed>>

\* Popen raises, or the print before it.  launch_units stops what it has
\* started; the others have no process at this point.
SpawnFails ==
  /\ phase = "starting" /\ fresh = 0 /\ Unstarted # {}
  /\ program = "run" => Up = {}
  /\ phase' = IF program = "launch" THEN "stopping" ELSE "ended"
  /\ UNCHANGED <<program, units, child, fresh, stray, handlers, guarded, stop,
                 exposed>>

\* When its output is gone, launch_units starts no further unit and stops.
RecordProcess(outputGone) ==
  /\ fresh # 0
  /\ outputGone => program = "launch"
  /\ child' = [child EXCEPT ![fresh] = "up"]
  /\ fresh' = 0
  /\ phase' = IF Unstarted = {fresh} \/ outputGone THEN "watching" ELSE phase
  /\ stop' = (stop \/ outputGone)
  /\ handlers' = (handlers \/ program = "dev-workers")
  /\ guarded' = (guarded \/ program = "reload")
  /\ UNCHANGED <<program, units, stray, exposed>>

-----------------------------------------------------------------------------
(* Watching *)

\* The launcher is gone and its processes go on.
Abandon ==
  /\ phase' = "ended"
  /\ stray' = Up \union ({fresh} \ {0})
  /\ exposed' = TRUE
  /\ fresh' = 0
  /\ child' = [u \in Units |-> "none"]

\* A process ends by itself, by a failure or because its work is done.
ProcessEnds(u) ==
  /\ u \in Up
  /\ child' = [child EXCEPT ![u] = "down"]
  /\ UNCHANGED <<program, units, phase, fresh, stray, handlers, guarded, stop,
                 exposed>>

\* launch_units stops everything when one unit has ended; the parents of
\* workers start theirs again.
SeeProcessEnded ==
  /\ phase = "watching" /\ ~stop /\ program # "run"
  /\ \E u \in units : child[u] = "down"
  /\ phase' = IF program = "launch" THEN "stopping" ELSE "restarting"
  /\ stop' = (program = "launch")
  /\ UNCHANGED <<program, units, child, fresh, stray, handlers, guarded,
                 exposed>>

\* run_units goes on after a success, and fails with a unit.
UnitEnded(succeeded) ==
  /\ program = "run" /\ phase \in {"starting", "watching"}
  /\ fresh = 0 /\ Up = {} /\ \E u \in units : child[u] = "down"
  /\ ~succeeded \/ Unstarted = {}
  /\ phase' = "ended"
  /\ UNCHANGED <<program, units, child, fresh, stray, handlers, guarded, stop,
                 exposed>>

SeeFilesChanged ==
  /\ phase = "watching" /\ ~stop /\ program # "run"
  /\ phase' = "restarting"
  /\ UNCHANGED <<program, units, child, fresh, stray, handlers, guarded, stop,
                 exposed>>

\* The output is gone, or the files cannot be listed: launch_units and the loop
\* of _run_with_reload stop what runs, run_dev_workers just ends, and so does
\* _run_with_reload before its loop.  Both look at the files before they have
\* installed anything.
ExceptionEnds ==
  /\ \/ phase = "watching" /\ ~stop /\ program # "run"
     \/ /\ program \in {"dev-workers", "reload"} /\ fresh # 0
        /\ ~handlers /\ ~guarded
  /\ IF guarded
     THEN phase' = "stopping" /\ UNCHANGED <<child, fresh, stray, exposed>>
     ELSE Abandon
  /\ UNCHANGED <<program, units, handlers, guarded, stop>>

SeeStop ==
  /\ phase = "watching" /\ stop
  /\ phase' = "stopping"
  /\ UNCHANGED <<program, units, child, fresh, stray, handlers, guarded, stop,
                 exposed>>

-----------------------------------------------------------------------------
(* Stopping *)

\* SIGTERM, and a kill five seconds later if that was not enough.
StopProcess(u) ==
  /\ phase \in {"restarting", "stopping"}
  /\ u \in Up
  /\ child' = [child EXCEPT ![u] = "down"]
  /\ UNCHANGED <<program, units, phase, fresh, stray, handlers, guarded, stop,
                 exposed>>

AllStopped ==
  /\ phase \in {"restarting", "stopping"} /\ Up = {}
  /\ phase' = IF phase = "restarting" THEN "starting" ELSE "ended"
  /\ child' = [u \in Units |-> "none"]
  /\ UNCHANGED <<program, units, fresh, stray, handlers, guarded, stop,
                 exposed>>

\* A handler that stops what is recorded and exits.
ExitAtOnce ==
  /\ phase' = "stopping"
  /\ stray' = stray \union ({fresh} \ {0})
  /\ fresh' = 0
  /\ UNCHANGED <<child, stop, exposed>>

SetStopEvent ==
  /\ stop' = TRUE
  /\ UNCHANGED <<phase, child, fresh, stray, exposed>>

\* What the handler of launch_units does.
HandleLaunchSignal == SetStopEvent

\* run_dev_workers: stop_all knows the recorded processes only.
HandleWorkersSignal ==
  /\ phase' = "stopping"
  /\ stray' = stray \union ({fresh} \ {0})
  /\ exposed' = (exposed \/ fresh # 0)
  /\ fresh' = 0
  /\ UNCHANGED <<child, stop>>

\* Without a handler.
DieOfSignal == Abandon /\ UNCHANGED stop

Signalled ==
  /\ phase \notin {"off", "ended"} /\ ~stop
  /\ \/ handlers /\ program = "launch" /\ HandleLaunchSignal
     \/ handlers /\ program = "dev-workers" /\ HandleWorkersSignal
     \/ ~handlers /\ DieOfSignal
  /\ UNCHANGED <<program, units, handlers, guarded>>

LauncherNext ==
  \/ \E p \in {"launch", "run"}, names \in SUBSET Units,
       groups \in SUBSET UNION {Manifest[u].groups : u \in Units} :
         StartUnits(p, names, groups)
  \/ \E p \in {"dev-workers", "reload"}, u \in Units : StartWorker(p, u)
  \/ Spawn \/ SpawnFails \/ SeeProcessEnded \/ SeeFilesChanged
  \/ ExceptionEnds \/ SeeStop \/ AllStopped \/ Signalled
  \/ \E b \in BOOLEAN : RecordProcess(b) \/ UnitEnded(b)
  \/ \E u \in Units : ProcessEnds(u) \/ StopProcess(u)

-----------------------------------------------------------------------------
(* Properties *)

\* A launcher that has ended has left no process behind, whatever ended it and
\* whenever: a unit that ended, a failed start, lost output, files it could not
\* list, or a signal.  The launchers other than `launch` may leave one behind,
\* but only when a signal came before a handler was installed or a process
\* recorded, or an exception where no `finally` stops the processes: at any
\* time in `dev-workers`, before the loop in `--reload`.
NoOrphans ==
  /\ phase = "ended" /\ ~exposed => stray = {} /\ Up = {}
  /\ program = "launch" => ~exposed

LauncherSpec == LauncherInit /\ [][LauncherNext]_launcherVars
=============================================================================
