------------------------------- MODULE Daemon -------------------------------
(***************************************************************************)
(* daemon.mjs: a hermesmqd of its own for a smoke test.  startDaemon makes *)
(* a data directory, starts the process and waits until something answers  *)
(* at its address; stop kills the process and removes the directory.  The  *)
(* operating system, the process and node's events are external.           *)
(***************************************************************************)
EXTENDS Naturals

CONSTANTS
    Faults,    \* the kinds of trouble a run allows
    MaxFaults  \* bound on the trouble of a behaviour

ASSUME DaemonAssumption == MaxFaults \in Nat

VARIABLES
    startup,   \* "none": the test has no daemon of its own; "test" of the loop
               \* of waitReachable, "connect", "sleep"; "up"; "failed": it throws;
               \* "crashed": the node process has ended on an event nobody handles
    late,      \* the deadline of waitReachable has passed
    stopping,  \* "no"; "waiting": stop waits for the exit event; "stopped"
    child,     \* "missing": there is no such program; "booting", "serving";
               \* "exited" with a code or "killed" by a signal
    exitSeen,  \* the exit event has been emitted, daemon.exitCode is set
    occupied,  \* another process listens at clientAddr
    dataDir,   \* the data directory exists
    faults

daemonVars == <<startup, late, stopping, child, exitSeen, occupied, dataDir>>

Gone == {"exited", "killed"}

DaemonTypeOK ==
    /\ startup \in {"none", "test", "connect", "sleep", "up", "failed", "crashed"}
    /\ stopping \in {"no", "waiting", "stopped"}
    /\ child \in {"missing", "booting", "serving"} \cup Gone
    /\ exitSeen => child \in Gone
    /\ stopping = "stopped" => ~dataDir
    /\ startup = "none" => child = "missing" /\ ~dataDir
    /\ faults \in 0 .. MaxFaults

(* resolveDaemon: a program it has found on disk is there, one that is     *)
(* named by the environment or left to PATH may not be.                    *)
ResolveDaemon(env, built) ==
    IF env # "unset" THEN env ELSE IF built THEN "good" ELSE "PATH"

Spawned(env, built, onPath) ==
    LET file == ResolveDaemon(env, built) IN
    IF file = "good" \/ (file = "PATH" /\ onPath) THEN "booting" ELSE "missing"

(* startDaemon up to its await.                                            *)
DaemonStarts ==
    /\ startup = "test"
    /\ \E env \in {"unset", "good", "bad"}, built, onPath \in BOOLEAN :
         child = Spawned(env, built, onPath)
    /\ occupied \in BOOLEAN
    /\ dataDir = TRUE

(* A test of a cluster that is there already.                              *)
NoDaemon == startup = "none" /\ child = "missing" /\ occupied = FALSE /\ dataDir = FALSE

DaemonInit ==
    /\ DaemonStarts \/ NoDaemon
    /\ late = FALSE /\ stopping = "no" /\ exitSeen = FALSE
    /\ faults = 0

Trouble(kind) ==
    /\ kind \in Faults
    /\ faults < MaxFaults /\ faults' = faults + 1
-----------------------------------------------------------------------------
Listening == startup = "none" \/ occupied \/ child = "serving"

Waiting == startup \in {"test", "connect", "sleep"}

(* An error event without a listener, before anything else happens.        *)
SpawnFails ==
    /\ startup = "test" /\ child = "missing"
    /\ startup' = "crashed"
    /\ UNCHANGED <<late, stopping, child, exitSeen, occupied, dataDir, faults>>

TestDeadline ==
    /\ startup = "test" /\ child # "missing"
    /\ startup' = IF late THEN "failed" ELSE "connect"
    /\ UNCHANGED <<late, stopping, child, exitSeen, occupied, dataDir, faults>>

TryConnect ==
    /\ startup = "connect"
    /\ startup' = IF Listening THEN "up" ELSE "sleep"
    /\ UNCHANGED <<late, stopping, child, exitSeen, occupied, dataDir, faults>>

WakeUp ==
    /\ startup = "sleep"
    /\ startup' = "test"
    /\ UNCHANGED <<late, stopping, child, exitSeen, occupied, dataDir, faults>>

(* A daemon that is there answers in time, unless there is trouble.        *)
DeadlinePasses ==
    /\ Waiting /\ child # "missing" /\ ~late
    /\ IF child \in Gone /\ ~occupied THEN UNCHANGED faults ELSE Trouble("slow")
    /\ late' = TRUE
    /\ UNCHANGED <<startup, stopping, child, exitSeen, occupied, dataDir>>
-----------------------------------------------------------------------------
(* Seeded fault: the directory is removed as the signal is sent.           *)
StopAtOnce ==
    /\ stopping = "no"
    /\ dataDir' = FALSE
    /\ stopping' = IF exitSeen /\ child = "exited" THEN "stopped" ELSE "waiting"
    /\ UNCHANGED <<startup, late, child, exitSeen, occupied>>

(* Seeded fault: a process that has ended is waited for like any other.    *)
StopWaits ==
    /\ stopping = "no"
    /\ stopping' = "waiting"
    /\ UNCHANGED <<startup, late, child, exitSeen, occupied, dataDir>>

(* stop: exitCode stays null when the process was ended by a signal.       *)
Stop ==
    /\ stopping = "no"
    /\ IF exitSeen /\ child = "exited"
       THEN stopping' = "stopped" /\ dataDir' = FALSE
       ELSE stopping' = "waiting" /\ UNCHANGED dataDir
    /\ UNCHANGED <<startup, late, child, exitSeen, occupied>>

(* The catch of startDaemon.                                               *)
StopAfterFailure == startup = "failed" /\ Stop /\ UNCHANGED faults

(* The exit event, and the handler stop may have added for it.             *)
ExitEvent ==
    /\ startup # "crashed" /\ child \in Gone /\ ~exitSeen
    /\ exitSeen' = TRUE
    /\ IF stopping = "waiting"
       THEN stopping' = "stopped" /\ dataDir' = FALSE
       ELSE UNCHANGED <<stopping, dataDir>>
    /\ UNCHANGED <<startup, late, child, occupied, faults>>

(* stop waits for an event that has already been.                          *)
Stuck == stopping = "waiting" /\ exitSeen
-----------------------------------------------------------------------------
(* The process: it serves unless its address is taken.                     *)
Boots ==
    /\ child = "booting"
    /\ child' = IF occupied THEN "exited" ELSE "serving"
    /\ UNCHANGED <<startup, late, stopping, exitSeen, occupied, dataDir, faults>>

Killed ==
    /\ stopping = "waiting" /\ child \in {"booting", "serving"}
    /\ child' \in Gone
    /\ UNCHANGED <<startup, late, stopping, exitSeen, occupied, dataDir, faults>>

Dies ==
    /\ stopping = "no" /\ child \in {"booting", "serving"}
    /\ Trouble("crash")
    /\ child' \in Gone
    /\ UNCHANGED <<startup, late, stopping, exitSeen, occupied, dataDir>>

(* What startDaemon does itself.                                           *)
Waits == SpawnFails \/ TestDeadline \/ TryConnect \/ WakeUp \/ StopAfterFailure

DaemonNext ==
    \/ Waits \/ DeadlinePasses
    \/ ExitEvent \/ Boots \/ Killed \/ Dies
=============================================================================
