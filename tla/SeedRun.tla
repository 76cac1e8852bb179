------------------------------- MODULE SeedRun -------------------------------
(***************************************************************************)
(* One `gl run`: ProcessRunner::run (src/src/process.rs) as the host        *)
(* supervisor, the task it clones, the Unix socket pair between them, and   *)
(* the two things both leave behind: the run's record in the Store and the  *)
(* workload's cgroup.                                                       *)
(*                                                                         *)
(* The supervisor and the cloned task are two processes.  The task starts   *)
(* blocked on the control socket; the supervisor installs the id map and    *)
(* the cgroup membership, releases the task with one byte, and then turns   *)
(* the notices the task writes before exec into audit events.  Either side  *)
(* can be killed at any time and every Store call can be refused.           *)
(***************************************************************************)
EXTENDS Integers, Sequences, Functions

CONSTANTS
    Seeds,      \* the Seeds a run may be asked to start
    ExitCodes   \* the codes the workload may exit with

FaultKinds == {"store", "kernel", "kill", "crash"}

\* The fields of a Seed that decide which steps a run takes.  limits: some
\* cpu/memory/pids limit is set; drop_caps: the list is not empty.  The last
\* field is not the manifest's: it says which faults the environment may
\* inject into the run.
Seed == [map_rootless : BOOLEAN, net : BOOLEAN, limits : BOOLEAN,
         hostname : BOOLEAN, drop_caps : BOOLEAN,
         seccomp_profile : {"none", "strict", "minimal", "default"},
         faults : SUBSET FaultKinds]

ASSUME SeedRunAssumption ==
    /\ Seeds \subseteq Seed
    /\ ExitCodes \subseteq 0..255

CHILD_BOOTSTRAP_FAILURE == 125
SIGKILL == 9
SIGSYS == 31

VARIABLES
    (* the supervisor *)
    seed,     \* the Seed being run
    sup,      \* where run() stands
    failure,  \* "none", or why the notice loop gave up
    ok,       \* FALSE once run() is returning Err
    result,   \* the code run() returns when ok
    (* the Store's view of this run *)
    status,   \* its RunStatus
    events,   \* its audit events, in the order they were appended
    (* the cloned task, and what the kernel holds for it *)
    task,     \* "none", "alive", "zombie" or "reaped"
    child,    \* where the task stands; "workload" once execv succeeded
    istep,    \* the next element of ApplyChildSteps
    applied,  \* the isolation facts established for the task
    wns,      \* the namespaces in which it differs from the supervisor
    killed,   \* SIGKILL has been sent to it
    wait,     \* its terminal wait status
    cgroup,   \* the Seed's cgroup directory exists
    (* the control socket *)
    supEnd,   \* the processes that hold the supervisor's endpoint open
    go,       \* the start byte has been written
    chan      \* notices written by the task and not yet read

Faults == seed.faults

supVars   == <<sup, failure, ok, result>>
storeVars == <<status, events>>
taskVars  == <<task, child, istep, applied, wns, killed, wait>>
sockVars  == <<supEnd, go, chan>>
vars == <<seed, supVars, storeVars, taskVars, cgroup, sockVars>>

-----------------------------------------------------------------------------
(* Namespaces, notices and the table of audit events *)

\* clone(2) flags: the namespaces the task is created in.
workload_clone_flags(s) ==
    {"pid", "uts", "ipc", "mnt"} \cup (IF s.map_rootless THEN {"user"} ELSE {})
                                 \cup (IF s.net THEN {"net"} ELSE {})

Namespaces == {"pid", "uts", "ipc", "mnt", "user", "net"}

\* A notice carries the namespaces the task observes (which also decide
\* whether it sees itself as PID 1).  A torn notice is one whose writer was
\* killed inside send_notice: its bytes do not parse.
NoticeKinds == {"namespace_ready", "isolation_ready", "process_start",
                "failed", "torn"}
Notice(k) == [kind |-> k, ns |-> wns]

ObservedPid(ns) == IF "pid" \in ns THEN 1 ELSE 2

validate_workload_namespace_boundary(ns, s) ==
    /\ ObservedPid(ns) = 1
    /\ {"pid", "uts", "ipc", "mnt"} \subseteq ns
    /\ ("user" \in ns) = s.map_rootless
    /\ ("net" \in ns) = s.net

\* The points of run() that append an event, and the event.
EventAt ==
    [run_created     |-> "RUN_CREATED",    seed_loaded     |-> "SEED_LOADED",
     cgroup_applied  |-> "CGROUP_APPLIED", ns_created      |-> "NS_CREATED",
     idmap_applied   |-> "IDMAP_APPLIED",  mount_done      |-> "MOUNT_DONE",
     caps_dropped    |-> "CAPS_DROPPED",   seccomp_enabled |-> "SECCOMP_ENABLED",
     process_start   |-> "PROCESS_START",  process_exit    |-> "PROCESS_EXIT",
     process_failed  |-> "PROCESS_FAILED"]

EventPoints == {"run_created", "seed_loaded", "cgroup_applied", "ns_created",
                "idmap_applied", "mount_done", "caps_dropped",
                "seccomp_enabled", "process_start", "process_exit",
                "process_failed"}
EventNames == {"RUN_CREATED", "SEED_LOADED", "CGROUP_APPLIED", "NS_CREATED",
               "IDMAP_APPLIED", "MOUNT_DONE", "CAPS_DROPPED",
               "SECCOMP_ENABLED", "PROCESS_START", "PROCESS_EXIT",
               "PROCESS_FAILED"}

\* The statement after each of them.  Which optional events a notice is worth
\* depends only on the Seed.
AfterEvent(p) ==
    CASE p = "run_created"    -> "seed_loaded"
      [] p = "seed_loaded"    -> "apply_parent"
      [] p = "cgroup_applied" -> "status_running"
      [] p = "ns_created"     -> IF seed.map_rootless THEN "idmap_applied" ELSE "read"
      [] p = "mount_done"     -> IF seed.drop_caps THEN "caps_dropped"
                                 ELSE IF seed.seccomp_profile # "none"
                                      THEN "seccomp_enabled" ELSE "read"
      [] p = "caps_dropped"   -> IF seed.seccomp_profile # "none"
                                 THEN "seccomp_enabled" ELSE "read"
      [] p = "process_exit"   -> "status_exited"
      [] p = "process_failed" -> "status_failed"
      [] OTHER                -> "read"

Recorded(e) == e \in Range(events)

\* saw_namespace, saw_isolation and saw_process_start: each is set right after
\* the last event of its notice, and a refused event leaves run() altogether,
\* so at the end of the loop they are read off the events.
EvidenceComplete ==
    Recorded("NS_CREATED") /\ Recorded("MOUNT_DONE") /\ Recorded("PROCESS_START")

-----------------------------------------------------------------------------
(* Init *)

NoWait == [kind |-> "none", code |-> 0]

Init ==
    /\ seed \in Seeds
    /\ sup = "manifest" /\ failure = "none" /\ ok = TRUE
    /\ result = CHILD_BOOTSTRAP_FAILURE
    /\ status = [st |-> "absent", code |-> 0] /\ events = <<>>
    /\ task = "none" /\ child = "none" /\ istep = 1 /\ applied = {} /\ wns = {}
    /\ killed = FALSE /\ wait = NoWait
    /\ cgroup = FALSE
    /\ supEnd = {} /\ go = FALSE /\ chan = <<>>

-----------------------------------------------------------------------------
(* The supervisor: leaving run() *)

\* Once `reader` owns the socket it is dropped before the clone guard (locals
\* drop in reverse order); before that the guard is dropped first.
ReaderPoints == {"read", "ns_created", "idmap_applied", "mount_done",
                 "caps_dropped", "seccomp_enabled", "process_start", "wait",
                 "process_exit", "status_exited", "process_failed", "status_failed"}

\* Mutant: an early return without the clone guard.
ReturnErr_NoGuard ==
    /\ ok' = FALSE /\ sup' = "done"
    /\ supEnd' = supEnd \ {"sup"}
    /\ UNCHANGED <<failure, result>>

\* `?` on an error: the remaining locals are dropped (DropKill, DropGuard).
ReturnErr ==
    /\ ok' = FALSE /\ sup' = "drop"
    /\ supEnd' = IF sup \in ReaderPoints THEN supEnd \ {"sup"} ELSE supEnd
    /\ UNCHANGED <<failure, result>>

\* ClonedWorkload::drop, first half: a task still running is killed.
DropKill ==
    /\ sup = "drop" /\ task = "alive" /\ ~killed
    /\ killed' = TRUE
    /\ UNCHANGED <<seed, supVars, storeVars, cgroup, sockVars,
                   task, child, istep, applied, wns, wait>>

\* ClonedWorkload::drop, second half: reap, then remove the cgroup.  Without a
\* clone there is no guard, and a cgroup prepared by then stays behind.  The
\* task was PID 1 of its namespace, so by now its cgroup is empty, and removing
\* an empty cgroup is assumed to succeed.
DropGuard ==
    /\ sup = "drop" /\ task # "alive"
    /\ task' = IF task = "zombie" THEN "reaped" ELSE task
    /\ cgroup' = (cgroup /\ task = "none")
    /\ sup' = "done"
    /\ supEnd' = supEnd \ {"sup"}
    /\ UNCHANGED <<seed, failure, ok, result, storeVars, go, chan,
                   child, istep, applied, wns, killed, wait>>

\* The Store refuses a call (an outbox at its limit, an impulse too large).
\* Every call site of run() propagates the error with `?`.
StorePoints == EventPoints \cup {"manifest", "create_run", "status_running",
                                 "status_exited", "status_failed"}
StoreRefuses ==
    /\ "store" \in Faults
    /\ sup \in StorePoints
    /\ ReturnErr
    /\ UNCHANGED <<seed, storeVars, taskVars, cgroup, go, chan>>

\* gl itself is killed: the kernel closes its endpoint, nothing else runs.
SupervisorCrash ==
    /\ "crash" \in Faults
    /\ sup \notin {"done", "crashed"}
    /\ sup' = "crashed"
    /\ supEnd' = supEnd \ {"sup"}
    /\ UNCHANGED <<seed, failure, ok, result, storeVars, taskVars, cgroup, go, chan>>

-----------------------------------------------------------------------------
(* The supervisor: Store calls *)

\* The supervisor's own namespace ids are read first; that may fail.
StoreSeedManifest ==
    /\ sup = "manifest"
    /\ \/ /\ sup' = "create_run"
          /\ UNCHANGED <<failure, ok, result, supEnd>>
       \/ "kernel" \in Faults /\ ReturnErr
    /\ UNCHANGED <<seed, storeVars, taskVars, cgroup, go, chan>>

CreateRun ==
    /\ sup = "create_run"
    /\ status' = [st |-> "Init", code |-> 0]
    /\ sup' = "run_created"
    /\ UNCHANGED <<seed, failure, ok, result, events, taskVars, cgroup, sockVars>>

AppendEvent ==
    /\ sup \in EventPoints
    /\ events' = Append(events, EventAt[sup])
    /\ sup' = AfterEvent(sup)
    /\ UNCHANGED <<seed, failure, ok, result, status, taskVars, cgroup, sockVars>>

UpdateRunStatus(at, st, code, next) ==
    /\ sup = at
    /\ status' = [st |-> st, code |-> code]
    /\ sup' = next
    /\ UNCHANGED <<seed, failure, ok, result, events, taskVars, cgroup, sockVars>>

\* Mutants: an exit recorded as Exited(0) whatever the code; a failed run that
\* falls through to the recording of an exit.
MarkExited_Zero == UpdateRunStatus("status_exited", "Exited", 0, "drop")
MarkFailed_FallsThrough == UpdateRunStatus("status_failed", "Failed", 0, "process_exit")

MarkRunning == UpdateRunStatus("status_running", "Running", 0, "release")
MarkExited  == UpdateRunStatus("status_exited", "Exited", result, "drop")
MarkFailed  == UpdateRunStatus("status_failed", "Failed", 0, "drop")

-----------------------------------------------------------------------------
(* The supervisor: preparing and releasing the task *)

\* IsolationConfig::apply_parent: the directory is made before the limits are
\* written, so a failure may or may not leave it behind.
ApplyParent ==
    /\ sup = "apply_parent"
    /\ \/ /\ cgroup' = seed.limits
          /\ sup' = "socket"
          /\ UNCHANGED <<failure, ok, result, supEnd>>
       \/ /\ "kernel" \in Faults /\ seed.limits
          /\ cgroup' \in BOOLEAN
          /\ ReturnErr
    /\ UNCHANGED <<seed, storeVars, taskVars, go, chan>>

ControlSocket ==
    /\ sup = "socket"
    /\ \/ /\ sup' = "clone" /\ supEnd' = {"sup"}
          /\ UNCHANGED <<failure, ok, result>>
       \/ "kernel" \in Faults /\ ReturnErr
    /\ UNCHANGED <<seed, storeVars, taskVars, cgroup, go, chan>>

\* clone(2) copies the descriptor table, so the task also holds the
\* supervisor's endpoint until it closes it.  The supervisor's copy of the
\* task's endpoint goes with the closure.  A failed clone removes the cgroup.
Clone ==
    /\ sup = "clone"
    /\ \/ /\ task' = "alive" /\ child' = "start"
          /\ wns' = workload_clone_flags(seed)
          /\ supEnd' = {"sup", "child"}
          /\ sup' = IF seed.map_rootless THEN "idmap"
                    ELSE IF seed.limits THEN "move" ELSE "status_running"
          /\ UNCHANGED <<failure, ok, result, cgroup>>
       \/ /\ "kernel" \in Faults
          /\ ReturnErr
          /\ cgroup' = FALSE
          /\ UNCHANGED <<task, child, wns>>
    /\ UNCHANGED <<seed, storeVars, istep, applied, killed, wait, go, chan>>

\* Mutant: a failed preparation is only logged and the run goes on.
AbortBlockedChild_Continues ==
    /\ sup' = "status_running"
    /\ UNCHANGED <<failure, ok, result, supEnd>>

\* abort_blocked_child: closing the endpoint makes the blocked read return EOF.
AbortBlockedChild ==
    /\ sup' = "abort_wait"
    /\ result' = CHILD_BOOTSTRAP_FAILURE
    /\ supEnd' = supEnd \ {"sup"}
    /\ UNCHANGED <<failure, ok>>

\* /proc/<pid>/uid_map and cgroup.procs can only be written for a task that
\* has not been reaped; a zombie still has both.
MapChildFromParent ==
    /\ sup = "idmap"
    /\ \/ /\ applied' = applied \cup {"idmap"}
          /\ sup' = IF seed.limits THEN "move" ELSE "status_running"
          /\ UNCHANGED <<failure, ok, result, supEnd>>
       \/ /\ "kernel" \in Faults \/ task # "alive"
          /\ AbortBlockedChild
          /\ UNCHANGED applied
    /\ UNCHANGED <<seed, storeVars, task, child, istep, wns, killed, wait,
                   cgroup, go, chan>>

MovePidToPath ==
    /\ sup = "move"
    /\ \/ /\ applied' = applied \cup {"cgroup"}
          /\ sup' = "cgroup_applied"
          /\ UNCHANGED <<failure, ok, result, supEnd>>
       \/ /\ "kernel" \in Faults \/ task # "alive"
          /\ AbortBlockedChild
          /\ UNCHANGED applied
    /\ UNCHANGED <<seed, storeVars, task, child, istep, wns, killed, wait,
                   cgroup, go, chan>>

\* The start byte, then shutdown(Write).  A task that died has closed its
\* endpoint and the write fails; a failed shutdown is an Err after the byte.
Release ==
    /\ sup = "release"
    /\ \/ /\ task = "alive" /\ go' = TRUE
          /\ sup' = "read"
          /\ UNCHANGED <<failure, ok, result, supEnd>>
       \/ /\ task = "alive" /\ "kernel" \in Faults /\ go' = TRUE
          /\ ReturnErr
       \/ /\ task # "alive" \/ "kernel" \in Faults
          /\ AbortBlockedChild
          /\ UNCHANGED go
    /\ UNCHANGED <<seed, storeVars, taskVars, cgroup, chan>>

-----------------------------------------------------------------------------
(* The supervisor: the notice loop and the verdict *)

ProtocolError ==
    /\ failure' = "protocol" /\ sup' = "terminate"

ReadNotice ==
    /\ sup = "read" /\ chan # <<>>
    /\ chan' = Tail(chan)
    /\ LET n == Head(chan) IN
       \/ /\ n.kind = "namespace_ready"
          /\ IF validate_workload_namespace_boundary(n.ns, seed)
             THEN sup' = "ns_created" /\ UNCHANGED failure
             ELSE ProtocolError
       \/ /\ n.kind = "isolation_ready"
          /\ sup' = "mount_done" /\ UNCHANGED failure
       \/ /\ n.kind = "process_start"
          /\ IF ObservedPid(n.ns) = 1
             THEN sup' = "process_start" /\ UNCHANGED failure
             ELSE ProtocolError
       \/ /\ n.kind = "failed"
          /\ failure' = "reported" /\ sup' = "wait"
       \/ n.kind = "torn" /\ ProtocolError
    /\ UNCHANGED <<seed, ok, result, storeVars, taskVars, cgroup, supEnd, go>>

\* The task's endpoint is CLOEXEC: execv closes it, and so does death.
ChildEndOpen == task = "alive" /\ child # "workload"

ReadEof ==
    /\ sup = "read" /\ chan = <<>> /\ ~ChildEndOpen
    /\ sup' = "wait"
    /\ UNCHANGED <<seed, failure, ok, result, storeVars, taskVars, cgroup, sockVars>>

\* read_line fails, e.g. ECONNRESET when the task died with the start byte unread.
ReadError ==
    /\ sup = "read" /\ "kernel" \in Faults
    /\ ProtocolError
    /\ UNCHANGED <<seed, ok, result, storeVars, taskVars, cgroup, sockVars>>

Terminate ==
    /\ sup = "terminate"
    /\ killed' = (killed \/ task = "alive")
    /\ sup' = "wait"
    /\ UNCHANGED <<seed, failure, ok, result, storeVars, cgroup, sockVars,
                   task, child, istep, applied, wns, wait>>

\* Mutant: the raw wait status instead of its decoded code.
TerminalCode_Raw == 256 * wait.code

TerminalCode == IF wait.kind = "exited" THEN wait.code ELSE 128 + wait.code

\* What run() records once the task is reaped, and the code it will return.
Verdict ==
    IF failure # "none"
    THEN sup' = "process_failed" /\ result' = TerminalCode
    ELSE IF ~EvidenceComplete
    THEN sup' = "process_failed" /\ result' = CHILD_BOOTSTRAP_FAILURE
    ELSE /\ sup' = IF wait.kind = "exited" THEN "process_exit" ELSE "process_failed"
         /\ result' = TerminalCode

\* waitpid blocks until the task is dead.  The supervisor's own namespaces are
\* re-read next; that read may fail.
WaitTerminal ==
    /\ sup = "wait" /\ task = "zombie"
    /\ task' = "reaped"
    /\ \/ Verdict /\ UNCHANGED <<failure, ok, supEnd>>
       \/ "kernel" \in Faults /\ ReturnErr
    /\ UNCHANGED <<seed, storeVars, cgroup, go, chan,
                   child, istep, applied, wns, killed, wait>>

AbortWait ==
    /\ sup = "abort_wait" /\ task = "zombie"
    /\ task' = "reaped"
    /\ sup' = "process_failed"
    /\ UNCHANGED <<seed, failure, ok, result, storeVars, cgroup, sockVars,
                   child, istep, applied, wns, killed, wait>>

-----------------------------------------------------------------------------
(* The cloned task *)

\* The task stops running; the kernel closes its descriptors.
Dies(kind, code) ==
    /\ task' = "zombie"
    /\ wait' = [kind |-> kind, code |-> code]
    /\ supEnd' = supEnd \ {"child"}

\* Mutant: the task keeps its copy of the supervisor's endpoint.
ClosePeer_Keeps ==
    /\ task = "alive" /\ child = "start"
    /\ child' = "blocked"
    /\ UNCHANGED <<seed, supVars, storeVars, cgroup, sockVars,
                   task, istep, applied, wns, killed, wait>>

\* First statement of the closure: close the copy of the supervisor's endpoint.
ClosePeer ==
    /\ task = "alive" /\ child = "start"
    /\ child' = "blocked"
    /\ supEnd' = supEnd \ {"child"}
    /\ UNCHANGED <<seed, supVars, storeVars, cgroup, go, chan,
                   task, istep, applied, wns, killed, wait>>

\* read_exact of the start byte; EOF once nobody holds the other endpoint.
ReadGo ==
    /\ task = "alive" /\ child = "blocked"
    /\ \/ go /\ child' = "identity" /\ UNCHANGED <<task, wait, supEnd>>
       \/ /\ ~go /\ supEnd = {}
          /\ Dies("exited", CHILD_BOOTSTRAP_FAILURE) /\ UNCHANGED child
    /\ UNCHANGED <<seed, supVars, storeVars, cgroup, go, chan,
                   istep, applied, wns, killed>>

\* A fallible step of child_exec_static moves on, or makes it return Err.
Step(from, next, canSucceed, fact) ==
    /\ task = "alive" /\ child = from
    /\ \/ canSucceed /\ child' = next /\ applied' = applied \cup fact
       \/ /\ ~canSucceed \/ "kernel" \in Faults
          /\ child' = "failed" /\ UNCHANGED applied
    /\ UNCHANGED <<seed, supVars, storeVars, cgroup, sockVars,
                   task, wns, killed, wait>>

\* setgid/setuid in a user namespace without a map is refused by the kernel.
EnterMappedIdentity ==
    /\ Step("identity", "namespace_ready",
            seed.map_rootless => "idmap" \in applied,
            IF seed.map_rootless THEN {"identity"} ELSE {})
    /\ UNCHANGED istep

\* send_notice: EPIPE when the supervisor's endpoint is closed.
Send(kind, next) ==
    /\ task = "alive" /\ child = kind
    /\ IF "sup" \in supEnd
       THEN chan' = Append(chan, Notice(kind)) /\ child' = next
       ELSE child' = "failed" /\ UNCHANGED chan
    /\ UNCHANGED <<seed, supVars, storeVars, cgroup, supEnd, go,
                   task, istep, applied, wns, killed, wait>>

\* Mutant: isolation is announced before it is applied.
SendNamespaceReady_SkipsIsolation == Send("namespace_ready", "isolation_ready")

SendNamespaceReady == Send("namespace_ready", "isolate")
SendIsolationReady == Send("isolation_ready", "chdir")
SendProcessStart   == Send("process_start", "exec")

\* Mutant: the filter is installed before no_new_privs is set.
ApplyChildSteps_FilterFirst ==
    <<"verify_identity", "hostname", "mounts", "seccomp", "no_new_privs", "caps">>

\* IsolationConfig::apply_child, in program order.
ApplyChildSteps ==
    <<"verify_identity", "hostname", "mounts", "no_new_privs", "caps", "seccomp">>

Requested(s, step) ==
    CASE step = "verify_identity" -> s.map_rootless
      [] step = "hostname"        -> s.hostname
      [] step = "caps"            -> s.drop_caps
      [] step = "seccomp"         -> s.seccomp_profile # "none"
      [] OTHER                    -> TRUE

\* verify_current_identity checks what EnterMappedIdentity did; an unprivileged
\* filter needs no_new_privs.
CanApply(step) ==
    CASE step = "verify_identity" -> "identity" \in applied
      [] step = "seccomp"         -> "no_new_privs" \in applied
      [] OTHER                    -> TRUE

ApplyChild ==
    LET step == ApplyChildSteps[istep]
        last == istep = Len(ApplyChildSteps)
    IN /\ Step("isolate", IF last THEN "isolation_ready" ELSE "isolate",
               Requested(seed, step) => CanApply(step),
               IF Requested(seed, step) THEN {step} ELSE {})
       /\ istep' = IF last THEN istep ELSE istep + 1

\* The filter also binds the rest of the bootstrap.  Of the system calls the
\* task still has to make (send_notice, chdir, getpid, execv), the ones on each
\* profile's allow-list; build_default extends the minimal list.
BootstrapCalls == {"write", "chdir", "getpid", "execve"}

allowed_syscalls(profile) == IF profile = "strict" THEN {"write"} ELSE BootstrapCalls

Permitted(call) == call \in allowed_syscalls(seed.seccomp_profile)

\* chdir, environment, argv.
PrepareExec ==
    /\ Permitted("chdir")
    /\ Step("chdir", "process_start", TRUE, {})
    /\ UNCHANGED istep

\* The strict list's default action kills the process.
StrictKill ==
    /\ task = "alive" /\ child = "chdir" /\ ~Permitted("chdir")
    /\ Dies("signaled", SIGSYS)
    /\ UNCHANGED <<seed, supVars, storeVars, cgroup, go, chan,
                   child, istep, applied, wns, killed>>

Execv ==
    /\ Step("exec", "workload", TRUE, {})
    /\ UNCHANGED istep

\* Mutant: the Err arm returns without the Failed notice.
ReportFailure_Silent ==
    /\ task = "alive" /\ child = "failed"
    /\ child' = "leaving"
    /\ UNCHANGED <<seed, supVars, storeVars, cgroup, sockVars,
                   task, istep, applied, wns, killed, wait>>

\* The closure's Err arm: the Failed notice (its own failure is ignored), then
\* return 125.
ReportFailure ==
    /\ task = "alive" /\ child = "failed"
    /\ chan' = IF "sup" \in supEnd THEN Append(chan, Notice("failed")) ELSE chan
    /\ child' = "leaving"
    /\ UNCHANGED <<seed, supVars, storeVars, cgroup, supEnd, go,
                   task, istep, applied, wns, killed, wait>>

Leave ==
    /\ task = "alive" /\ child = "leaving"
    /\ Dies("exited", CHILD_BOOTSTRAP_FAILURE)
    /\ UNCHANGED <<seed, supVars, storeVars, cgroup, go, chan,
                   child, istep, applied, wns, killed>>

WorkloadExits ==
    /\ task = "alive" /\ child = "workload"
    /\ \E code \in ExitCodes : Dies("exited", code)
    /\ UNCHANGED <<seed, supVars, storeVars, cgroup, go, chan,
                   child, istep, applied, wns, killed>>

\* SIGKILL takes effect: sent by the supervisor, or by anyone else (the OOM
\* killer, an operator).  Inside send_notice it may leave a torn notice.
Sending == child \in {"namespace_ready", "isolation_ready", "process_start", "failed"}

KilledBySignal ==
    /\ task = "alive"
    /\ killed \/ "kill" \in Faults
    /\ Dies("signaled", SIGKILL)
    /\ \/ UNCHANGED chan
       \/ Sending /\ "sup" \in supEnd /\ chan' = Append(chan, Notice("torn"))
    /\ UNCHANGED <<seed, supVars, storeVars, cgroup, go,
                   child, istep, applied, wns, killed>>

-----------------------------------------------------------------------------
(* Specification *)

SupervisorStep ==
    \/ DropKill \/ DropGuard \/ StoreRefuses
    \/ StoreSeedManifest \/ CreateRun \/ AppendEvent
    \/ MarkRunning \/ MarkExited \/ MarkFailed
    \/ ApplyParent \/ ControlSocket \/ Clone
    \/ MapChildFromParent \/ MovePidToPath \/ Release
    \/ ReadNotice \/ ReadEof \/ ReadError \/ Terminate
    \/ WaitTerminal \/ AbortWait

BootstrapStep ==
    \/ ClosePeer \/ ReadGo \/ EnterMappedIdentity \/ SendNamespaceReady
    \/ ApplyChild \/ SendIsolationReady \/ PrepareExec \/ StrictKill
    \/ SendProcessStart \/ Execv \/ ReportFailure \/ Leave

Finished == sup \in {"done", "crashed"} /\ task # "alive" /\ UNCHANGED vars

Next == SupervisorStep \/ BootstrapStep \/ WorkloadExits \/ KilledBySignal
        \/ SupervisorCrash \/ Finished

Spec == Init /\ [][Next]_vars

\* The scheduler runs both processes and SIGKILL is delivered.  Nothing is
\* assumed about the workload (it may run for ever) or about outside kills.
Fairness ==
    /\ WF_vars(SupervisorStep)
    /\ WF_vars(BootstrapStep)
    /\ WF_vars(killed /\ KilledBySignal)

FairSpec == Spec /\ Fairness

-----------------------------------------------------------------------------
(* Properties *)

SupPoints == EventPoints \cup
    {"manifest", "create_run", "apply_parent", "socket", "clone", "idmap",
     "move", "status_running", "release", "read", "terminate", "wait",
     "abort_wait", "status_exited", "status_failed", "drop", "done", "crashed"}
ChildPoints ==
    {"none", "start", "blocked", "identity", "namespace_ready", "isolate",
     "isolation_ready", "chdir", "process_start", "exec", "workload",
     "failed", "leaving"}
Facts == {"idmap", "cgroup", "identity", "verify_identity", "hostname",
          "mounts", "no_new_privs", "caps", "seccomp"}

RunStatuses == [st : {"absent", "Init", "Running", "Exited", "Failed"}, code : 0..255]
WaitStatuses == {NoWait} \cup [kind : {"exited"}, code : 0..255]
                         \cup [kind : {"signaled"}, code : {SIGKILL, SIGSYS}]
Notices == [kind : NoticeKinds, ns : SUBSET Namespaces]

\* Type correctness of the run's state.
TypeOK ==
    /\ seed \in Seeds
    /\ sup \in SupPoints
    /\ failure \in {"none", "protocol", "reported"}
    /\ ok \in BOOLEAN
    /\ result \in 0..255
    /\ status \in RunStatuses
    /\ events \in Seq(EventNames)
    /\ task \in {"none", "alive", "zombie", "reaped"}
    /\ child \in ChildPoints
    /\ istep \in 1..6
    /\ applied \subseteq Facts
    /\ wns \subseteq Namespaces
    /\ killed \in BOOLEAN
    /\ wait \in WaitStatuses
    /\ cgroup \in BOOLEAN
    /\ supEnd \subseteq {"sup", "child"}
    /\ go \in BOOLEAN
    /\ chan \in Seq(Notices)

\* What a Seed asks for before its workload may run.
RequiredFacts(s) ==
    {"mounts", "no_new_privs"}
      \cup (IF s.map_rootless THEN {"idmap", "identity"} ELSE {})
      \cup (IF s.limits THEN {"cgroup"} ELSE {})
      \cup (IF s.hostname THEN {"hostname"} ELSE {})
      \cup (IF s.drop_caps THEN {"caps"} ELSE {})
      \cup (IF s.seccomp_profile # "none" THEN {"seccomp"} ELSE {})
RequiredNamespaces(s) ==
    {"pid", "uts", "ipc", "mnt"} \cup (IF s.map_rootless THEN {"user"} ELSE {})
                                 \cup (IF s.net THEN {"net"} ELSE {})

Execed == child = "workload"

\* No workload is exec'ed after a partial isolation failure: whatever failed or
\* was killed on either side, a task that reached execv is in the namespaces
\* and the cgroup its Seed asks for and every requested step has succeeded.
NoExecAfterPartialIsolation ==
    Execed => /\ go
              /\ RequiredFacts(seed) \subseteq applied
              /\ wns = RequiredNamespaces(seed)

\* The audit events are evidence: each one is appended only when the fact it
\* claims holds for the task, although the supervisor learns most of them from
\* notices of a process that may be dead by then.
EvidenceIsTrue ==
    /\ Recorded("NS_CREATED") => wns = RequiredNamespaces(seed)
    /\ Recorded("IDMAP_APPLIED") => "identity" \in applied
    /\ Recorded("CGROUP_APPLIED") => "cgroup" \in applied
    /\ Recorded("MOUNT_DONE") => "mounts" \in applied
    /\ Recorded("CAPS_DROPPED") => "caps" \in applied
    /\ Recorded("SECCOMP_ENABLED") => "seccomp" \in applied

\* A run recorded as Exited(code) is one whose workload was exec'ed and left
\* with that code itself; a bootstrap that gave up, or a death by signal, is
\* never recorded as an exit.
ExitRecordIsTrue ==
    (status.st = "Exited" \/ Recorded("PROCESS_EXIT")) =>
        Execed /\ wait.kind = "exited"
               /\ (status.st = "Exited" => status.code = wait.code)

\* A terminal status is recorded only when the task has been reaped: the Store
\* never calls a run finished whose workload can still act.
TerminalMeansReaped ==
    status.st \in {"Exited", "Failed"} => task = "reaped"

\* Whichever way run() returns after a clone, it leaves no process, no zombie,
\* no open endpoint and no cgroup behind.
NothingLeftBehind ==
    sup = "done" /\ task # "none" =>
        task = "reaped" /\ ~cgroup /\ supEnd = {}

\* Ok(code) from run() agrees with the Store: Exited(code), or a Failed run.
ReturnedCodeIsRecorded ==
    \/ status.st = "Failed"
    \/ status.st = "Exited" /\ status.code = result
ResultAgreesWithStore == sup = "done" /\ ok => ReturnedCodeIsRecorded

\* The order of the audit trail: an event is preceded by everything it presumes.
Before(e, f) == \A i \in DOMAIN events : events[i] = f =>
                    \E j \in 1..(i - 1) : events[j] = e
LifecycleOrder ==
    /\ Before("RUN_CREATED", "CGROUP_APPLIED")
    /\ (seed.limits => Before("CGROUP_APPLIED", "NS_CREATED"))
    /\ Before("NS_CREATED", "MOUNT_DONE") /\ Before("MOUNT_DONE", "PROCESS_START")
    /\ Before("PROCESS_START", "PROCESS_EXIT")
    /\ \A i \in DOMAIN events :
          events[i] \in {"PROCESS_EXIT", "PROCESS_FAILED"} => i = Len(events)

\* The status of a run only moves forward, and never once it is terminal.
StatusRank == [absent |-> 0, Init |-> 1, Running |-> 2, Exited |-> 3, Failed |-> 3]
StatusMovesForward ==
    [][status' # status => StatusRank[status'.st] > StatusRank[status.st]]_vars

\* A task is never left blocked: it is released, or it sees EOF and leaves, even
\* when the supervisor aborts, returns early or is killed.
BlockedTaskResolves ==
    (task = "alive" /\ child \in {"start", "blocked"})
        ~> ~(task = "alive" /\ child \in {"start", "blocked"})

\* run() returns (or gl is killed) unless the workload itself runs for ever:
\* supervisor and task never wait for each other.
RunReturns ==
    <>(sup \in {"done", "crashed"})
        \/ <>[](Execed /\ task = "alive" /\ ~killed)

\* With no fault injected, every Seed that passes validation gets its workload
\* started: the order of the isolation steps lets each of them succeed.
WorkloadStarts == Faults = {} ~> Execed

\* The same without the strict profile, which kills the bootstrap.
NonStrictWorkloadStarts ==
    (Faults = {} /\ seed.seccomp_profile # "strict") ~> Execed

-----------------------------------------------------------------------------
(* The inductive invariant *)

IsolationSteps(s, k) ==
    \A j \in 1..k : Requested(s, ApplyChildSteps[j]) => ApplyChildSteps[j] \in applied

ParentFacts ==
    /\ seed.map_rootless => "idmap" \in applied
    /\ seed.limits => "cgroup" \in applied

BeforeIsolation == {"none", "start", "blocked", "identity", "namespace_ready"}
AfterIdentity   == {"namespace_ready", "isolate", "isolation_ready", "chdir",
                    "process_start", "exec", "workload"}
AfterIsolation  == {"isolation_ready", "chdir", "process_start", "exec", "workload"}
BeforeClone     == {"manifest", "create_run", "run_created", "seed_loaded",
                    "apply_parent", "socket", "clone"}
Preparing       == {"idmap", "move", "cgroup_applied", "status_running", "release"}
Reading         == {"read", "ns_created", "idmap_applied", "mount_done",
                    "caps_dropped", "seccomp_enabled", "process_start"}
Recording       == {"process_exit", "status_exited", "process_failed", "status_failed"}

\* Which isolation facts hold at each point of the two processes: the byte is
\* written only when the parent's facts hold, a task past the byte has them,
\* and apply_child has done everything before istep.
IsolationInv ==
    /\ (task = "none") = (child = "none")
    /\ sup \in BeforeClone => task = "none"
    /\ sup \in BeforeClone \cup Preparing => ~go
    /\ sup \in Preparing \cup Reading \cup Recording \cup {"terminate", "wait", "abort_wait"}
          => task # "none"
    /\ task # "none" => wns = workload_clone_flags(seed)
    /\ sup = "move" => (seed.map_rootless => "idmap" \in applied)
    /\ sup = "cgroup_applied" => "cgroup" \in applied
    /\ sup \in {"cgroup_applied", "status_running", "release"} => ParentFacts
    /\ go => ParentFacts
    /\ child \notin {"none", "start", "blocked"} => go
    /\ child \in AfterIdentity /\ seed.map_rootless => "identity" \in applied
    /\ child \in BeforeIsolation => istep = 1
    /\ child = "isolate" => IsolationSteps(seed, istep - 1)
    /\ child \in AfterIsolation => IsolationSteps(seed, 6)

\* What a notice in the socket, the event being appended and the events already
\* appended say about the task.
NoticeIsTrue(n) ==
    /\ task # "none"
    /\ n.ns = wns
    /\ n.kind = "namespace_ready" /\ seed.map_rootless => "identity" \in applied
    /\ n.kind = "isolation_ready" => IsolationSteps(seed, 6)

NoticeInv ==
    /\ \A i \in 1..Len(chan) : NoticeIsTrue(chan[i])
    /\ sup \in {"ns_created", "idmap_applied"} /\ seed.map_rootless => "identity" \in applied
    /\ sup \in {"ns_created", "idmap_applied"} => wns = RequiredNamespaces(seed)
    /\ sup = "idmap_applied" => seed.map_rootless
    /\ sup \in {"mount_done", "caps_dropped", "seccomp_enabled"} => IsolationSteps(seed, 6)
    /\ sup = "caps_dropped" => seed.drop_caps
    /\ sup = "seccomp_enabled" => seed.seccomp_profile # "none"
    /\ EvidenceIsTrue

\* Who holds the supervisor's endpoint, and how far the task's death has been
\* collected.
ReapInv ==
    /\ task # "alive" => "child" \notin supEnd
    /\ sup \in Preparing \cup Reading => "sup" \in supEnd
    /\ sup \in Recording => task = "reaped"
    /\ (task \in {"zombie", "reaped"}) = (wait.kind # "none")
    /\ TerminalMeansReaped
    /\ NothingLeftBehind

Started == {"exec", "workload", "failed", "leaving"}

\* Why an exit is believed: a task that gave up has left a Failed notice that
\* the supervisor cannot have missed when it reaches EOF.
VerdictInv ==
    /\ wait.kind = "exited" => child \in {"blocked", "leaving", "workload"}
    /\ sup \in Reading /\ child = "leaving" =>
          \E i \in 1..Len(chan) : chan[i].kind = "failed"
    /\ \A i \in 1..Len(chan) : chan[i].kind = "process_start" => child \in Started
    /\ sup = "process_start" \/ Recorded("PROCESS_START") => child \in Started
    /\ sup \in BeforeClone \cup Preparing \cup Reading => failure = "none"
    /\ sup = "terminate" => failure # "none"
    /\ sup = "wait" /\ failure = "none" =>
          child = "workload" \/ (task \in {"zombie", "reaped"} /\ child # "leaving")
    /\ sup \in {"process_exit", "status_exited"} =>
          Execed /\ wait.kind = "exited" /\ result = wait.code
    /\ sup \in {"drop", "done"} /\ ok => ReturnedCodeIsRecorded
    /\ ExitRecordIsTrue

\* Which RunStatus each point of run() finds in the Store.
StatusInv ==
    /\ sup \in {"manifest", "create_run"} => status.st = "absent"
    /\ sup \in (BeforeClone \ {"manifest", "create_run"}) \cup (Preparing \ {"release"})
          => status.st = "Init"
    /\ sup \in {"release", "terminate", "wait"} \cup Reading => status.st = "Running"
    /\ sup \in {"abort_wait"} \cup Recording => status.st \in {"Init", "Running"}

\* Why the events come in order although the supervisor keeps no list of what it has
\* recorded: until it gives up, what a notice presumes is recorded, is being
\* recorded, or is in the socket before that notice.
Listening == BeforeClone \cup Preparing \cup Reading
Over == {"status_exited", "status_failed", "drop", "done", "crashed"}

Told(e, at, kind, n) == Recorded(e) \/ sup = at \/ \E j \in 1..n : chan[j].kind = kind
NamespaceTold(n) == Told("NS_CREATED", "ns_created", "namespace_ready", n)
IsolationTold(n) == Told("MOUNT_DONE", "mount_done", "isolation_ready", n)

OrderInv ==
    /\ LifecycleOrder
    /\ sup \in {"seed_loaded", "apply_parent", "socket", "clone"} \cup Preparing =>
          Recorded("RUN_CREATED")
    /\ sup \in {"status_running", "release"} \cup Reading /\ seed.limits =>
          Recorded("CGROUP_APPLIED")
    /\ sup \in Listening =>
          /\ child \in {"isolate", "isolation_ready"} => NamespaceTold(Len(chan))
          /\ child \in {"chdir", "process_start"} => IsolationTold(Len(chan))
          /\ \A i \in 1..Len(chan) :
                /\ chan[i].kind = "isolation_ready" => NamespaceTold(i - 1)
                /\ chan[i].kind = "process_start" => IsolationTold(i - 1)
    /\ sup = "mount_done" => Recorded("NS_CREATED")
    /\ sup = "process_start" => Recorded("MOUNT_DONE")
    /\ sup = "process_exit" => Recorded("PROCESS_START")
    /\ sup \notin Over => ~Recorded("PROCESS_EXIT") /\ ~Recorded("PROCESS_FAILED")

\* The inductive invariant of SeedRunProofs: it relates the point each process has
\* reached to the isolation facts, the notices in the socket, the record in the
\* Store, the order of the events and the collection of the task, and implies the
\* properties above.
Inv == /\ TypeOK /\ IsolationInv /\ NoticeInv /\ ReapInv /\ VerdictInv /\ StatusInv
       /\ OrderInv
=============================================================================
