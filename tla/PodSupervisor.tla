---------------------------- MODULE PodSupervisor ----------------------------
(***************************************************************************)
(* PodSupervisor (src/src/pod.rs): start, tick and stop_graceful of a pod,  *)
(* with the processes of its containers running beside it.                  *)
(*                                                                         *)
(* The supervisor only knows the handles (state, pid); what really happens  *)
(* to a container is in proc.  A container is forked once: schedule_restart *)
(* books a restart but nothing in the code carries it out.                  *)
(***************************************************************************)
EXTENDS Integers, Sequences, FiniteSets

CONSTANTS
    N,            \* number of containers of the garden
    Supervised,   \* the settings a supervisor may be created with: the garden's
                  \* restart policy and the field max_restarts_per_10m; prompt:
                  \* on its host SIGKILL takes effect before the last turn
    ExitCodes,    \* codes a container may exit with by itself
    MaxPodExits,  \* bound: tick is not called again after that many POD_EXITs
    GracePolls,   \* turns the stop timeout allows at most (timeout / 100 ms)
    KillPolls,    \* turns after SIGKILL (10 in the code)
    Faults        \* which of FaultKinds the environment may inject

FaultKinds == {"store", "kernel", "oom", "crash"}

ASSUME PodAssumption ==
    /\ N \in Nat \ {0}
    /\ Supervised \subseteq [policy : {"Never", "OnFailure", "Always"},
                             max_restarts : Nat, prompt : BOOLEAN]
    /\ ExitCodes \subseteq 0..255
    /\ MaxPodExits \in Nat
    /\ GracePolls \in Nat \ {0} /\ KillPolls \in Nat \ {0}
    /\ Faults \subseteq FaultKinds

Containers == 1..N

VARIABLES
    settings,                   \* a member of Supervised
    pc, idx, polls,             \* where the supervisor stands
    state, exitCode, pid,       \* the handles: state, its code, pid.is_some()
    backoff, restartTimes,
    netns, status, events,      \* the pod's network, its run record, its events
    proc, wait, pend            \* the real processes, how they ended, and the
                                \* signals pending for them

handleVars == <<state, exitCode, pid, backoff>>
procVars   == <<proc, wait, pend>>
storeVars  == <<status, events>>
loopVars   == <<idx, polls>>
vars == <<settings, pc, loopVars, handleVars, restartTimes, netns, storeVars, procVars>>

Event(name, c, n) == [ev |-> name, c |-> c, n |-> n]
PodEvent(name) == Event(name, 0, 0)

Alive(c) == proc[c] \in {"forked", "setup", "execed"}
NoZombie == \A c \in Containers : proc[c] # "zombie"
AllExited == \A c \in Containers : ~pid[c]

Init ==
    /\ settings \in Supervised
    /\ pc = "manifest" /\ idx = 1 /\ polls = 0
    /\ state = [c \in Containers |-> "Init"]
    /\ exitCode = [c \in Containers |-> 0]
    /\ pid = [c \in Containers |-> FALSE]
    /\ backoff = [c \in Containers |-> 1]
    /\ restartTimes = 0
    /\ netns = FALSE /\ status = "absent" /\ events = <<>>
    /\ proc = [c \in Containers |-> "none"]
    /\ wait = [c \in Containers |-> [kind |-> "exited", n |-> 0]]
    /\ pend = [c \in Containers |-> {}]

-----------------------------------------------------------------------------
(* Store calls: each is propagated with `?` *)

Append1(e) == events' = Append(events, e)

\* Every point at which the supervisor only calls the Store, and what follows.
StorePoints == {"manifest", "create_run", "net_ready", "forked", "stop_requested",
                "timeout", "pod_exit", "pod_exit_all", "status_exited",
                "status_exited_all"}

StoreRefuses ==
    /\ "store" \in Faults
    /\ pc \in StorePoints
    /\ pc' = "err"
    /\ UNCHANGED <<settings, loopVars, handleVars, restartTimes, netns, storeVars, procVars>>

StoreGardenManifest ==
    /\ pc = "manifest" /\ pc' = "create_run"
    /\ UNCHANGED <<settings, loopVars, handleVars, restartTimes, netns, storeVars, procVars>>

CreateRun ==
    /\ pc = "create_run" /\ pc' = "net"
    /\ status' = "Init"
    /\ UNCHANGED <<settings, loopVars, handleVars, restartTimes, netns, events, procVars>>

\* The pod-level events that stand alone.
PodEvents ==
    [net_ready      |-> <<"POD_NET_READY", "fork">>,
     stop_requested |-> <<"POD_STOP_REQUESTED", "term">>,
     timeout        |-> <<"POD_TIMEOUT", "kill">>,
     pod_exit       |-> <<"POD_EXIT", "status_exited">>,
     pod_exit_all   |-> <<"POD_EXIT", "status_exited_all">>]

AppendPodEvent ==
    /\ pc \in DOMAIN PodEvents
    /\ Append1(PodEvent(PodEvents[pc][1]))
    /\ pc' = PodEvents[pc][2]
    /\ idx' = 1
    /\ UNCHANGED <<settings, polls, handleVars, restartTimes, netns, status, procVars>>

\* Both stops record Exited(0), whatever the containers' codes were.  A tick
\* that stopped the pod returns Ok like any other.
MarkStopped ==
    /\ pc \in {"status_exited", "status_exited_all"}
    /\ status' = "Exited0"
    /\ pc' = IF pc = "status_exited" THEN "returned" ELSE "idle"
    /\ UNCHANGED <<settings, loopVars, handleVars, restartTimes, netns, events, procVars>>

-----------------------------------------------------------------------------
(* start *)

SetupPodNetwork ==
    /\ pc = "net"
    /\ \/ netns' = TRUE /\ pc' = "net_ready"
       \/ "kernel" \in Faults /\ netns' \in BOOLEAN /\ pc' = "err"
    /\ UNCHANGED <<settings, loopVars, handleVars, restartTimes, storeVars, procVars>>

\* start_container up to the fork: rootfs, cgroup and fork may each fail.
StartContainer ==
    /\ pc = "fork"
    /\ \/ /\ pc' = "forked"
          /\ state' = [state EXCEPT ![idx] = "Running"]
          /\ pid' = [pid EXCEPT ![idx] = TRUE]
          /\ proc' = [proc EXCEPT ![idx] = "forked"]
       \/ /\ "kernel" \in Faults
          /\ pc' = "err"
          /\ state' = [state EXCEPT ![idx] = "Starting"]
          /\ UNCHANGED <<pid, proc>>
    /\ UNCHANGED <<settings, loopVars, exitCode, backoff, restartTimes, netns,
                   storeVars, wait, pend>>

ContainerForked ==
    /\ pc = "forked"
    /\ Append1(Event("CONTAINER_FORKED", idx, 0))
    /\ IF idx = N THEN pc' = "idle" /\ UNCHANGED idx
                  ELSE pc' = "fork" /\ idx' = idx + 1
    /\ UNCHANGED <<settings, polls, handleVars, restartTimes, netns, status, procVars>>

-----------------------------------------------------------------------------
(* reap_exited_processes, called from tick and from both waits of a stop *)

ReapPoints == {"tick_reap", "grace_reap", "kill_reap"}

\* Mutant: the pid stays in the handle of a reaped container.
ReapPid_Keeps(c) == pid

ReapPid(c) == [pid EXCEPT ![c] = FALSE]

\* Mutant: a death by signal is reported with the signal number alone.
ReportedCode_SignalOnly(c) == wait[c].n

ReportedCode(c) == IF wait[c].kind = "exited" THEN wait[c].n ELSE 128 + wait[c].n

\* One waitpid that returns a dead child.  The handle is updated before the
\* event is appended; a child no handle names is only collected.
ReapOne(c) ==
    /\ pc \in ReapPoints /\ proc[c] = "zombie"
    /\ proc' = [proc EXCEPT ![c] = "reaped"]
    /\ IF pid[c]
       THEN /\ state' = [state EXCEPT ![c] = "Exited"]
            /\ exitCode' = [exitCode EXCEPT ![c] = ReportedCode(c)]
            /\ pid' = ReapPid(c)
            /\ \/ /\ Append1(Event("CONTAINER_EXIT", c, ReportedCode(c)))
                  /\ UNCHANGED pc
               \/ /\ "store" \in Faults
                  /\ pc' = "err" /\ UNCHANGED events
       ELSE UNCHANGED <<state, exitCode, pid, events, pc>>
    /\ UNCHANGED <<settings, loopVars, backoff, restartTimes, netns, status, wait, pend>>

-----------------------------------------------------------------------------
(* tick *)

Tick ==
    /\ pc = "idle"
    /\ Cardinality({i \in DOMAIN events : events[i].ev = "POD_EXIT"}) < MaxPodExits
    /\ pc' = "tick_reap" /\ idx' = 1
    /\ UNCHANGED <<settings, polls, handleVars, restartTimes, netns, storeVars, procVars>>

TickReaped ==
    /\ pc = "tick_reap" /\ NoZombie
    /\ pc' = "tick_scan"
    /\ UNCHANGED <<settings, loopVars, handleVars, restartTimes, netns, storeVars, procVars>>

should_restart(c) ==
    /\ state[c] = "Exited"
    /\ \/ settings.policy = "Always"
       \/ settings.policy = "OnFailure" /\ exitCode[c] # 0

\* next_backoff doubles the stored value first, up to 30 s.
NextBackoff(b) == IF 2 * b < 30 THEN 2 * b ELSE 30

\* A container that has been running for ten seconds starts over with the initial
\* backoff (how long it has run is not modelled).
reset_backoff_if_stable(c) ==
    IF state[c] = "Running" THEN {backoff, [backoff EXCEPT ![c] = 1]} ELSE {backoff}

\* One turn of tick's loop.  is_crash_looping first forgets the restarts older
\* than ten minutes: any number of them.
TickScan ==
    /\ pc = "tick_scan" /\ idx <= N
    /\ IF should_restart(idx)
       THEN \E kept \in 0..restartTimes :
              IF kept >= settings.max_restarts
              THEN /\ pc' = "stop_all" /\ idx' = 1
                   /\ restartTimes' = kept
                   /\ UNCHANGED handleVars
              ELSE /\ state' = [state EXCEPT ![idx] = "Backoff"]
                   /\ backoff' = [backoff EXCEPT ![idx] = NextBackoff(@)]
                   /\ restartTimes' = kept + 1
                   /\ idx' = idx + 1
                   /\ UNCHANGED <<pc, exitCode, pid>>
       ELSE /\ backoff' \in reset_backoff_if_stable(idx)
            /\ idx' = idx + 1
            /\ UNCHANGED <<pc, state, exitCode, pid, restartTimes>>
    /\ UNCHANGED <<settings, polls, netns, storeVars, procVars>>

TickDone ==
    /\ pc = "tick_scan" /\ idx > N
    /\ pc' = "idle"
    /\ UNCHANGED <<settings, loopVars, handleVars, restartTimes, netns, storeVars, procVars>>

\* Mutant: stop_all forgets to clear the pid.
StopAll_KeepsPid ==
    /\ pc = "stop_all" /\ idx <= N
    /\ IF pid[idx]
       THEN /\ state' = [state EXCEPT ![idx] = "Exited"]
            /\ Append1(Event("CONTAINER_EXIT", idx, 0))
       ELSE UNCHANGED <<state, events>>
    /\ idx' = idx + 1
    /\ UNCHANGED <<settings, pc, polls, exitCode, pid, backoff, restartTimes, netns,
                   status, procVars>>

\* stop_all marks every container with a pid as exited and reports code 0; no
\* signal is sent.
StopAll ==
    /\ pc = "stop_all" /\ idx <= N
    /\ IF pid[idx]
       THEN /\ state' = [state EXCEPT ![idx] = "Exited"]
            /\ exitCode' = [exitCode EXCEPT ![idx] = 0]
            /\ pid' = [pid EXCEPT ![idx] = FALSE]
            /\ \/ /\ Append1(Event("CONTAINER_EXIT", idx, 0))
                  /\ idx' = idx + 1 /\ UNCHANGED pc
               \/ "store" \in Faults /\ pc' = "err" /\ UNCHANGED <<idx, events>>
       ELSE idx' = idx + 1 /\ UNCHANGED <<pc, state, exitCode, pid, events>>
    /\ UNCHANGED <<settings, polls, backoff, restartTimes, netns, status, procVars>>

\* cleanup_network, best effort.
CleanupNetwork ==
    /\ \/ pc = "stop_all" /\ idx > N /\ pc' = "pod_exit_all"
       \/ pc = "cleanup" /\ pc' = "pod_exit"
    /\ netns' \in {FALSE} \cup (IF "kernel" \in Faults THEN {netns} ELSE {})
    /\ UNCHANGED <<settings, loopVars, handleVars, restartTimes, storeVars, procVars>>

-----------------------------------------------------------------------------
(* stop_graceful *)

StopGraceful ==
    /\ pc = "idle"
    /\ pc' = "stop_requested"
    /\ UNCHANGED <<settings, loopVars, handleVars, restartTimes, netns, storeVars, procVars>>

\* The event is appended before the signal is sent.
Forward(point, sig, next) ==
    /\ pc = point
    /\ \/ /\ idx <= N
          /\ IF pid[idx]
             THEN \/ /\ Append1(Event(sig, idx, 0))
                     /\ pend' = [pend EXCEPT ![idx] = @ \cup {sig}]
                     /\ idx' = idx + 1 /\ UNCHANGED pc
                  \/ "store" \in Faults /\ pc' = "err" /\ UNCHANGED <<idx, events, pend>>
             ELSE idx' = idx + 1 /\ UNCHANGED <<pc, events, pend>>
       \/ idx > N /\ pc' = next /\ UNCHANGED <<idx, events, pend>>
    /\ polls' = 0
    /\ UNCHANGED <<settings, handleVars, restartTimes, netns, status, proc, wait>>

\* Mutant: the first round already sends SIGKILL.
ForwardTerm_Kills == Forward("term", "SIGKILL", "grace")

ForwardTerm == Forward("term", "SIGTERM", "grace")
ForwardKill == Forward("kill", "SIGKILL", "kill_wait")

\* Mutant: the grace period ends without the SIGKILL round.
GraceTimeout_Cleanup ==
    /\ pc = "grace"
    /\ pc' = "cleanup"
    /\ UNCHANGED <<settings, loopVars, handleVars, restartTimes, netns, storeVars, procVars>>

\* `while start.elapsed() < timeout` ends; a turn may last longer than its sleep.
GraceTimeout ==
    /\ pc = "grace"
    /\ pc' = "timeout"
    /\ UNCHANGED <<settings, loopVars, handleVars, restartTimes, netns, storeVars, procVars>>

\* The environment assumption behind prompt: by the last turn (0.9 s after
\* it was sent) SIGKILL has taken effect.
KillInTime == settings.prompt => \A c \in Containers : "SIGKILL" \in pend[c] => ~Alive(c)

\* Mutant: the turns are not counted.
Poll_Uncounted ==
    /\ \/ pc = "grace" /\ pc' = "grace_reap"
       \/ pc = "kill_wait" /\ pc' = "kill_reap"
    /\ UNCHANGED <<settings, loopVars, handleVars, restartTimes, netns, storeVars, procVars>>

\* One more turn of either wait: at most GracePolls before the timeout, at most
\* KillPolls after SIGKILL.
Poll ==
    /\ \/ pc = "grace" /\ polls < GracePolls /\ pc' = "grace_reap"
       \/ /\ pc = "kill_wait" /\ polls < KillPolls /\ pc' = "kill_reap"
          /\ polls = KillPolls - 1 => KillInTime
    /\ polls' = polls + 1
    /\ UNCHANGED <<settings, idx, handleVars, restartTimes, netns, storeVars, procVars>>

PollReaped ==
    /\ pc \in {"grace_reap", "kill_reap"} /\ NoZombie
    /\ pc' = IF AllExited THEN "cleanup"
             ELSE IF pc = "grace_reap" THEN "grace" ELSE "kill_wait"
    /\ UNCHANGED <<settings, loopVars, handleVars, restartTimes, netns, storeVars, procVars>>

\* The turns are used up: cleanup happens whether or not everyone is gone.
KillWaitOver ==
    /\ pc = "kill_wait" /\ polls = KillPolls
    /\ pc' = "cleanup"
    /\ UNCHANGED <<settings, loopVars, handleVars, restartTimes, netns, storeVars, procVars>>

\* The CLI ends after stop_graceful or after any error, or gl is killed: every
\* child that has already called prctl(PR_SET_PDEATHSIG) gets SIGKILL.
SupervisorExits ==
    /\ pc # "exited"
    /\ pc \in {"returned", "err"} \/ "crash" \in Faults
    /\ pc' = "exited"
    /\ pend' = [c \in Containers |->
                  IF proc[c] \in {"setup", "execed"} THEN pend[c] \cup {"SIGKILL"}
                                                     ELSE pend[c]]
    /\ UNCHANGED <<settings, loopVars, handleVars, restartTimes, netns, storeVars, proc, wait>>

-----------------------------------------------------------------------------
(* The container processes *)

procStep == <<settings, pc, loopVars, handleVars, restartTimes, netns, storeVars>>

Dies(c, kind, n) ==
    /\ proc' = [proc EXCEPT ![c] = "zombie"]
    /\ wait' = [wait EXCEPT ![c] = [kind |-> kind, n |-> n]]
    /\ UNCHANGED <<pend, procStep>>

\* container_child_exec: set_pdeathsig, then the fallible steps up to execv
\* (its own CONTAINER_START event included); any failure exits with 127.
ChildStep(c) ==
    \/ /\ proc[c] \in {"forked", "setup"}
       /\ proc' = [proc EXCEPT ![c] = IF @ = "forked" THEN "setup" ELSE "execed"]
       /\ UNCHANGED <<wait, pend, procStep>>
    \/ /\ proc[c] \in {"forked", "setup"} /\ "kernel" \in Faults
       /\ Dies(c, "exited", 127)

ContainerExits(c) ==
    /\ proc[c] = "execed"
    /\ \E code \in ExitCodes : Dies(c, "exited", code)

\* SIGTERM ends a process that has not exec'ed; a workload may also ignore it.
TakesTerm(c) ==
    /\ Alive(c) /\ "SIGTERM" \in pend[c]
    /\ \/ Dies(c, "signaled", 15)
       \/ /\ proc[c] = "execed"
          /\ pend' = [pend EXCEPT ![c] = @ \ {"SIGTERM"}]
          /\ UNCHANGED <<proc, wait, procStep>>

TakesKill(c) ==
    /\ Alive(c)
    /\ "SIGKILL" \in pend[c] \/ "oom" \in Faults
    /\ Dies(c, "signaled", 9)

-----------------------------------------------------------------------------
SupervisorStep ==
    \/ StoreRefuses \/ StoreGardenManifest \/ CreateRun \/ AppendPodEvent \/ MarkStopped
    \/ SetupPodNetwork \/ StartContainer \/ ContainerForked
    \/ (\E c \in Containers : ReapOne(c))
    \/ TickReaped \/ TickScan \/ TickDone \/ StopAll \/ CleanupNetwork
    \/ ForwardTerm \/ ForwardKill \/ GraceTimeout \/ Poll \/ PollReaped
    \/ KillWaitOver

ProcessStep == \E c \in Containers :
    ChildStep(c) \/ ContainerExits(c) \/ TakesTerm(c) \/ TakesKill(c)

Finished == pc = "exited" /\ (\A c \in Containers : ~Alive(c)) /\ UNCHANGED vars

Next == SupervisorStep \/ ProcessStep \/ Tick \/ StopGraceful \/ SupervisorExits \/ Finished

Spec == Init /\ [][Next]_vars

\* The supervisor thread runs, SIGKILL is delivered; containers owe nothing.
FairSpec ==
    /\ Spec
    /\ WF_vars(SupervisorStep)
    /\ \A c \in Containers : WF_vars("SIGKILL" \in pend[c] /\ TakesKill(c))

-----------------------------------------------------------------------------
(* Properties *)

Points == StorePoints \cup ReapPoints \cup
    {"net", "fork", "idle", "tick_scan", "stop_all", "term", "grace", "kill",
     "kill_wait", "cleanup", "returned", "err", "exited"}

PodNames == {"POD_NET_READY", "POD_STOP_REQUESTED", "POD_TIMEOUT", "POD_EXIT"}
ContainerNames == {"CONTAINER_FORKED", "CONTAINER_EXIT", "SIGTERM", "SIGKILL"}
EventRecords == [ev : PodNames, c : {0}, n : {0}]
                  \cup [ev : ContainerNames, c : Containers, n : 0..255]

\* Type correctness of the pod's state.
TypeOK ==
    /\ settings \in Supervised
    /\ pc \in Points
    /\ idx \in 1..(N + 1) /\ polls \in Nat
    /\ state \in [Containers -> {"Init", "Starting", "Running", "Exited", "Backoff"}]
    /\ exitCode \in [Containers -> 0..255]
    /\ pid \in [Containers -> BOOLEAN]
    /\ backoff \in [Containers -> 1..30]
    /\ restartTimes \in Nat
    /\ netns \in BOOLEAN
    /\ status \in {"absent", "Init", "Exited0"}
    /\ events \in Seq(EventRecords)
    /\ proc \in [Containers -> {"none", "forked", "setup", "execed", "zombie", "reaped"}]
    /\ wait \in [Containers -> [kind : {"exited"}, n : 0..255]
                                \cup [kind : {"signaled"}, n : {9, 15}]]
    /\ pend \in [Containers -> SUBSET {"SIGTERM", "SIGKILL"}]

\* A pid held in a handle names a process that has not been collected: no
\* signal of stop_graceful can reach a recycled pid.
PidNamesOwnProcess ==
    \A c \in Containers : pid[c] => Alive(c) \/ proc[c] = "zombie"

Is(i, name, c) == events[i].ev = name /\ events[i].c = c
Happened(name, c) == \E i \in DOMAIN events : Is(i, name, c)
First(i, name, c) == Is(i, name, c) /\ \A j \in 1..(i - 1) : ~Is(j, name, c)
FirstAt(name, c) == CHOOSE i \in DOMAIN events : First(i, name, c)

\* CONTAINER_EXIT is reported at most once for a container, however reaping in
\* tick, in the two waits of a stop and in stop_all interleave.
ExitReportedOnce ==
    \A i, j \in DOMAIN events :
        events[i].ev = "CONTAINER_EXIT" /\ events[j].ev = "CONTAINER_EXIT"
          /\ events[i].c = events[j].c => i = j

\* A restart is booked at most once for a container, so a crash loop can be
\* declared only below N.  It ends in stop_all, which reports exits that have
\* not happened (it signals nobody: a TODO of the code).
NoCrashLoop == settings.max_restarts >= N

\* A reported exit is a collected process with that very code, where no crash
\* loop can be declared.
ReportedExitIsTrue ==
    NoCrashLoop => \A i \in DOMAIN events : events[i].ev = "CONTAINER_EXIT" =>
        /\ proc[events[i].c] = "reaped"
        /\ wait[events[i].c] \in {[kind |-> "exited", n |-> events[i].n],
                                  [kind |-> "signaled", n |-> events[i].n - 128]}

\* SIGKILL is the last resort: it is forwarded to a container only after
\* POD_TIMEOUT and after that container was sent SIGTERM, and never to one
\* whose exit has been reported.
KillOnlyAfterTimeout ==
    \A c \in Containers : Happened("SIGKILL", c) =>
        /\ Happened("POD_TIMEOUT", 0) /\ FirstAt("POD_TIMEOUT", 0) < FirstAt("SIGKILL", c)
        /\ Happened("SIGTERM", c) /\ FirstAt("SIGTERM", c) < FirstAt("POD_TIMEOUT", 0)
        /\ Happened("CONTAINER_EXIT", c) =>
              FirstAt("SIGKILL", c) < FirstAt("CONTAINER_EXIT", c)

\* POD_NET_READY -> ... -> CONTAINER_EXIT x N -> POD_EXIT (README): once POD_EXIT
\* is appended every forked container has been reported and is really gone,
\* where no crash loop can be declared and SIGKILL is prompt.
PodExitMeansStopped ==
    NoCrashLoop /\ settings.prompt /\ Happened("POD_EXIT", 0) => \A c \in Containers :
        Happened("CONTAINER_FORKED", c) =>
            /\ Happened("CONTAINER_EXIT", c)
            /\ FirstAt("CONTAINER_EXIT", c) < FirstAt("POD_EXIT", 0)
            /\ ~Alive(c)

\* stop_graceful returns even if a container ignores SIGTERM for ever.
StopReturns == (pc = "stop_requested") ~> (pc \in {"returned", "err", "exited"})

-----------------------------------------------------------------------------
(* The inductive invariant *)

\* Where start has not returned yet, where a crash loop has been declared, and
\* where SIGKILL may have been forwarded.
StartPoints == {"manifest", "create_run", "net", "net_ready", "fork", "forked"}
LoopPoints == {"stop_all", "pod_exit_all", "status_exited_all"}
LatePoints == {"kill", "kill_wait", "kill_reap", "cleanup", "pod_exit", "status_exited",
               "returned", "err", "exited"}

\* A handle with a pid is not marked as exited, and its process is there.
HandleInv ==
    /\ pc \in {"fork", "forked"} => idx <= N
    /\ pc = "forked" => pid[idx]
    /\ \A c \in Containers : pid[c] => state[c] \in {"Starting", "Running"}
                                     /\ (Alive(c) \/ proc[c] = "zombie")

\* A container whose exit is reported has lost its pid for good.
ReportInv ==
    /\ \A c \in Containers : Happened("CONTAINER_EXIT", c) => ~pid[c] /\ pc \notin StartPoints
    /\ ExitReportedOnce

\* Every restart that is booked has a container waiting for it.
InBackoff == {c \in Containers : state[c] = "Backoff"}
RestartInv ==
    /\ pc \in StartPoints => restartTimes = 0
    /\ restartTimes <= Cardinality(InBackoff)
    /\ NoCrashLoop => pc \notin LoopPoints

\* What has happened has happened a first time.
FirstsExist ==
    \A name \in PodNames \cup ContainerNames, c \in 0..N : Happened(name, c) =>
        \E i \in DOMAIN events : First(i, name, c)

\* A container was sent SIGTERM before the timeout.
TermFirst(c) == \A j \in DOMAIN events : Is(j, "POD_TIMEOUT", 0) =>
                    \E k \in 1..(j - 1) : Is(k, "SIGTERM", c)

\* A SIGKILL comes after the timeout, and not after an exit.
KillsInOrder ==
    \A c \in Containers : \A i \in DOMAIN events : Is(i, "SIGKILL", c) =>
        /\ TermFirst(c)
        /\ \E j \in 1..(i - 1) : Is(j, "POD_TIMEOUT", 0)
        /\ \A j \in DOMAIN events : Is(j, "CONTAINER_EXIT", c) => i < j

\* How far the two rounds of signals have come.
SignalInv ==
    /\ pc \notin LatePoints => /\ ~Happened("POD_TIMEOUT", 0)
                               /\ \A c \in Containers : ~Happened("SIGKILL", c)
    /\ \A c \in Containers : pid[c] =>
          /\ (pc = "term" /\ c < idx) \/ pc \in {"grace", "grace_reap", "timeout"} =>
                Happened("SIGTERM", c)
          /\ pc = "kill" => TermFirst(c)
    /\ pc = "kill" => Happened("POD_TIMEOUT", 0)
    /\ KillsInOrder

\* SIGKILL is pending for whoever is waited for after the timeout; where it is
\* prompt the last turn finds nobody alive.
WaitInv ==
    /\ \A c \in Containers :
          pid[c] /\ ((pc = "kill" /\ c < idx) \/ pc \in {"kill_wait", "kill_reap"}) =>
             "SIGKILL" \in pend[c]
    /\ pc = "kill_reap" => polls <= KillPolls
    /\ settings.prompt =>
          /\ pc = "kill_wait" => polls < KillPolls
          /\ pc = "kill_reap" /\ polls = KillPolls =>
                \A c \in Containers : pid[c] => ~Alive(c)
          /\ pc \in {"cleanup", "pod_exit"} => AllExited

\* A forked container that is not running any more has been reported, and before
\* the pod's end is.
EndInv ==
    /\ Happened("POD_EXIT", 0) => pc \notin StartPoints
    /\ NoCrashLoop => \A c \in Containers : Happened("CONTAINER_FORKED", c) =>
          /\ pid[c] \/ Happened("CONTAINER_EXIT", c) \/ pc \in {"err", "exited"}
          /\ settings.prompt => \A j \in DOMAIN events : Is(j, "POD_EXIT", 0) =>
                \E i \in 1..(j - 1) : Is(i, "CONTAINER_EXIT", c)

PodInv == TypeOK /\ HandleInv /\ ReportInv /\ RestartInv /\ ReportedExitIsTrue
            /\ FirstsExist /\ SignalInv /\ WaitInv /\ EndInv
=============================================================================
