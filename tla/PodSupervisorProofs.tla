------------------------- MODULE PodSupervisorProofs --------------------------
(***************************************************************************)
(* The inductive invariant of PodSupervisor, for any number of containers,   *)
(* any settings and any faults, and what it says of pids, of reported exits, *)
(* of the two rounds of signals and of the pod's end.                        *)
(***************************************************************************)
EXTENDS PodSupervisor, SequenceTheorems, FiniteSetTheorems, TLAPS

-----------------------------------------------------------------------------
(* Events *)

\* What the supervisor appends is an event.
LEMMA ContainerEvent ==
    ASSUME NEW name \in ContainerNames, NEW c \in Containers, NEW n \in 0..255
    PROVE  /\ Event(name, c, n) \in EventRecords
           /\ Event(name, c, n).ev = name /\ Event(name, c, n).c = c
           /\ Event(name, c, n).n = n
BY DEF Event, EventRecords

\* The events of the pod itself name no container.
LEMMA PodLevelEvent ==
    ASSUME NEW name \in PodNames
    PROVE  /\ Event(name, 0, 0) \in EventRecords
           /\ Event(name, 0, 0).ev = name /\ Event(name, 0, 0).c = 0
BY DEF Event, EventRecords

\* Appending an event leaves the earlier ones where they are.
LEMMA AppendKeeps ==
    ASSUME TypeOK, NEW e \in EventRecords, Append1(e)
    PROVE  /\ events' \in Seq(EventRecords)
           /\ Len(events) \in Nat /\ Len(events') = Len(events) + 1
           /\ DOMAIN events = 1..Len(events) /\ DOMAIN events' = 1..(Len(events) + 1)
           /\ \A i \in 1..Len(events) : events'[i] = events[i]
           /\ events'[Len(events) + 1] = e
<1>1. events \in Seq(EventRecords)
  BY DEF TypeOK
<1> QED
  BY <1>1, LenProperties, AppendProperties DEF Append1

\* What has happened after an event is appended.
LEMMA AppendHappens ==
    ASSUME TypeOK, NEW e \in EventRecords, Append1(e), NEW name, NEW c
    PROVE  /\ \A i \in DOMAIN events : Is(i, name, c)' <=> Is(i, name, c)
           /\ \A i \in Int : i = Len(events) + 1 => (Is(i, name, c)' <=> e.ev = name /\ e.c = c)
           /\ Happened(name, c)' <=> Happened(name, c) \/ (e.ev = name /\ e.c = c)
<1>1. /\ Len(events) \in Nat
      /\ DOMAIN events = 1..Len(events) /\ DOMAIN events' = 1..(Len(events) + 1)
      /\ \A i \in 1..Len(events) : events'[i] = events[i]
      /\ events'[Len(events) + 1] = e
  BY AppendKeeps
<1>2. ASSUME NEW i \in DOMAIN events PROVE Is(i, name, c)' <=> Is(i, name, c)
  <2>1. events'[i] = events[i]
    BY <1>1
  <2> QED
    BY <2>1 DEF Is
<1>3. ASSUME NEW i \in Int, i = Len(events) + 1
      PROVE  Is(i, name, c)' <=> e.ev = name /\ e.c = c
  BY <1>1, <1>3 DEF Is
<1>4. \A i \in DOMAIN events' : i \in DOMAIN events \/ i = Len(events) + 1
  BY <1>1
<1>5. DOMAIN events \subseteq DOMAIN events' /\ Len(events) + 1 \in DOMAIN events' /\ Len(events) + 1 \in Int
  BY <1>1
<1>6. Happened(name, c)' <=> \E i \in DOMAIN events' : Is(i, name, c)'
  BY DEF Happened
<1> QED
  BY <1>2, <1>3, <1>4, <1>5, <1>6 DEF Happened

\* Appending an event of either form.
LEMMA AppendTypes ==
    ASSUME TypeOK, NEW name, NEW c, NEW n,
           \/ name \in PodNames /\ c = 0 /\ n = 0
           \/ name \in ContainerNames /\ c \in Containers /\ n \in 0..255,
           Append1(Event(name, c, n))
    PROVE  events' \in Seq(EventRecords)
BY ContainerEvent, PodLevelEvent, AppendKeeps

-----------------------------------------------------------------------------
(* Types *)

\* How a process ended makes a code that the supervisor can report.
LEMMA CodeType ==
    ASSUME TypeOK, NEW c \in Containers
    PROVE  ReportedCode(c) \in 0..255
<1>1. \/ wait[c] \in [kind : {"exited"}, n : 0..255]
      \/ wait[c] \in [kind : {"signaled"}, n : {9, 15}]
  BY DEF TypeOK
<1> QED
  BY <1>1 DEF ReportedCode

\* The induction step for the types.
LEMMA TypeStep ==
    ASSUME TypeOK, HandleInv, [Next]_vars
    PROVE  TypeOK'
<1> USE DEF handleVars, procVars, storeVars, loopVars, procStep
<1>n. N \in Nat \ {0} /\ Containers = 1..N
  BY PodAssumption DEF Containers
<1>p. Points = {"manifest", "create_run", "net_ready", "forked", "stop_requested", "timeout",
                "pod_exit", "pod_exit_all", "status_exited", "status_exited_all",
                "tick_reap", "grace_reap", "kill_reap", "net", "fork", "idle", "tick_scan",
                "stop_all", "term", "grace", "kill", "kill_wait", "cleanup", "returned",
                "err", "exited"}
  BY DEF Points, StorePoints, ReapPoints
<1>e. {"CONTAINER_FORKED", "CONTAINER_EXIT", "SIGTERM", "SIGKILL"} \subseteq ContainerNames
  BY DEF ContainerNames
<1>c. 0 \in 0..255
  OBVIOUS
<1>1. CASE StoreRefuses
  BY <1>p, <1>1 DEF TypeOK, StoreRefuses
<1>2. CASE StoreGardenManifest
  BY <1>p, <1>2 DEF TypeOK, StoreGardenManifest
<1>3. CASE CreateRun
  BY <1>p, <1>3 DEF TypeOK, CreateRun
<1>4. CASE AppendPodEvent
  <2>1. PICK x \in {"net_ready", "stop_requested", "timeout", "pod_exit", "pod_exit_all"} : pc = x
    BY <1>4 DEF AppendPodEvent, PodEvents
  <2>2. PodEvents[pc][1] \in PodNames /\ PodEvents[pc][2] \in Points
    BY <1>p, <2>1 DEF PodEvents, PodNames
  <2>3. events' \in Seq(EventRecords)
    BY <1>4, <1>c, <2>2, AppendTypes DEF AppendPodEvent, PodEvent
  <2> QED
    BY <1>4, <1>n, <2>2, <2>3 DEF TypeOK, AppendPodEvent
<1>5. CASE MarkStopped
  BY <1>p, <1>5 DEF TypeOK, MarkStopped
<1>6. CASE SetupPodNetwork
  BY <1>p, <1>6 DEF TypeOK, SetupPodNetwork
<1>7. CASE StartContainer
  BY <1>p, <1>7, <1>n DEF TypeOK, StartContainer, HandleInv
<1>8. CASE ContainerForked
  <2>0. idx \in Containers
    BY <1>8, <1>n DEF ContainerForked, HandleInv, TypeOK
  <2>1. events' \in Seq(EventRecords)
    BY <1>8, <1>c, <1>e, <2>0, AppendTypes DEF ContainerForked
  <2>2. idx' \in 1..(N + 1) /\ pc' \in Points
    BY <1>p, <1>8, <1>n, <2>0 DEF TypeOK, ContainerForked
  <2> QED
    BY <1>8, <2>1, <2>2 DEF TypeOK, ContainerForked
<1>9. ASSUME NEW c \in Containers, ReapOne(c) PROVE TypeOK'
  <2>1. ReportedCode(c) \in 0..255
    BY CodeType
  <2>2. CASE pid[c]
    <3>1. events' \in Seq(EventRecords)
      BY <1>9, <1>c, <1>e, <2>1, <2>2, AppendTypes DEF ReapOne, TypeOK
    <3>2. pc' \in Points
      BY <1>p, <1>9, <2>2 DEF ReapOne, TypeOK
    <3>3. /\ state' = [state EXCEPT ![c] = "Exited"]
          /\ exitCode' = [exitCode EXCEPT ![c] = ReportedCode(c)]
          /\ pid' = [pid EXCEPT ![c] = FALSE] /\ proc' = [proc EXCEPT ![c] = "reaped"]
          /\ UNCHANGED <<settings, idx, polls, backoff, restartTimes, netns, status, wait, pend>>
      BY <1>9, <2>2 DEF ReapOne, ReapPid
    <3>4. exitCode' \in [Containers -> 0..255] /\ pid' \in [Containers -> BOOLEAN]
      BY <2>1, <3>3 DEF TypeOK
    <3> QED
      BY <3>1, <3>2, <3>3, <3>4 DEF TypeOK
  <2>3. CASE ~pid[c]
    BY <1>9, <2>3 DEF TypeOK, ReapOne
  <2> QED
    BY <2>2, <2>3
<1>10. CASE TickReaped
  BY <1>p, <1>10 DEF TypeOK, TickReaped
<1>24. CASE TickDone
  BY <1>p, <1>24 DEF TypeOK, TickDone
<1>11. CASE TickScan
  <2>1. ASSUME NEW b \in 1..30 PROVE NextBackoff(b) \in 1..30
    BY DEF NextBackoff
  <2>2. idx' \in 1..(N + 1) /\ pc' \in Points
    BY <1>p, <1>11, <1>n DEF TickScan, TypeOK
  <2>3. restartTimes' \in Nat
    BY <1>11 DEF TickScan, TypeOK
  <2>4. state' \in [Containers -> {"Init", "Starting", "Running", "Exited", "Backoff"}]
    BY <1>11 DEF TickScan, TypeOK
  <2>5. backoff' \in [Containers -> 1..30]
    <3>1. \/ backoff' = backoff \/ backoff' = [backoff EXCEPT ![idx] = 1]
          \/ backoff' = [backoff EXCEPT ![idx] = NextBackoff(backoff[idx])]
      BY <1>11 DEF TickScan, reset_backoff_if_stable
    <3>2. idx \in Containers /\ backoff \in [Containers -> 1..30]
      BY <1>11, <1>n DEF TickScan, TypeOK
    <3>3. NextBackoff(backoff[idx]) \in 1..30
      BY <2>1, <3>2
    <3> QED
      BY <3>1, <3>2, <3>3
  <2> QED
    BY <1>11, <2>2, <2>3, <2>4, <2>5 DEF TickScan, TypeOK
<1>12. CASE StopAll
  <2>1. events' \in Seq(EventRecords)
    <3>1. CASE UNCHANGED events
      BY <3>1 DEF TypeOK
    <3>2. CASE Append1(Event("CONTAINER_EXIT", idx, 0))
      <4>1. idx \in Containers
        BY <1>12, <1>n DEF StopAll, TypeOK
      <4> QED
        BY <1>c, <1>e, <3>2, <4>1, AppendTypes
    <3> QED
      BY <1>12, <3>1, <3>2 DEF StopAll
  <2>2. idx' \in 1..(N + 1) /\ pc' \in Points
    BY <1>p, <1>12, <1>n DEF TypeOK, StopAll
  <2>3. CASE pid[idx]
    <3>1. /\ state' = [state EXCEPT ![idx] = "Exited"]
          /\ exitCode' = [exitCode EXCEPT ![idx] = 0] /\ pid' = [pid EXCEPT ![idx] = FALSE]
          /\ UNCHANGED <<settings, polls, backoff, restartTimes, netns, status, procVars>>
      BY <1>12, <2>3 DEF StopAll
    <3>2. exitCode' \in [Containers -> 0..255]
      BY <1>c, <3>1 DEF TypeOK
    <3>3. pid' \in [Containers -> BOOLEAN]
      BY <3>1 DEF TypeOK
    <3> QED
      BY <2>1, <2>2, <3>1, <3>2, <3>3 DEF TypeOK
  <2>4. CASE ~pid[idx]
    BY <1>12, <2>1, <2>2, <2>4 DEF TypeOK, StopAll
  <2> QED
    BY <2>3, <2>4
<1>13. CASE CleanupNetwork
  BY <1>p, <1>13 DEF TypeOK, CleanupNetwork
<1>14. ASSUME NEW point, NEW sig \in {"SIGTERM", "SIGKILL"}, NEW next \in Points,
              Forward(point, sig, next)
       PROVE  TypeOK'
  <2>1. events' \in Seq(EventRecords)
    <3>1. CASE UNCHANGED events
      BY <3>1 DEF TypeOK
    <3>2. CASE idx <= N /\ Append1(Event(sig, idx, 0))
      <4>1. idx \in Containers
        BY <1>n, <3>2 DEF TypeOK
      <4> QED
        BY <1>c, <1>e, <3>2, <4>1, AppendTypes
    <3> QED
      BY <1>14, <3>1, <3>2 DEF Forward
  <2>2. idx' \in 1..(N + 1) /\ pc' \in Points
    BY <1>p, <1>14, <1>n DEF TypeOK, Forward
  <2>3. pend' \in [Containers -> SUBSET {"SIGTERM", "SIGKILL"}]
    BY <1>14, <1>n DEF TypeOK, Forward
  <2> QED
    BY <1>14, <2>1, <2>2, <2>3 DEF TypeOK, Forward
<1>15. CASE ForwardTerm \/ ForwardKill
  BY <1>p, <1>14, <1>15 DEF ForwardTerm, ForwardKill
<1>16. CASE GraceTimeout
  BY <1>p, <1>16 DEF TypeOK, GraceTimeout
<1>25. CASE Poll
  BY <1>p, <1>25 DEF TypeOK, Poll
<1>26. CASE PollReaped
  BY <1>p, <1>26 DEF TypeOK, PollReaped
<1>27. CASE KillWaitOver
  BY <1>p, <1>27 DEF TypeOK, KillWaitOver
<1>17. CASE Tick
  BY <1>p, <1>17, <1>n DEF TypeOK, Tick
<1>28. CASE StopGraceful
  BY <1>p, <1>28, <1>n DEF TypeOK, StopGraceful
<1>18. CASE SupervisorExits
  BY <1>p, <1>18 DEF TypeOK, SupervisorExits
<1>19. ASSUME NEW c \in Containers, NEW kind, NEW n,
              Dies(c, kind, n), \/ kind = "exited" /\ n \in 0..255
                                \/ kind = "signaled" /\ n \in {9, 15}
       PROVE  TypeOK'
  BY <1>p, <1>19 DEF TypeOK, Dies
<1>20. ASSUME NEW c \in Containers, ChildStep(c) \/ ContainerExits(c) \/ TakesTerm(c) \/ TakesKill(c)
       PROVE  TypeOK'
  <2>1. CASE proc' = [proc EXCEPT ![c] = IF @ = "forked" THEN "setup" ELSE "execed"]
                /\ UNCHANGED <<wait, pend, procStep>>
    BY <1>p, <2>1 DEF TypeOK
  <2>2. CASE pend' = [pend EXCEPT ![c] = @ \ {"SIGTERM"}] /\ UNCHANGED <<proc, wait, procStep>>
    BY <2>2 DEF TypeOK
  <2> QED
    BY <1>19, <1>20, <2>1, <2>2, PodAssumption DEF ChildStep, ContainerExits, TakesTerm, TakesKill
<1>21. CASE UNCHANGED vars
  BY <1>21 DEF TypeOK, vars
<1>22. CASE ProcessStep
  BY <1>20, <1>22 DEF ProcessStep
<1>23. CASE SupervisorStep
  BY <1>1, <1>2, <1>3, <1>4, <1>5, <1>6, <1>7, <1>8, <1>9, <1>10, <1>11, <1>12, <1>13,
     <1>15, <1>16, <1>23, <1>24, <1>25, <1>26, <1>27 DEF SupervisorStep
<1> QED
  BY <1>17, <1>18, <1>21, <1>22, <1>23, <1>28 DEF Next, Finished

-----------------------------------------------------------------------------
(* Steps *)

\* How the supervisor comes to wait after SIGKILL and to the end of a stop.
WaitMoves ==
    \/ pc' \notin {"kill_wait", "kill_reap", "cleanup", "pod_exit"}
    \/ pc' = pc /\ polls' = polls
    \/ pc = "kill" /\ idx > N /\ pc' = "kill_wait" /\ polls' = 0
    \/ /\ pc = "kill_wait" /\ polls < KillPolls /\ pc' = "kill_reap" /\ polls' = polls + 1
       /\ polls = KillPolls - 1 => KillInTime
    \/ pc \in {"grace_reap", "kill_reap"} /\ AllExited /\ pc' = "cleanup"
    \/ pc = "kill_reap" /\ NoZombie /\ ~AllExited /\ pc' = "kill_wait" /\ polls' = polls
    \/ pc = "kill_wait" /\ polls = KillPolls /\ pc' = "cleanup"
    \/ pc = "cleanup" /\ pc' = "pod_exit"

\* A step of the supervisor that touches no handle, process or event, and the
\* ways it may go.
Quiet ==
    /\ UNCHANGED <<settings, state, pid, restartTimes, events, proc, wait, pend>>
    /\ pc' \in StartPoints => pc \in StartPoints
    /\ pc' \in {"fork", "forked"} => pc' = pc /\ idx' = idx
    /\ pc' \in LoopPoints => pc \in LoopPoints
    /\ pc' \notin LatePoints => pc \notin LatePoints
    /\ pc' \in {"term", "kill"} => pc' = pc /\ (idx' = idx \/ (idx' = idx + 1 /\ ~pid[idx]))
    /\ pc' \in {"grace", "grace_reap", "timeout"} =>
          pc \in {"grace", "grace_reap", "timeout"} \/ (pc = "term" /\ idx > N)
    /\ pc \in {"err", "exited"} => pc' \in {"err", "exited"}
    /\ WaitMoves

QuietActions ==
    \/ StoreRefuses \/ StoreGardenManifest \/ CreateRun \/ MarkStopped \/ SetupPodNetwork
    \/ TickReaped \/ TickDone \/ CleanupNetwork \/ GraceTimeout \/ Poll \/ PollReaped
    \/ KillWaitOver \/ Tick \/ StopGraceful \/ UNCHANGED vars

\* The steps that append nothing and collect no process are quiet.
LEMMA QuietStep ==
    ASSUME TypeOK, QuietActions
    PROVE  Quiet
<1>15. CASE UNCHANGED vars
  <2>1. UNCHANGED <<settings, pc, idx, state, pid, restartTimes, events, proc, wait, pend, polls>>
    BY <1>15 DEF vars, handleVars, procVars, storeVars, loopVars
  <2> QED
    BY <2>1 DEF Quiet, WaitMoves
<1> USE DEF handleVars, procVars, storeVars, loopVars, StartPoints, LoopPoints, LatePoints
<1>1. CASE StoreRefuses
  BY <1>1 DEF StoreRefuses, StorePoints, Quiet, WaitMoves
<1>2. CASE StoreGardenManifest
  BY <1>2 DEF StoreGardenManifest, Quiet, WaitMoves
<1>3. CASE CreateRun
  BY <1>3 DEF CreateRun, Quiet, WaitMoves
<1>4. CASE MarkStopped
  BY <1>4 DEF MarkStopped, Quiet, WaitMoves
<1>5. CASE SetupPodNetwork
  BY <1>5 DEF SetupPodNetwork, Quiet, WaitMoves
<1>6. CASE TickReaped
  BY <1>6 DEF TickReaped, Quiet, WaitMoves
<1>7. CASE TickDone
  BY <1>7 DEF TickDone, Quiet, WaitMoves
<1>8. CASE CleanupNetwork
  BY <1>8 DEF CleanupNetwork, Quiet, WaitMoves
<1>9. CASE GraceTimeout
  BY <1>9 DEF GraceTimeout, Quiet, WaitMoves
<1>10. CASE Poll
  BY <1>10 DEF Poll, Quiet, WaitMoves
<1>11. CASE PollReaped
  BY <1>11 DEF PollReaped, Quiet, WaitMoves
<1>12. CASE KillWaitOver
  BY <1>12 DEF KillWaitOver, Quiet, WaitMoves
<1>13. CASE Tick
  BY <1>13 DEF Tick, Quiet, WaitMoves
<1>14. CASE StopGraceful
  BY <1>14 DEF StopGraceful, Quiet, WaitMoves
<1> QED
  BY <1>1, <1>2, <1>3, <1>4, <1>5, <1>6, <1>7, <1>8, <1>9, <1>10, <1>11, <1>12, <1>13,
     <1>14, <1>15 DEF QuietActions

\* A step of a process, which was alive: it goes on or dies, and a pending
\* SIGKILL stays pending.
Lives(c) ==
    /\ UNCHANGED <<settings, pc, idx, polls, state, pid, restartTimes, events>>
    /\ Alive(c) /\ proc'[c] \in {"forked", "setup", "execed", "zombie"}
    /\ \A d \in Containers \ {c} : proc'[d] = proc[d] /\ wait'[d] = wait[d]
    /\ \A d \in Containers : "SIGKILL" \in pend[d] => "SIGKILL" \in pend'[d]

\* A container's own steps, and the signals it takes, leave the supervisor alone.
LEMMA ProcessLives ==
    ASSUME TypeOK, NEW c \in Containers,
           ChildStep(c) \/ ContainerExits(c) \/ TakesTerm(c) \/ TakesKill(c)
    PROVE  Lives(c)
<1> USE DEF handleVars, storeVars, loopVars, procStep
<1>1. ASSUME NEW kind, NEW n, Dies(c, kind, n), Alive(c) PROVE Lives(c)
  BY <1>1 DEF Dies, TypeOK, Lives
<1>2. CASE proc[c] \in {"forked", "setup"}
            /\ proc' = [proc EXCEPT ![c] = IF @ = "forked" THEN "setup" ELSE "execed"]
            /\ UNCHANGED <<wait, pend, procStep>>
  BY <1>2 DEF TypeOK, Lives, Alive
<1>3. CASE Alive(c) /\ pend' = [pend EXCEPT ![c] = @ \ {"SIGTERM"}]
            /\ UNCHANGED <<proc, wait, procStep>>
  <2>1. \A d \in Containers : "SIGKILL" \in pend[d] => "SIGKILL" \in pend'[d]
    BY <1>3 DEF TypeOK
  <2>2. UNCHANGED <<settings, pc, idx, polls, state, pid, restartTimes, events, proc, wait>>
    BY <1>3
  <2> QED
    BY <1>3, <2>1, <2>2 DEF Lives, Alive
<1>4. CASE ChildStep(c)
  BY <1>1, <1>2, <1>4 DEF ChildStep, Alive
<1>5. CASE ContainerExits(c)
  BY <1>1, <1>5 DEF ContainerExits, Alive
<1>6. CASE TakesTerm(c)
  BY <1>1, <1>3, <1>6 DEF TakesTerm
<1>7. CASE TakesKill(c)
  BY <1>1, <1>7 DEF TakesKill
<1> QED
  BY <1>4, <1>5, <1>6, <1>7

\* The other steps, by what they do to the handles and the events.
Reaps(c) ==
    /\ pc \in ReapPoints /\ proc[c] = "zombie" /\ pid[c]
    /\ proc' = [proc EXCEPT ![c] = "reaped"]
    /\ state' = [state EXCEPT ![c] = "Exited"] /\ pid' = [pid EXCEPT ![c] = FALSE]
    /\ \/ Append1(Event("CONTAINER_EXIT", c, ReportedCode(c))) /\ pc' = pc
       \/ pc' = "err" /\ UNCHANGED events
    /\ UNCHANGED <<settings, idx, polls, restartTimes, wait, pend>>

Collects(c) ==
    /\ proc[c] = "zombie" /\ ~pid[c] /\ proc' = [proc EXCEPT ![c] = "reaped"]
    /\ UNCHANGED <<settings, pc, idx, polls, state, pid, restartTimes, events, wait, pend>>

Books ==
    /\ pc = "tick_scan" /\ pc' = pc /\ idx \in Containers /\ state[idx] = "Exited"
    /\ state' = [state EXCEPT ![idx] = "Backoff"]
    /\ \E kept \in 0..restartTimes : restartTimes' = kept + 1
    /\ UNCHANGED <<settings, polls, pid, events, proc, wait, pend>>

GivesUp ==
    /\ pc = "tick_scan" /\ pc' = "stop_all" /\ idx \in Containers /\ state[idx] = "Exited"
    /\ \E kept \in 0..restartTimes : restartTimes' = kept /\ kept >= settings.max_restarts
    /\ UNCHANGED <<settings, polls, state, pid, events, proc, wait, pend>>

Marks ==
    /\ pc = "stop_all" /\ idx \in Containers /\ pid[idx]
    /\ state' = [state EXCEPT ![idx] = "Exited"] /\ pid' = [pid EXCEPT ![idx] = FALSE]
    /\ \/ Append1(Event("CONTAINER_EXIT", idx, 0)) /\ pc' = pc
       \/ pc' = "err" /\ UNCHANGED events
    /\ UNCHANGED <<settings, polls, restartTimes, proc, wait, pend>>

Sends(point, sig) ==
    /\ pc = point /\ pc' = pc /\ idx \in Containers /\ pid[idx] /\ idx' = idx + 1
    /\ Append1(Event(sig, idx, 0))
    /\ pend' = [pend EXCEPT ![idx] = @ \cup {sig}]
    /\ UNCHANGED <<settings, state, pid, restartTimes, proc, wait>>

\* Every step is one of these.
LEMMA StepCases ==
    ASSUME TypeOK, [Next]_vars
    PROVE  \/ Quiet \/ (\E c \in Containers : Lives(c) \/ Reaps(c) \/ Collects(c))
           \/ AppendPodEvent \/ StartContainer \/ ContainerForked
           \/ Books \/ GivesUp \/ Marks \/ Sends("term", "SIGTERM") \/ Sends("kill", "SIGKILL")
           \/ SupervisorExits
<1> USE DEF handleVars, procVars, storeVars, loopVars
<1>n. N \in Nat \ {0} /\ Containers = 1..N /\ idx \in 1..(N + 1)
  BY PodAssumption DEF Containers, TypeOK
<1>1. CASE QuietActions
  BY <1>1, QuietStep
<1>2. ASSUME NEW c \in Containers, ReapOne(c) PROVE Reaps(c) \/ Collects(c)
  <2>1. CASE pid[c]
    BY <1>2, <2>1 DEF ReapOne, ReapPid, Reaps
  <2>2. CASE ~pid[c]
    BY <1>2, <2>2 DEF ReapOne, Collects
  <2> QED
    BY <2>1, <2>2
<1>3. CASE TickScan
  <2>1. idx \in Containers /\ pc = "tick_scan"
        /\ UNCHANGED <<settings, polls, events, proc, wait, pend>>
    BY <1>3, <1>n DEF TickScan
  <2>2. CASE should_restart(idx)
    <3>1. PICK kept \in 0..restartTimes :
            IF kept >= settings.max_restarts
            THEN /\ pc' = "stop_all" /\ restartTimes' = kept /\ UNCHANGED handleVars
            ELSE /\ state' = [state EXCEPT ![idx] = "Backoff"]
                 /\ restartTimes' = kept + 1 /\ UNCHANGED <<pc, exitCode, pid>>
      BY <1>3, <2>2 DEF TickScan
    <3>2. CASE kept >= settings.max_restarts
      BY <2>1, <2>2, <3>1, <3>2 DEF GivesUp, should_restart
    <3>3. CASE ~(kept >= settings.max_restarts)
      BY <2>1, <2>2, <3>1, <3>3 DEF Books, should_restart
    <3> QED
      BY <3>2, <3>3
  <2>3. CASE ~should_restart(idx)
    <3>1. UNCHANGED <<pc, state, pid, restartTimes>>
      BY <1>3, <2>3 DEF TickScan
    <3> QED
      BY <2>1, <3>1 DEF Quiet, WaitMoves
  <2> QED
    BY <2>2, <2>3
<1>4. CASE StopAll
  <2>1. idx \in Containers /\ pc = "stop_all"
        /\ UNCHANGED <<settings, polls, restartTimes, proc, wait, pend>>
    BY <1>4, <1>n DEF StopAll
  <2>2. CASE pid[idx]
    BY <1>4, <2>1, <2>2 DEF StopAll, Marks
  <2>3. CASE ~pid[idx]
    <3>1. UNCHANGED <<pc, state, pid, events>>
      BY <1>4, <2>3 DEF StopAll
    <3> QED
      BY <2>1, <3>1 DEF Quiet, WaitMoves
  <2> QED
    BY <2>2, <2>3
<1>5. ASSUME NEW point, NEW sig, NEW next, Forward(point, sig, next),
             \/ point = "term" /\ next = "grace"
             \/ point = "kill" /\ next = "kill_wait"
      PROVE  Sends(point, sig) \/ Quiet
  <2>1. pc = point /\ polls' = 0 /\ UNCHANGED <<settings, state, pid, restartTimes, proc, wait>>
    BY <1>5 DEF Forward
  <2>2. CASE idx <= N /\ pid[idx] /\ Append1(Event(sig, idx, 0))
              /\ pend' = [pend EXCEPT ![idx] = @ \cup {sig}] /\ idx' = idx + 1 /\ pc' = pc
    BY <1>n, <2>1, <2>2 DEF Sends
  <2>3. CASE pc' = "err" /\ UNCHANGED <<idx, events, pend>>
    BY <1>5, <2>1, <2>3 DEF Quiet, WaitMoves, StartPoints, LoopPoints, LatePoints
  <2>4. CASE ~pid[idx] /\ idx' = idx + 1 /\ UNCHANGED <<pc, events, pend>>
    BY <1>5, <2>1, <2>4 DEF Quiet, WaitMoves
  <2>5. CASE idx > N /\ pc' = next /\ UNCHANGED <<idx, events, pend>>
    BY <1>5, <2>1, <2>5 DEF Quiet, WaitMoves, StartPoints, LoopPoints, LatePoints
  <2> QED
    BY <1>5, <2>2, <2>3, <2>4, <2>5 DEF Forward
<1>6. CASE ForwardTerm \/ ForwardKill
  BY <1>5, <1>6 DEF ForwardTerm, ForwardKill
<1>7. CASE SupervisorStep
  BY <1>1, <1>2, <1>3, <1>4, <1>6, <1>7 DEF SupervisorStep, QuietActions
<1>8. CASE ProcessStep
  BY <1>8, ProcessLives DEF ProcessStep
<1> QED
  BY <1>1, <1>7, <1>8 DEF Next, Finished, QuietActions

-----------------------------------------------------------------------------
(* Handles *)

\* The pod-level events, one by one.
Announces(from, name, to) ==
    /\ pc = from /\ pc' = to /\ idx' = 1
    /\ Append1(Event(name, 0, 0))
    /\ UNCHANGED <<settings, polls, state, pid, restartTimes, proc, wait, pend>>

\* AppendPodEvent announces exactly these five, each at its own place.
LEMMA PodEventCases ==
    ASSUME AppendPodEvent
    PROVE  \/ Announces("net_ready", "POD_NET_READY", "fork")
           \/ Announces("stop_requested", "POD_STOP_REQUESTED", "term")
           \/ Announces("timeout", "POD_TIMEOUT", "kill")
           \/ Announces("pod_exit", "POD_EXIT", "status_exited")
           \/ Announces("pod_exit_all", "POD_EXIT", "status_exited_all")
<1>1. /\ pc' = PodEvents[pc][2] /\ idx' = 1
      /\ Append1(Event(PodEvents[pc][1], 0, 0))
      /\ UNCHANGED <<settings, polls, state, pid, restartTimes, proc, wait, pend>>
  BY DEF AppendPodEvent, PodEvent, handleVars, procVars
<1>2. pc \in {"net_ready", "stop_requested", "timeout", "pod_exit", "pod_exit_all"}
  BY DEF AppendPodEvent, PodEvents
<1> QED
  BY <1>1, <1>2 DEF Announces, PodEvents

\* What start_container does to the handle.
LEMMA StartCases ==
    ASSUME StartContainer
    PROVE  /\ pc = "fork"
           /\ \/ /\ pc' = "forked" /\ state' = [state EXCEPT ![idx] = "Running"]
                 /\ pid' = [pid EXCEPT ![idx] = TRUE] /\ proc' = [proc EXCEPT ![idx] = "forked"]
              \/ /\ pc' = "err" /\ state' = [state EXCEPT ![idx] = "Starting"]
                 /\ pid' = pid /\ proc' = proc
           /\ UNCHANGED <<settings, idx, polls, restartTimes, events, wait, pend>>
BY DEF StartContainer, handleVars, storeVars, loopVars

\* What follows the fork: the event, and the next container or the main loop.
LEMMA ForkedCases ==
    ASSUME ContainerForked
    PROVE  /\ pc = "forked" /\ Append1(Event("CONTAINER_FORKED", idx, 0))
           /\ \/ idx = N /\ pc' = "idle" /\ idx' = idx
              \/ idx # N /\ pc' = "fork" /\ idx' = idx + 1
           /\ UNCHANGED <<settings, polls, state, pid, restartTimes, proc, wait, pend>>
BY DEF ContainerForked, handleVars, procVars

\* Handles and processes stay together: a handle loses its pid in the step that
\* collects the process, or before.
LEMMA HandleStep ==
    ASSUME TypeOK, HandleInv, [Next]_vars
    PROVE  HandleInv'
<1>n. N \in Nat \ {0} /\ Containers = 1..N /\ idx \in 1..(N + 1)
  BY PodAssumption DEF Containers, TypeOK
<1>1. CASE Quiet
  BY <1>1 DEF Quiet, HandleInv, Alive
<1>2. ASSUME NEW c \in Containers, Lives(c) PROVE HandleInv'
  BY <1>2 DEF Lives, HandleInv, Alive
<1>3. ASSUME NEW c \in Containers, Reaps(c) PROVE HandleInv'
  <2>1. \A d \in Containers : pid'[d] => d # c /\ pid[d]
    BY <1>3 DEF Reaps, TypeOK
  <2>2. \A d \in Containers \ {c} : state'[d] = state[d] /\ proc'[d] = proc[d]
    BY <1>3 DEF Reaps, TypeOK
  <2>3. pc' \notin {"fork", "forked"}
    BY <1>3 DEF Reaps, ReapPoints
  <2> QED
    BY <2>1, <2>2, <2>3 DEF HandleInv, Alive
<1>4. ASSUME NEW c \in Containers, Collects(c) PROVE HandleInv'
  <2>1. \A d \in Containers : pid[d] => proc'[d] = proc[d]
    BY <1>4 DEF Collects, TypeOK
  <2> QED
    BY <1>4, <2>1 DEF Collects, HandleInv, Alive
<1>5. CASE AppendPodEvent
  BY <1>5, <1>n, PodEventCases DEF Announces, HandleInv, Alive
<1>6. CASE StartContainer
  <2>1. idx \in Containers
    BY <1>6, <1>n DEF StartContainer, HandleInv
  <2>2. CASE /\ pc' = "forked" /\ state' = [state EXCEPT ![idx] = "Running"]
             /\ pid' = [pid EXCEPT ![idx] = TRUE] /\ proc' = [proc EXCEPT ![idx] = "forked"]
    BY <1>6, <1>n, <2>1, <2>2, StartCases DEF HandleInv, Alive, TypeOK
  <2>3. CASE /\ pc' = "err" /\ state' = [state EXCEPT ![idx] = "Starting"]
             /\ pid' = pid /\ proc' = proc
    BY <1>6, <2>1, <2>3, StartCases DEF HandleInv, Alive, TypeOK
  <2> QED
    BY <1>6, <2>2, <2>3, StartCases
<1>7. CASE ContainerForked
  BY <1>7, <1>n, ForkedCases DEF HandleInv, Alive
<1>8. CASE Books
  <2>1. \A d \in Containers : pid[d] => state'[d] = state[d]
    BY <1>8 DEF Books, HandleInv, TypeOK
  <2> QED
    BY <1>8, <2>1 DEF Books, HandleInv, Alive
<1>9. CASE GivesUp
  BY <1>9 DEF GivesUp, HandleInv, Alive
<1>10. CASE Marks
  <2>1. \A d \in Containers : pid'[d] => pid[d] /\ state'[d] = state[d]
    BY <1>10 DEF Marks, TypeOK
  <2> QED
    BY <1>10, <2>1 DEF Marks, HandleInv, Alive
<1>11. CASE Sends("term", "SIGTERM") \/ Sends("kill", "SIGKILL")
  BY <1>11 DEF Sends, HandleInv, Alive
<1>12. CASE SupervisorExits
  BY <1>12 DEF SupervisorExits, HandleInv, Alive, handleVars, loopVars
<1> QED
  BY <1>1, <1>2, <1>3, <1>4, <1>5, <1>6, <1>7, <1>8, <1>9, <1>10, <1>11, <1>12, StepCases

-----------------------------------------------------------------------------
(* Reported exits *)

\* Where no event is appended, nothing more has happened.
LEMMA EventsStay ==
    ASSUME events' = events, NEW name, NEW c
    PROVE  /\ Happened(name, c)' <=> Happened(name, c)
           /\ \A i : Is(i, name, c)' <=> Is(i, name, c)
BY DEF Happened, Is

\* No exit is reported.
LEMMA ReportKeeps ==
    ASSUME TypeOK, ReportInv,
           events' = events \/ \E e \in EventRecords : Append1(e) /\ e.ev # "CONTAINER_EXIT",
           \A c \in Containers : Happened("CONTAINER_EXIT", c) => ~pid'[c] /\ pc' \notin StartPoints
    PROVE  ReportInv'
<1>1. CASE events' = events
  BY <1>1, EventsStay DEF ReportInv, ExitReportedOnce
<1>2. ASSUME NEW e \in EventRecords, Append1(e), e.ev # "CONTAINER_EXIT" PROVE ReportInv'
  <2>1. /\ DOMAIN events = 1..Len(events) /\ DOMAIN events' = 1..(Len(events) + 1)
        /\ \A i \in 1..Len(events) : events'[i] = events[i]
        /\ events'[Len(events) + 1] = e /\ Len(events) \in Nat
    BY <1>2, AppendKeeps
  <2>2. \A i \in DOMAIN events' : events'[i].ev = "CONTAINER_EXIT" =>
            i \in DOMAIN events /\ events'[i] = events[i]
    BY <1>2, <2>1
  <2>3. ExitReportedOnce'
    BY <2>2 DEF ExitReportedOnce, ReportInv
  <2>4. \A c \in Containers : Happened("CONTAINER_EXIT", c)' => Happened("CONTAINER_EXIT", c)
    BY <1>2, AppendHappens
  <2> QED
    BY <2>3, <2>4 DEF ReportInv
<1> QED
  BY <1>1, <1>2

\* The exit of a container with a pid is reported, and the pid goes.
LEMMA ReportAppends ==
    ASSUME TypeOK, ReportInv, NEW c \in Containers, NEW n \in 0..255,
           Append1(Event("CONTAINER_EXIT", c, n)),
           pid[c], pid' = [pid EXCEPT ![c] = FALSE],
           pc \notin StartPoints, pc' = pc
    PROVE  ReportInv'
<1> DEFINE e == Event("CONTAINER_EXIT", c, n)
<1>1. e \in EventRecords /\ e.ev = "CONTAINER_EXIT" /\ e.c = c
  BY DEF e, Event, EventRecords, ContainerNames
<1> HIDE DEF e
<1>2. /\ DOMAIN events = 1..Len(events) /\ DOMAIN events' = 1..(Len(events) + 1)
      /\ \A i \in 1..Len(events) : events'[i] = events[i]
      /\ events'[Len(events) + 1] = e /\ Len(events) \in Nat
  BY <1>1, AppendKeeps DEF e
<1>3. \A d \in Containers : Happened("CONTAINER_EXIT", d)' => Happened("CONTAINER_EXIT", d) \/ d = c
  BY <1>1, AppendHappens DEF e
<1>4. \A i \in DOMAIN events : ~(events[i].ev = "CONTAINER_EXIT" /\ events[i].c = c)
  BY DEF ReportInv, Happened, Is
<1>5. \A i \in DOMAIN events' : \/ i \in DOMAIN events /\ events'[i] = events[i]
                                \/ i = Len(events) + 1 /\ events'[i] = e
  BY <1>2
<1>6. ExitReportedOnce'
  BY <1>1, <1>4, <1>5 DEF ExitReportedOnce, ReportInv
<1>7. \A d \in Containers : pid'[d] => pid[d] /\ d # c
  BY DEF TypeOK
<1> QED
  BY <1>3, <1>6, <1>7 DEF ReportInv

\* An exit is reported only by the step that takes the pid out of the handle.
LEMMA ReportStep ==
    ASSUME TypeOK, HandleInv, ReportInv, [Next]_vars
    PROVE  ReportInv'
<1>n. N \in Nat \ {0} /\ Containers = 1..N /\ idx \in 1..(N + 1)
  BY PodAssumption DEF Containers, TypeOK
<1>z. 0 \in 0..255
  OBVIOUS
<1>1. CASE Quiet
  BY <1>1, ReportKeeps DEF Quiet, ReportInv
<1>2. ASSUME NEW c \in Containers, Lives(c) PROVE ReportInv'
  BY <1>2, ReportKeeps DEF Lives, ReportInv
<1>3. ASSUME NEW c \in Containers, Reaps(c) PROVE ReportInv'
  <2>1. pc \notin StartPoints /\ "err" \notin StartPoints
    BY <1>3 DEF Reaps, ReapPoints, StartPoints
  <2>2. \A d \in Containers : pid'[d] => pid[d]
    BY <1>3 DEF Reaps, TypeOK
  <2>3. CASE pc' = "err" /\ UNCHANGED events
    BY <2>1, <2>2, <2>3, ReportKeeps DEF ReportInv
  <2>4. CASE Append1(Event("CONTAINER_EXIT", c, ReportedCode(c))) /\ pc' = pc
    BY <1>3, <2>1, <2>4, CodeType, ReportAppends DEF Reaps
  <2> QED
    BY <1>3, <2>3, <2>4 DEF Reaps
<1>4. ASSUME NEW c \in Containers, Collects(c) PROVE ReportInv'
  BY <1>4, ReportKeeps DEF Collects, ReportInv
<1>5. ASSUME NEW from \in {"net_ready", "stop_requested", "timeout", "pod_exit", "pod_exit_all"},
             NEW name \in PodNames, NEW to, Announces(from, name, to), from \in StartPoints \/ to \notin StartPoints
      PROVE  ReportInv'
  <2>1. Event(name, 0, 0) \in EventRecords /\ Event(name, 0, 0).ev # "CONTAINER_EXIT"
    BY PodLevelEvent DEF PodNames
  <2> QED
    BY <1>5, <2>1, ReportKeeps DEF Announces, ReportInv
<1>6. CASE AppendPodEvent
  BY <1>5, <1>6, PodEventCases DEF StartPoints, PodNames
<1>7. CASE StartContainer
  <2>1. pc \in StartPoints /\ events' = events
    BY <1>7, StartCases DEF StartPoints
  <2> QED
    BY <2>1, ReportKeeps DEF ReportInv
<1>8. CASE ContainerForked
  <2>1. Event("CONTAINER_FORKED", idx, 0) \in EventRecords
        /\ Event("CONTAINER_FORKED", idx, 0).ev # "CONTAINER_EXIT"
    <3>1. idx \in Containers
      BY <1>8, <1>n DEF HandleInv, ContainerForked
    <3> QED
      BY <1>z, <3>1, ContainerEvent DEF ContainerNames
  <2>2. pc \in StartPoints
    BY <1>8 DEF ContainerForked, StartPoints
  <2> QED
    BY <1>8, <2>1, <2>2, ForkedCases, ReportKeeps DEF ReportInv
<1>9. CASE Books \/ GivesUp
  <2>1. UNCHANGED <<events, pid>> /\ pc' \notin StartPoints
    BY <1>9 DEF Books, GivesUp, StartPoints
  <2> QED
    BY <2>1, ReportKeeps DEF ReportInv
<1>10. CASE Marks
  <2>1. pc \notin StartPoints /\ "err" \notin StartPoints
    BY <1>10 DEF Marks, StartPoints
  <2>2. \A d \in Containers : pid'[d] => pid[d]
    BY <1>10 DEF Marks, TypeOK
  <2>3. CASE pc' = "err" /\ UNCHANGED events
    BY <2>1, <2>2, <2>3, ReportKeeps DEF ReportInv
  <2>4. CASE Append1(Event("CONTAINER_EXIT", idx, 0)) /\ pc' = pc
    BY <1>10, <1>z, <2>1, <2>4, ReportAppends DEF Marks
  <2> QED
    BY <1>10, <2>3, <2>4 DEF Marks
<1>11. ASSUME NEW point, NEW sig \in {"SIGTERM", "SIGKILL"}, Sends(point, sig) PROVE ReportInv'
  <2>1. Event(sig, idx, 0) \in EventRecords /\ Event(sig, idx, 0).ev # "CONTAINER_EXIT"
    <3>1. idx \in Containers
      BY <1>11 DEF Sends
    <3> QED
      BY <1>z, <3>1, ContainerEvent DEF ContainerNames
  <2> QED
    BY <1>11, <2>1, ReportKeeps DEF Sends, ReportInv
<1>12. CASE SupervisorExits
  <2>1. UNCHANGED <<events, pid>> /\ pc' \notin StartPoints
    BY <1>12 DEF SupervisorExits, handleVars, storeVars, StartPoints
  <2> QED
    BY <2>1, ReportKeeps DEF ReportInv
<1> QED
  BY <1>1, <1>2, <1>3, <1>4, <1>6, <1>7, <1>8, <1>9, <1>10, <1>11, <1>12, StepCases

-----------------------------------------------------------------------------
(* Restarts *)

\* Any containers are finitely many, and fewer than N if one is left out.
LEMMA ContainersFinite ==
    ASSUME NEW S \in SUBSET Containers
    PROVE  /\ IsFiniteSet(S) /\ Cardinality(S) \in Nat
           /\ S # Containers => Cardinality(S) < N
<1>1. N \in Nat /\ N > 0 /\ Containers = 1..N
  BY PodAssumption DEF Containers
<1>2. IsFiniteSet(Containers) /\ Cardinality(Containers) = N
  BY <1>1, FS_Interval
<1>3. /\ IsFiniteSet(S) /\ Cardinality(S) <= N
      /\ Cardinality(S) = N => S = Containers
  BY <1>2, FS_Subset
<1>4. Cardinality(S) \in Nat
  BY <1>3, FS_CardinalityType
<1> QED
  BY <1>1, <1>3, <1>4

\* A step that books no restart and puts nobody out of backoff.
LEMMA RestartKeeps ==
    ASSUME RestartInv, InBackoff' = InBackoff, restartTimes' = restartTimes,
           settings' = settings, pc' \in StartPoints => pc \in StartPoints,
           pc' \in LoopPoints => pc \in LoopPoints
    PROVE  RestartInv'
BY DEF RestartInv, NoCrashLoop

\* There are never more restarts in the window than containers in backoff.
LEMMA RestartStep ==
    ASSUME TypeOK, HandleInv, RestartInv, [Next]_vars
    PROVE  RestartInv'
<1>b. InBackoff \in SUBSET Containers
  BY DEF InBackoff
<1> USE DEF StartPoints, LoopPoints
<1>1. CASE Quiet
  BY <1>1, RestartKeeps DEF Quiet, InBackoff
<1>2. ASSUME NEW c \in Containers, Lives(c) PROVE RestartInv'
  BY <1>2, RestartKeeps DEF Lives, InBackoff
<1>3. ASSUME NEW c \in Containers, pid[c], state' = [state EXCEPT ![c] = "Exited"]
      PROVE  InBackoff' = InBackoff
  BY <1>3 DEF TypeOK, HandleInv, InBackoff
<1>4. ASSUME NEW c \in Containers, Reaps(c) PROVE RestartInv'
  BY <1>3, <1>4, RestartKeeps DEF Reaps, ReapPoints
<1>5. ASSUME NEW c \in Containers, Collects(c) PROVE RestartInv'
  BY <1>5, RestartKeeps DEF Collects, InBackoff
<1>6. CASE AppendPodEvent
  BY <1>6, PodEventCases, RestartKeeps DEF Announces, InBackoff
<1>7. CASE StartContainer
  <2>1. restartTimes' = 0 /\ pc' \notin LoopPoints
    BY <1>7, StartCases DEF RestartInv
  <2>2. Cardinality(InBackoff') \in Nat
    <3>1. InBackoff' \in SUBSET Containers
      BY DEF InBackoff
    <3> QED
      BY <3>1, ContainersFinite
  <2> QED
    BY <2>1, <2>2 DEF RestartInv
<1>8. CASE ContainerForked
  BY <1>8, ForkedCases, RestartKeeps DEF InBackoff
<1>9. CASE Books
  <2>1. PICK kept \in 0..restartTimes : restartTimes' = kept + 1
    BY <1>9 DEF Books
  <2>2. InBackoff' = InBackoff \cup {idx} /\ idx \notin InBackoff
    BY <1>9 DEF Books, InBackoff, TypeOK
  <2>3. Cardinality(InBackoff') = Cardinality(InBackoff) + 1 /\ Cardinality(InBackoff) \in Nat
    BY <1>b, <2>2, ContainersFinite, FS_AddElement
  <2>4. restartTimes' <= Cardinality(InBackoff')
    BY <2>1, <2>3 DEF RestartInv, TypeOK
  <2> QED
    BY <1>9, <2>4 DEF Books, RestartInv
<1>10. CASE GivesUp
  <2>1. PICK kept \in 0..restartTimes : restartTimes' = kept /\ kept >= settings.max_restarts
    BY <1>10 DEF GivesUp
  <2>2. idx \in Containers \ InBackoff /\ InBackoff' = InBackoff /\ settings' = settings
    BY <1>10 DEF GivesUp, InBackoff
  <2>3. Cardinality(InBackoff) < N /\ Cardinality(InBackoff) \in Nat
    BY <1>b, <2>2, ContainersFinite
  <2>4. settings.max_restarts \in Nat /\ N \in Nat
    BY PodAssumption DEF TypeOK
  <2>5. ~NoCrashLoop'
    BY <2>1, <2>2, <2>3, <2>4 DEF NoCrashLoop, RestartInv, TypeOK
  <2>6. restartTimes' <= Cardinality(InBackoff')
    BY <2>1, <2>2, <2>3 DEF RestartInv, TypeOK
  <2> QED
    BY <1>10, <2>5, <2>6 DEF GivesUp, RestartInv
<1>11. CASE Marks
  BY <1>3, <1>11, RestartKeeps DEF Marks
<1>12. CASE Sends("term", "SIGTERM") \/ Sends("kill", "SIGKILL")
  BY <1>12, RestartKeeps DEF Sends, InBackoff
<1>13. CASE SupervisorExits
  BY <1>13, RestartKeeps DEF SupervisorExits, handleVars, InBackoff
<1> QED
  BY <1>1, <1>2, <1>4, <1>5, <1>6, <1>7, <1>8, <1>9, <1>10, <1>11, <1>12, <1>13, StepCases

-----------------------------------------------------------------------------
(* The truth of a reported exit *)

\* A report is of a container, and where it is true its process is collected.
LEMMA ReportOf ==
    ASSUME TypeOK, NEW i \in DOMAIN events, events[i].ev = "CONTAINER_EXIT"
    PROVE  events[i].c \in Containers /\ Happened("CONTAINER_EXIT", events[i].c)
<1>1. events[i] \in EventRecords
  BY LenProperties, ElementOfSeq DEF TypeOK
<1> QED
  BY <1>1 DEF EventRecords, PodNames, Happened, Is

\* How a process whose code is reported as n may have ended.
Codes(n) == {[kind |-> "exited", n |-> n], [kind |-> "signaled", n |-> n - 128]}

\* A step that reports no exit and leaves collected processes alone.
LEMMA TruthKeeps ==
    ASSUME TypeOK, ReportedExitIsTrue, settings' = settings,
           events' = events \/ \E e \in EventRecords : Append1(e) /\ e.ev # "CONTAINER_EXIT",
           \A c \in Containers : Happened("CONTAINER_EXIT", c) /\ proc[c] = "reaped" =>
              proc'[c] = proc[c] /\ wait'[c] = wait[c]
    PROVE  ReportedExitIsTrue'
<1> SUFFICES ASSUME NoCrashLoop, NEW i \in DOMAIN events', events'[i].ev = "CONTAINER_EXIT"
             PROVE  proc'[events'[i].c] = "reaped" /\ wait'[events'[i].c] \in Codes(events'[i].n)
  BY DEF ReportedExitIsTrue, NoCrashLoop, Codes
<1>1. i \in DOMAIN events /\ events'[i] = events[i]
  <2>1. CASE events' = events
    BY <2>1
  <2>2. ASSUME NEW e \in EventRecords, Append1(e), e.ev # "CONTAINER_EXIT"
        PROVE  i \in DOMAIN events /\ events'[i] = events[i]
    <3>1. /\ DOMAIN events = 1..Len(events) /\ DOMAIN events' = 1..(Len(events) + 1)
          /\ \A j \in 1..Len(events) : events'[j] = events[j]
          /\ events'[Len(events) + 1] = e /\ Len(events) \in Nat
      BY <2>2, AppendKeeps
    <3> QED
      BY <2>2, <3>1
  <2> QED
    BY <2>1, <2>2
<1>2. proc[events[i].c] = "reaped" /\ wait[events[i].c] \in Codes(events[i].n)
  BY <1>1 DEF ReportedExitIsTrue, Codes
<1>3. events[i].c \in Containers /\ Happened("CONTAINER_EXIT", events[i].c)
  BY <1>1, ReportOf
<1> QED
  BY <1>1, <1>2, <1>3

\* The code of a process is reported in a way that tells how it ended.
LEMMA CodeTells ==
    ASSUME TypeOK, NEW c \in Containers
    PROVE  wait[c] \in Codes(ReportedCode(c))
<1>1. CASE wait[c] \in [kind : {"exited"}, n : 0..255]
  <2>1. ReportedCode(c) = wait[c].n /\ wait[c] = [kind |-> "exited", n |-> wait[c].n]
    BY <1>1 DEF ReportedCode
  <2> QED
    BY <2>1 DEF Codes
<1>2. CASE wait[c] \in [kind : {"signaled"}, n : {9, 15}]
  <2>1. /\ ReportedCode(c) = 128 + wait[c].n /\ wait[c].n \in Int
        /\ wait[c] = [kind |-> "signaled", n |-> wait[c].n]
    BY <1>2 DEF ReportedCode
  <2>2. ReportedCode(c) - 128 = wait[c].n
    BY <2>1
  <2> QED
    BY <2>1, <2>2 DEF Codes
<1> QED
  BY <1>1, <1>2 DEF TypeOK

\* What is reported of a container is what became of its process.
LEMMA TruthStep ==
    ASSUME TypeOK, HandleInv, ReportInv, RestartInv, ReportedExitIsTrue, [Next]_vars
    PROVE  ReportedExitIsTrue'
<1>n. N \in Nat \ {0} /\ Containers = 1..N /\ idx \in 1..(N + 1) /\ 0 \in 0..255
  BY PodAssumption DEF Containers, TypeOK
<1>1. CASE Quiet
  BY <1>1, TruthKeeps DEF Quiet
<1>2. ASSUME NEW c \in Containers, Lives(c) PROVE ReportedExitIsTrue'
  BY <1>2, TruthKeeps DEF Lives, Alive
<1>3. ASSUME NEW c \in Containers, Reaps(c) PROVE ReportedExitIsTrue'
  <2>1. /\ proc'[c] = "reaped" /\ wait' = wait /\ settings' = settings
        /\ \A d \in Containers : proc[d] = "reaped" => proc'[d] = proc[d]
    BY <1>3 DEF Reaps, TypeOK
  <2>2. CASE UNCHANGED events
    BY <2>1, <2>2, TruthKeeps
  <2>3. CASE Append1(Event("CONTAINER_EXIT", c, ReportedCode(c)))
    <3> DEFINE e == Event("CONTAINER_EXIT", c, ReportedCode(c))
    <3>1. e \in EventRecords /\ e.c = c /\ e.n = ReportedCode(c)
      BY CodeType DEF e, Event, EventRecords, ContainerNames
    <3> HIDE DEF e
    <3>2. /\ DOMAIN events = 1..Len(events) /\ DOMAIN events' = 1..(Len(events) + 1)
          /\ \A i \in 1..Len(events) : events'[i] = events[i]
          /\ events'[Len(events) + 1] = e /\ Len(events) \in Nat
      BY <2>3, <3>1, AppendKeeps DEF e
    <3>3. SUFFICES ASSUME NoCrashLoop, NEW i \in DOMAIN events', events'[i].ev = "CONTAINER_EXIT"
                   PROVE  proc'[events'[i].c] = "reaped" /\ wait'[events'[i].c] \in Codes(events'[i].n)
      BY <2>1 DEF ReportedExitIsTrue, NoCrashLoop, Codes
    <3>4. CASE i = Len(events) + 1
      BY <2>1, <3>1, <3>2, <3>4, CodeTells
    <3>5. CASE i \in DOMAIN events
      <4>1. events'[i] = events[i]
        BY <3>2, <3>5
      <4>2. events[i].c \in Containers
        BY <3>3, <3>5, <4>1, ReportOf
      <4>3. proc[events[i].c] = "reaped" /\ wait[events[i].c] \in Codes(events[i].n)
        BY <3>3, <3>5, <4>1 DEF ReportedExitIsTrue, Codes
      <4> QED
        BY <2>1, <4>1, <4>2, <4>3
    <3> QED
      BY <3>2, <3>3, <3>4, <3>5
  <2> QED
    BY <1>3, <2>2, <2>3 DEF Reaps
<1>4. ASSUME NEW c \in Containers, Collects(c) PROVE ReportedExitIsTrue'
  <2>1. \A d \in Containers : proc[d] = "reaped" => proc'[d] = proc[d]
    BY <1>4 DEF Collects, TypeOK
  <2> QED
    BY <1>4, <2>1, TruthKeeps DEF Collects
<1>5. ASSUME NEW from, NEW name \in PodNames, NEW to, Announces(from, name, to)
      PROVE  ReportedExitIsTrue'
  <2>1. Event(name, 0, 0) \in EventRecords /\ Event(name, 0, 0).ev # "CONTAINER_EXIT"
    BY PodLevelEvent DEF PodNames
  <2> QED
    BY <1>5, <2>1, TruthKeeps DEF Announces
<1>6. CASE AppendPodEvent
  BY <1>5, <1>6, PodEventCases DEF PodNames
<1>7. CASE StartContainer
  <2>1. pc \in StartPoints /\ events' = events /\ settings' = settings
    BY <1>7, StartCases DEF StartPoints
  <2> QED
    BY <2>1, TruthKeeps DEF ReportInv
<1>8. CASE ContainerForked
  <2>1. idx \in Containers
    BY <1>8, <1>n DEF HandleInv, ContainerForked
  <2>2. Event("CONTAINER_FORKED", idx, 0) \in EventRecords
        /\ Event("CONTAINER_FORKED", idx, 0).ev # "CONTAINER_EXIT"
    BY <1>n, <2>1, ContainerEvent DEF ContainerNames
  <2> QED
    BY <1>8, <2>2, ForkedCases, TruthKeeps
<1>9. CASE Books \/ GivesUp
  <2>1. UNCHANGED <<settings, events, proc, wait>>
    BY <1>9 DEF Books, GivesUp
  <2> QED
    BY <2>1, TruthKeeps
<1>10. CASE Marks
  <2>1. ~NoCrashLoop /\ settings' = settings
    BY <1>10 DEF Marks, RestartInv, LoopPoints
  <2> QED
    BY <2>1 DEF ReportedExitIsTrue, NoCrashLoop
<1>11. ASSUME NEW point, NEW sig \in {"SIGTERM", "SIGKILL"}, Sends(point, sig)
       PROVE  ReportedExitIsTrue'
  <2>1. idx \in Containers
    BY <1>11 DEF Sends
  <2>2. Event(sig, idx, 0) \in EventRecords /\ Event(sig, idx, 0).ev # "CONTAINER_EXIT"
    BY <1>n, <2>1, ContainerEvent DEF ContainerNames
  <2> QED
    BY <1>11, <2>2, TruthKeeps DEF Sends
<1>12. CASE SupervisorExits
  BY <1>12, TruthKeeps DEF SupervisorExits, storeVars
<1> QED
  BY <1>1, <1>2, <1>3, <1>4, <1>6, <1>7, <1>8, <1>9, <1>10, <1>11, <1>12, StepCases

-----------------------------------------------------------------------------
(* First occurrences *)

\* Events are only ever appended, one at a time.
LEMMA EventsGrow ==
    ASSUME TypeOK, HandleInv, [Next]_vars
    PROVE  events' = events \/ \E e \in EventRecords : Append1(e)
<1>n. N \in Nat \ {0} /\ Containers = 1..N /\ idx \in 1..(N + 1) /\ 0 \in 0..255
  BY PodAssumption DEF Containers, TypeOK
<1>1. CASE Quiet
  BY <1>1 DEF Quiet
<1>2. ASSUME NEW c \in Containers, Lives(c) \/ Reaps(c) \/ Collects(c)
      PROVE  events' = events \/ \E e \in EventRecords : Append1(e)
  <2>1. Event("CONTAINER_EXIT", c, ReportedCode(c)) \in EventRecords
    BY CodeType, ContainerEvent DEF ContainerNames
  <2> QED
    BY <1>2, <2>1 DEF Lives, Reaps, Collects
<1>3. CASE AppendPodEvent
  <2>1. \A name \in PodNames : Event(name, 0, 0) \in EventRecords
    BY PodLevelEvent
  <2> QED
    BY <1>3, <2>1, PodEventCases DEF PodNames, Announces
<1>4. CASE StartContainer
  BY <1>4, StartCases
<1>5. CASE ContainerForked
  <2>1. idx \in Containers
    BY <1>5, <1>n DEF HandleInv, ContainerForked
  <2>2. Event("CONTAINER_FORKED", idx, 0) \in EventRecords
    BY <1>n, <2>1, ContainerEvent DEF ContainerNames
  <2> QED
    BY <1>5, <2>2, ForkedCases
<1>6. CASE Books \/ GivesUp
  BY <1>6 DEF Books, GivesUp
<1>7. CASE Marks
  <2>1. Event("CONTAINER_EXIT", idx, 0) \in EventRecords
    BY <1>7, <1>n, ContainerEvent DEF ContainerNames, Marks
  <2> QED
    BY <1>7, <2>1 DEF Marks
<1>8. ASSUME NEW point, NEW sig \in {"SIGTERM", "SIGKILL"}, Sends(point, sig)
      PROVE  \E e \in EventRecords : Append1(e)
  <2>1. idx \in Containers
    BY <1>8 DEF Sends
  <2>2. Event(sig, idx, 0) \in EventRecords
    BY <1>n, <2>1, ContainerEvent DEF ContainerNames
  <2> QED
    BY <1>8, <2>2 DEF Sends
<1>9. CASE SupervisorExits
  BY <1>9 DEF SupervisorExits, storeVars
<1> QED
  BY <1>1, <1>2, <1>3, <1>4, <1>5, <1>6, <1>7, <1>8, <1>9, StepCases

\* The first occurrence of an event stays the first.
LEMMA FirstsStep ==
    ASSUME TypeOK, HandleInv, FirstsExist, [Next]_vars
    PROVE  FirstsExist'
<1>1. CASE events' = events
  BY <1>1 DEF FirstsExist, Happened, First, Is
<1>2. ASSUME NEW e \in EventRecords, Append1(e),
             NEW name \in PodNames \cup ContainerNames, NEW c \in 0..N, Happened(name, c)'
      PROVE  \E i \in DOMAIN events' : First(i, name, c)'
  <2>1. /\ DOMAIN events = 1..Len(events) /\ DOMAIN events' = 1..(Len(events) + 1)
        /\ Len(events) \in Nat
    BY <1>2, AppendKeeps
  <2>2. /\ \A i \in DOMAIN events : Is(i, name, c)' <=> Is(i, name, c)
        /\ \A i \in Int : i = Len(events) + 1 => (Is(i, name, c)' <=> e.ev = name /\ e.c = c)
        /\ Happened(name, c)' <=> Happened(name, c) \/ (e.ev = name /\ e.c = c)
    BY <1>2, AppendHappens
  <2>3. CASE Happened(name, c)
    <3>1. PICK i \in DOMAIN events : First(i, name, c)
      BY <2>3 DEF FirstsExist
    <3>2. \A j \in 1..(i - 1) : j \in DOMAIN events
      BY <2>1
    <3>3. Is(i, name, c)' /\ \A j \in 1..(i - 1) : ~Is(j, name, c)'
      BY <2>2, <3>1, <3>2 DEF First
    <3> QED
      BY <2>1, <3>3 DEF First
  <2>4. CASE ~Happened(name, c)
    <3> DEFINE i == Len(events) + 1
    <3>1. i \in DOMAIN events' /\ i \in Int /\ \A j \in 1..(i - 1) : j \in DOMAIN events
      BY <2>1
    <3>2. ASSUME NEW k, k = i PROVE First(k, name, c)'
      <4>1. Is(k, name, c)'
        BY <1>2, <2>2, <2>4, <3>1, <3>2
      <4>2. \A j \in 1..(k - 1) : ~Is(j, name, c)'
        BY <2>2, <2>4, <3>1, <3>2 DEF Happened
      <4> QED
        BY <4>1, <4>2 DEF First
    <3> QED
      BY <3>1, <3>2
  <2> QED
    BY <2>3, <2>4
<1> QED
  BY <1>1, <1>2, EventsGrow DEF FirstsExist

-----------------------------------------------------------------------------
(* Signals *)

\* An event other than the timeout, or the timeout of a pod whose container has
\* been sent SIGTERM, keeps the order of the two.
LEMMA TermFirstKeeps ==
    ASSUME TypeOK, NEW e \in EventRecords, Append1(e), NEW c, TermFirst(c),
           e.ev # "POD_TIMEOUT" \/ Happened("SIGTERM", c)
    PROVE  TermFirst(c)'
<1>1. /\ DOMAIN events = 1..Len(events) /\ DOMAIN events' = 1..(Len(events) + 1)
      /\ Len(events) \in Nat
  BY AppendKeeps
<1>2. \A i \in DOMAIN events : /\ Is(i, "SIGTERM", c)' <=> Is(i, "SIGTERM", c)
                               /\ Is(i, "POD_TIMEOUT", 0)' <=> Is(i, "POD_TIMEOUT", 0)
  BY AppendHappens
<1>3. \A i \in Int : i = Len(events) + 1 /\ Is(i, "POD_TIMEOUT", 0)' => e.ev = "POD_TIMEOUT"
  BY AppendHappens
<1>4. SUFFICES ASSUME NEW j \in DOMAIN events', Is(j, "POD_TIMEOUT", 0)'
               PROVE  \E k \in 1..(j - 1) : Is(k, "SIGTERM", c)'
  BY DEF TermFirst
<1>5. CASE j \in DOMAIN events
  <2>1. PICK k \in 1..(j - 1) : Is(k, "SIGTERM", c)
    BY <1>2, <1>4, <1>5 DEF TermFirst
  <2>2. k \in DOMAIN events
    BY <1>1, <1>5
  <2> QED
    BY <1>2, <2>1, <2>2
<1>6. CASE j = Len(events) + 1
  <2>1. PICK k \in DOMAIN events : Is(k, "SIGTERM", c)
    BY <1>1, <1>3, <1>4, <1>6 DEF Happened
  <2>2. k \in 1..(j - 1)
    BY <1>1, <1>6
  <2> QED
    BY <1>2, <2>1, <2>2
<1> QED
  BY <1>1, <1>5, <1>6

\* So does an event that is neither the timeout nor a SIGKILL.
LEMMA KillsKeep ==
    ASSUME TypeOK, KillsInOrder,
           \/ events' = events
           \/ \E e \in EventRecords : Append1(e) /\ e.ev \notin {"POD_TIMEOUT", "SIGKILL"}
    PROVE  KillsInOrder'
<1>1. CASE events' = events
  BY <1>1 DEF KillsInOrder, TermFirst, Is
<1>2. ASSUME NEW e \in EventRecords, Append1(e), e.ev \notin {"POD_TIMEOUT", "SIGKILL"},
             NEW c \in Containers, NEW i \in DOMAIN events', Is(i, "SIGKILL", c)'
      PROVE  /\ TermFirst(c)'
             /\ \E j \in 1..(i - 1) : Is(j, "POD_TIMEOUT", 0)'
             /\ \A j \in DOMAIN events' : Is(j, "CONTAINER_EXIT", c)' => i < j
  <2>1. /\ DOMAIN events = 1..Len(events) /\ DOMAIN events' = 1..(Len(events) + 1)
        /\ Len(events) \in Nat
    BY <1>2, AppendKeeps
  <2>2. /\ \A j \in DOMAIN events : Is(j, "SIGKILL", c)' <=> Is(j, "SIGKILL", c)
        /\ \A j \in DOMAIN events : Is(j, "CONTAINER_EXIT", c)' <=> Is(j, "CONTAINER_EXIT", c)
        /\ \A j \in DOMAIN events : Is(j, "POD_TIMEOUT", 0)' <=> Is(j, "POD_TIMEOUT", 0)
    BY <1>2, AppendHappens
  <2>3. \A j \in Int : j = Len(events) + 1 => ~Is(j, "SIGKILL", c)'
    BY <1>2, AppendHappens
  <2>4. i \in DOMAIN events /\ Is(i, "SIGKILL", c)
    BY <1>2, <2>1, <2>2, <2>3
  <2>5. TermFirst(c)'
    BY <1>2, <2>4, TermFirstKeeps DEF KillsInOrder
  <2>6. \E j \in 1..(i - 1) : Is(j, "POD_TIMEOUT", 0)'
    <3>1. PICK j \in 1..(i - 1) : Is(j, "POD_TIMEOUT", 0)
      BY <2>4 DEF KillsInOrder
    <3>2. j \in DOMAIN events
      BY <2>1, <2>4
    <3> QED
      BY <2>2, <3>1, <3>2
  <2>7. \A j \in DOMAIN events' : Is(j, "CONTAINER_EXIT", c)' => i < j
    <3> SUFFICES ASSUME NEW j \in DOMAIN events', Is(j, "CONTAINER_EXIT", c)' PROVE i < j
      OBVIOUS
    <3>1. CASE j \in DOMAIN events
      BY <2>2, <2>4, <3>1 DEF KillsInOrder
    <3>2. CASE j = Len(events) + 1
      BY <2>1, <2>4, <3>2
    <3> QED
      BY <2>1, <3>1, <3>2
  <2> QED
    BY <2>5, <2>6, <2>7
<1> QED
  BY <1>1, <1>2 DEF KillsInOrder

\* A step that is neither the timeout nor a SIGKILL.
LEMMA SignalKeeps ==
    ASSUME TypeOK, SignalInv,
           \/ events' = events
           \/ \E e \in EventRecords : Append1(e) /\ e.ev \notin {"POD_TIMEOUT", "SIGKILL"},
           pc' \notin LatePoints => pc \notin LatePoints,
           pc' = "kill" => pc = "kill" /\ pid' = pid,
           \A c \in Containers :
              pid'[c] /\ ((pc' = "term" /\ c < idx') \/ pc' \in {"grace", "grace_reap", "timeout"}) =>
                 Happened("SIGTERM", c)'
    PROVE  SignalInv'
<1>1. /\ Happened("POD_TIMEOUT", 0)' <=> Happened("POD_TIMEOUT", 0)
      /\ \A c \in Containers : Happened("SIGKILL", c)' <=> Happened("SIGKILL", c)
  BY AppendHappens, EventsStay
<1>2. \A c \in Containers : TermFirst(c) => TermFirst(c)'
  <2>1. CASE events' = events
    BY <2>1 DEF TermFirst, Is
  <2>2. ASSUME NEW e \in EventRecords, Append1(e), e.ev \notin {"POD_TIMEOUT", "SIGKILL"}
        PROVE  \A c \in Containers : TermFirst(c) => TermFirst(c)'
    BY <2>2, TermFirstKeeps
  <2> QED
    BY <2>1, <2>2
<1>3. KillsInOrder'
  BY KillsKeep DEF SignalInv
<1> QED
  BY <1>1, <1>2, <1>3 DEF SignalInv

\* SIGTERM goes to everyone before the timeout, SIGKILL after it to whoever is
\* left.
LEMMA SignalStep ==
    ASSUME TypeOK, HandleInv, ReportInv, SignalInv, [Next]_vars
    PROVE  SignalInv'
<1>n. N \in Nat \ {0} /\ Containers = 1..N /\ idx \in 1..(N + 1) /\ 0 \in 0..255
  BY PodAssumption DEF Containers, TypeOK
<1>1. CASE Quiet
  <2>1. ASSUME NEW c \in Containers, pid'[c],
               (pc' = "term" /\ c < idx') \/ pc' \in {"grace", "grace_reap", "timeout"}
        PROVE  Happened("SIGTERM", c)
    <3>1. pid' = pid
      BY <1>1 DEF Quiet
    <3>2. (pc = "term" /\ c < idx) \/ pc \in {"grace", "grace_reap", "timeout"}
      BY <1>1, <1>n, <2>1 DEF Quiet
    <3> QED
      BY <2>1, <3>1, <3>2 DEF SignalInv
  <2>2. UNCHANGED <<events, pid>> /\ (pc' = "kill" => pc = "kill")
        /\ (pc' \notin LatePoints => pc \notin LatePoints)
    BY <1>1 DEF Quiet
  <2> QED
    BY <2>1, <2>2, SignalKeeps, EventsStay
<1>2. ASSUME NEW c \in Containers, Lives(c) PROVE SignalInv'
  BY <1>2, SignalKeeps, EventsStay DEF Lives, SignalInv
<1>3. ASSUME NEW c \in Containers, Reaps(c) PROVE SignalInv'
  <2>1. /\ \A d \in Containers : pid'[d] => pid[d]
        /\ pc' \in {pc, "err"} /\ pc \notin {"term", "kill"}
        /\ (pc' \notin LatePoints => pc \notin LatePoints)
    BY <1>3 DEF Reaps, TypeOK, ReapPoints, LatePoints
  <2>2. Event("CONTAINER_EXIT", c, ReportedCode(c)) \in EventRecords
        /\ Event("CONTAINER_EXIT", c, ReportedCode(c)).ev = "CONTAINER_EXIT"
    BY CodeType DEF Event, EventRecords, ContainerNames
  <2>3. \A d \in Containers : Happened("SIGTERM", d) => Happened("SIGTERM", d)'
    BY <1>3, <2>2, AppendHappens, EventsStay DEF Reaps
  <2>4. \/ events' = events
        \/ \E e \in EventRecords : Append1(e) /\ e.ev \notin {"POD_TIMEOUT", "SIGKILL"}
    BY <1>3, <2>2 DEF Reaps
  <2> QED
    BY <2>1, <2>3, <2>4, SignalKeeps DEF SignalInv
<1>4. ASSUME NEW c \in Containers, Collects(c) PROVE SignalInv'
  BY <1>4, SignalKeeps, EventsStay DEF Collects, SignalInv
<1>5. ASSUME NEW from, NEW name \in PodNames, NEW to, Announces(from, name, to),
             name # "POD_TIMEOUT", to \in {"fork", "term", "status_exited", "status_exited_all"},
             to \notin LatePoints => from \notin LatePoints
      PROVE  SignalInv'
  <2>1. Event(name, 0, 0) \in EventRecords /\ Event(name, 0, 0).ev \notin {"POD_TIMEOUT", "SIGKILL"}
    BY <1>5, PodLevelEvent DEF PodNames
  <2>2. \A c \in Containers : ~(c < idx')
    BY <1>5, <1>n DEF Announces
  <2>3. pc = from /\ pc' = to /\ Append1(Event(name, 0, 0))
    BY <1>5 DEF Announces
  <2> QED
    BY <1>5, <2>1, <2>2, <2>3, SignalKeeps
<1>6. CASE Announces("timeout", "POD_TIMEOUT", "kill")
  <2> DEFINE e == Event("POD_TIMEOUT", 0, 0)
  <2>1. e \in EventRecords /\ e.ev = "POD_TIMEOUT" /\ e.c = 0
    BY DEF e, Event, EventRecords, PodNames
  <2>2. Append1(e) /\ pid' = pid /\ pc = "timeout" /\ pc' = "kill"
    BY <1>6 DEF Announces
  <2> HIDE DEF e
  <2>3. ~Happened("POD_TIMEOUT", 0) /\ \A c \in Containers : ~Happened("SIGKILL", c)
    BY <2>2 DEF SignalInv, LatePoints
  <2>4. Happened("POD_TIMEOUT", 0)' /\ \A c \in Containers : ~Happened("SIGKILL", c)'
    BY <2>1, <2>2, <2>3, AppendHappens
  <2>5. \A c \in Containers : pid[c] => TermFirst(c)'
    <3>1. \A c \in Containers : TermFirst(c)
      BY <2>3 DEF TermFirst, Happened
    <3> QED
      BY <2>1, <2>2, <3>1, TermFirstKeeps DEF SignalInv
  <2>6. KillsInOrder'
    BY <2>4 DEF KillsInOrder, Happened
  <2> QED
    BY <2>2, <2>4, <2>5, <2>6 DEF SignalInv, LatePoints
<1>7. CASE AppendPodEvent
  BY <1>5, <1>6, <1>7, PodEventCases DEF PodNames, LatePoints
<1>8. CASE StartContainer
  <2>1. events' = events /\ pc' \in {"forked", "err"} /\ pc \notin LatePoints
    BY <1>8, StartCases DEF LatePoints
  <2> QED
    BY <2>1, SignalKeeps
<1>9. CASE ContainerForked
  <2>1. idx \in Containers
    BY <1>9, <1>n DEF HandleInv, ContainerForked
  <2>2. Event("CONTAINER_FORKED", idx, 0) \in EventRecords
        /\ Event("CONTAINER_FORKED", idx, 0).ev = "CONTAINER_FORKED"
    BY <1>n, <2>1 DEF Event, EventRecords, ContainerNames
  <2>3. Append1(Event("CONTAINER_FORKED", idx, 0)) /\ pc' \in {"idle", "fork"} /\ pc \notin LatePoints
    BY <1>9, ForkedCases DEF LatePoints
  <2> QED
    BY <2>2, <2>3, SignalKeeps
<1>10. CASE Books \/ GivesUp
  <2>1. events' = events /\ pc' \in {"tick_scan", "stop_all"} /\ pc \notin LatePoints
    BY <1>10 DEF Books, GivesUp, LatePoints
  <2> QED
    BY <2>1, SignalKeeps
<1>11. CASE Marks
  <2>1. Event("CONTAINER_EXIT", idx, 0) \in EventRecords
        /\ Event("CONTAINER_EXIT", idx, 0).ev = "CONTAINER_EXIT"
    BY <1>11, <1>n DEF Event, EventRecords, ContainerNames, Marks
  <2>2. pc' \in {"stop_all", "err"} /\ pc \notin LatePoints
    BY <1>11 DEF Marks, LatePoints
  <2>3. \/ events' = events
        \/ \E e \in EventRecords : Append1(e) /\ e.ev \notin {"POD_TIMEOUT", "SIGKILL"}
    BY <1>11, <2>1 DEF Marks
  <2> QED
    BY <2>2, <2>3, SignalKeeps
<1>12. CASE Sends("term", "SIGTERM")
  <2> DEFINE e == Event("SIGTERM", idx, 0)
  <2>1. /\ idx \in Containers /\ Append1(e) /\ pid' = pid /\ idx' = idx + 1
        /\ pc = "term" /\ pc' = "term"
    BY <1>12 DEF Sends
  <2>2. e \in EventRecords /\ e.ev = "SIGTERM" /\ e.c = idx
    BY <1>n, <2>1 DEF e, Event, EventRecords, ContainerNames
  <2> HIDE DEF e
  <2>3. \A c \in Containers : Happened("SIGTERM", c)' <=> Happened("SIGTERM", c) \/ c = idx
    BY <2>1, <2>2, AppendHappens
  <2>4. \A c \in Containers : pid[c] /\ c < idx' => Happened("SIGTERM", c)'
    BY <1>n, <2>1, <2>3 DEF SignalInv
  <2>5. "term" \notin LatePoints
    BY DEF LatePoints
  <2> QED
    BY <2>1, <2>2, <2>4, <2>5, SignalKeeps
<1>13. CASE Sends("kill", "SIGKILL")
  <2> DEFINE e == Event("SIGKILL", idx, 0)
  <2>1. /\ idx \in Containers /\ Append1(e) /\ pid' = pid /\ pid[idx]
        /\ pc = "kill" /\ pc' = "kill"
    BY <1>13 DEF Sends
  <2>2. e \in EventRecords /\ e.ev = "SIGKILL" /\ e.c = idx
    BY <1>n, <2>1 DEF e, Event, EventRecords, ContainerNames
  <2> HIDE DEF e
  <2>3. /\ DOMAIN events = 1..Len(events) /\ DOMAIN events' = 1..(Len(events) + 1)
        /\ Len(events) \in Nat
    BY <2>1, <2>2, AppendKeeps
  <2>4. \A c \in Containers : TermFirst(c) => TermFirst(c)'
    BY <2>1, <2>2, TermFirstKeeps
  <2>5. Happened("POD_TIMEOUT", 0) /\ Happened("POD_TIMEOUT", 0)'
    BY <2>1, <2>2, AppendHappens DEF SignalInv
  <2>6. ASSUME NEW c \in Containers, NEW i \in DOMAIN events', Is(i, "SIGKILL", c)'
        PROVE  /\ TermFirst(c)'
               /\ \E j \in 1..(i - 1) : Is(j, "POD_TIMEOUT", 0)'
               /\ \A j \in DOMAIN events' : Is(j, "CONTAINER_EXIT", c)' => i < j
    <3>1. /\ \A j \in DOMAIN events : Is(j, "SIGKILL", c)' <=> Is(j, "SIGKILL", c)
          /\ \A j \in DOMAIN events : Is(j, "CONTAINER_EXIT", c)' <=> Is(j, "CONTAINER_EXIT", c)
          /\ \A j \in DOMAIN events : Is(j, "POD_TIMEOUT", 0)' <=> Is(j, "POD_TIMEOUT", 0)
      BY <2>1, <2>2, AppendHappens
    <3>2. \A j \in Int : j = Len(events) + 1 => ~Is(j, "CONTAINER_EXIT", c)'
                                               /\ (Is(j, "SIGKILL", c)' => c = idx)
      BY <2>1, <2>2, AppendHappens
    <3>3. CASE i \in DOMAIN events
      <4>1. Is(i, "SIGKILL", c)
        BY <2>6, <3>1, <3>3
      <4>2. PICK j \in 1..(i - 1) : Is(j, "POD_TIMEOUT", 0)
        BY <3>3, <4>1 DEF SignalInv, KillsInOrder
      <4>3. j \in DOMAIN events
        BY <2>3, <3>3
      <4>4. Is(j, "POD_TIMEOUT", 0)'
        BY <3>1, <4>2, <4>3
      <4>5. TermFirst(c)'
        BY <2>4, <3>3, <4>1 DEF SignalInv, KillsInOrder
      <4>6. \A k \in DOMAIN events' : Is(k, "CONTAINER_EXIT", c)' => i < k
        <5>1. \A k \in DOMAIN events' : Is(k, "CONTAINER_EXIT", c)' => k \in DOMAIN events
          BY <2>3, <3>2
        <5> QED
          BY <3>1, <3>3, <4>1, <5>1 DEF SignalInv, KillsInOrder
      <4> QED
        BY <4>4, <4>5, <4>6
    <3>4. CASE i = Len(events) + 1
      <4>1. c = idx
        BY <2>3, <2>6, <3>2, <3>4
      <4>2. TermFirst(c)'
        BY <2>1, <2>4, <4>1 DEF SignalInv
      <4>3. PICK j \in DOMAIN events : Is(j, "POD_TIMEOUT", 0)
        BY <2>5 DEF Happened
      <4>4. j \in 1..(i - 1) /\ Is(j, "POD_TIMEOUT", 0)'
        BY <2>3, <3>1, <3>4, <4>3
      <4>5. \A k \in DOMAIN events : ~Is(k, "CONTAINER_EXIT", c)
        BY <2>1, <4>1 DEF ReportInv, Happened
      <4>6. \A k \in DOMAIN events' : ~Is(k, "CONTAINER_EXIT", c)'
        BY <2>3, <3>1, <3>2, <4>5
      <4> QED
        BY <4>2, <4>4, <4>6
    <3> QED
      BY <2>3, <3>3, <3>4
  <2>7. KillsInOrder'
    BY <2>6 DEF KillsInOrder
  <2> QED
    BY <2>1, <2>4, <2>5, <2>7 DEF SignalInv, LatePoints
<1>14. CASE SupervisorExits
  <2>1. events' = events /\ pc' = "exited" /\ "exited" \in LatePoints
    BY <1>14 DEF SupervisorExits, storeVars, LatePoints
  <2> QED
    BY <2>1, SignalKeeps
<1> QED
  BY <1>1, <1>2, <1>3, <1>4, <1>7, <1>8, <1>9, <1>10, <1>11, <1>12, <1>13, <1>14, StepCases

-----------------------------------------------------------------------------
(* The wait after SIGKILL *)

\* Whoever is waited for after the timeout has SIGKILL pending.
LEMMA WaitStep ==
    ASSUME TypeOK, HandleInv, WaitInv, [Next]_vars
    PROVE  WaitInv'
<1>n. /\ N \in Nat \ {0} /\ Containers = 1..N /\ idx \in 1..(N + 1)
      /\ KillPolls \in Nat \ {0} /\ polls \in Nat
  BY PodAssumption DEF Containers, TypeOK
<1>1. CASE Quiet
  <2> USE DEF Alive
  <2>0. /\ UNCHANGED <<settings, pid, proc, pend>> /\ WaitMoves
        /\ pc' = "kill" => pc = "kill" /\ (idx' = idx \/ (idx' = idx + 1 /\ ~pid[idx]))
    BY <1>1 DEF Quiet
  <2>1. CASE pc' \notin {"kill_wait", "kill_reap", "cleanup", "pod_exit"}
    <3>1. \A c \in Containers : pid[c] /\ pc' = "kill" /\ c < idx' => c < idx /\ pc = "kill"
      BY <1>n, <2>0
    <3> QED
      BY <2>0, <2>1, <3>1 DEF WaitInv
  <2>2. CASE pc' = pc /\ polls' = polls /\ pc \in {"kill_wait", "kill_reap", "cleanup", "pod_exit"}
    BY <2>0, <2>2 DEF WaitInv, AllExited
  <2>3. CASE pc = "kill" /\ idx > N /\ pc' = "kill_wait" /\ polls' = 0
    BY <1>n, <2>0, <2>3 DEF WaitInv
  <2>4. CASE /\ pc = "kill_wait" /\ polls < KillPolls /\ pc' = "kill_reap" /\ polls' = polls + 1
             /\ polls = KillPolls - 1 => KillInTime
    <3>1. polls' <= KillPolls /\ (polls' = KillPolls => KillInTime)
      BY <1>n, <2>4
    <3>2. KillInTime /\ settings.prompt => \A c \in Containers : pid[c] => ~Alive(c)
      BY <2>4 DEF KillInTime, WaitInv
    <3> QED
      BY <2>0, <2>4, <3>1, <3>2 DEF WaitInv
  <2>5. CASE pc \in {"grace_reap", "kill_reap"} /\ AllExited /\ pc' = "cleanup"
    BY <2>0, <2>5 DEF WaitInv, AllExited
  <2>6. CASE pc = "kill_reap" /\ NoZombie /\ ~AllExited /\ pc' = "kill_wait" /\ polls' = polls
    <3>1. PICK c \in Containers : pid[c]
      BY <2>6 DEF AllExited
    <3>2. Alive(c)
      BY <2>6, <3>1 DEF HandleInv, NoZombie
    <3>3. settings.prompt => polls < KillPolls
      BY <1>n, <2>6, <3>1, <3>2 DEF WaitInv
    <3> QED
      BY <2>0, <2>6, <3>3 DEF WaitInv
  <2>7. CASE pc = "kill_wait" /\ polls = KillPolls /\ pc' = "cleanup"
    BY <1>n, <2>0, <2>7 DEF WaitInv
  <2>8. CASE pc = "cleanup" /\ pc' = "pod_exit"
    BY <2>0, <2>8 DEF WaitInv, AllExited
  <2> QED
    BY <2>0, <2>1, <2>2, <2>3, <2>4, <2>5, <2>6, <2>7, <2>8 DEF WaitMoves
<1>2. ASSUME NEW c \in Containers, Lives(c) PROVE WaitInv'
  <2>1. \A d \in Containers : Alive(d)' => Alive(d)
    BY <1>2 DEF Lives, Alive
  <2> QED
    BY <1>2, <2>1 DEF Lives, WaitInv, AllExited
<1>3. ASSUME NEW c \in Containers, Reaps(c) PROVE WaitInv'
  <2>1. \A d \in Containers : pid'[d] => pid[d] /\ (Alive(d)' => Alive(d))
    BY <1>3 DEF Reaps, TypeOK, Alive
  <2>2. UNCHANGED <<settings, polls, pend>> /\ pc' \in {pc, "err"} /\ pc # "kill"
    BY <1>3 DEF Reaps, ReapPoints
  <2> QED
    BY <2>1, <2>2 DEF WaitInv, AllExited
<1>4. ASSUME NEW c \in Containers, Collects(c) PROVE WaitInv'
  <2>1. \A d \in Containers : Alive(d)' => Alive(d)
    BY <1>4 DEF Collects, TypeOK, Alive
  <2> QED
    BY <1>4, <2>1 DEF Collects, WaitInv, AllExited
<1>5. CASE AppendPodEvent
  <2>1. idx' = 1 /\ pc' \in {"fork", "term", "kill", "status_exited", "status_exited_all"}
    BY <1>5, PodEventCases DEF Announces
  <2> QED
    BY <1>n, <2>1 DEF WaitInv
<1>6. CASE StartContainer
  <2>1. pc' \in {"forked", "err"}
    BY <1>6, StartCases
  <2> QED
    BY <2>1 DEF WaitInv
<1>7. CASE ContainerForked
  <2>1. pc' \in {"idle", "fork"}
    BY <1>7, ForkedCases
  <2> QED
    BY <2>1 DEF WaitInv
<1>8. CASE Books \/ GivesUp \/ Marks
  <2>1. pc' \in {"tick_scan", "stop_all", "err"}
    BY <1>8 DEF Books, GivesUp, Marks
  <2> QED
    BY <2>1 DEF WaitInv
<1>9. CASE Sends("term", "SIGTERM")
  <2>1. pc' = "term"
    BY <1>9 DEF Sends
  <2> QED
    BY <2>1 DEF WaitInv
<1>10. CASE Sends("kill", "SIGKILL")
  <2>1. /\ pc = "kill" /\ pc' = "kill" /\ idx \in Containers /\ idx' = idx + 1 /\ pid' = pid
        /\ pend' = [pend EXCEPT ![idx] = @ \cup {"SIGKILL"}]
    BY <1>10 DEF Sends
  <2>2. \A c \in Containers : ("SIGKILL" \in pend[c] \/ c = idx) => "SIGKILL" \in pend'[c]
    BY <2>1 DEF TypeOK
  <2>3. \A c \in Containers : c < idx' => c < idx \/ c = idx
    BY <1>n, <2>1
  <2> QED
    BY <2>1, <2>2, <2>3 DEF WaitInv
<1>11. CASE SupervisorExits
  <2>1. pc' = "exited"
    BY <1>11 DEF SupervisorExits
  <2> QED
    BY <2>1 DEF WaitInv
<1> QED
  BY <1>1, <1>2, <1>3, <1>4, <1>5, <1>6, <1>7, <1>8, <1>9, <1>10, <1>11, StepCases

-----------------------------------------------------------------------------
(* The end of the pod *)

\* The exit of a container is reported before every POD_EXIT.
ExitFirst(c) == \A j \in DOMAIN events : Is(j, "POD_EXIT", 0) =>
                    \E i \in 1..(j - 1) : Is(i, "CONTAINER_EXIT", c)

\* An appended event keeps that order if it is no POD_EXIT or the exit is reported.
LEMMA ExitFirstKeeps ==
    ASSUME TypeOK, NEW e \in EventRecords, Append1(e), NEW c, ExitFirst(c),
           e.ev # "POD_EXIT" \/ Happened("CONTAINER_EXIT", c)
    PROVE  ExitFirst(c)'
<1>1. /\ DOMAIN events = 1..Len(events) /\ DOMAIN events' = 1..(Len(events) + 1)
      /\ Len(events) \in Nat
  BY AppendKeeps
<1>2. \A i \in DOMAIN events : /\ Is(i, "CONTAINER_EXIT", c)' <=> Is(i, "CONTAINER_EXIT", c)
                               /\ Is(i, "POD_EXIT", 0)' <=> Is(i, "POD_EXIT", 0)
  BY AppendHappens
<1>3. \A i \in Int : i = Len(events) + 1 /\ Is(i, "POD_EXIT", 0)' => e.ev = "POD_EXIT"
  BY AppendHappens
<1>4. SUFFICES ASSUME NEW j \in DOMAIN events', Is(j, "POD_EXIT", 0)'
               PROVE  \E i \in 1..(j - 1) : Is(i, "CONTAINER_EXIT", c)'
  BY DEF ExitFirst
<1>5. CASE j \in DOMAIN events
  <2>1. PICK i \in 1..(j - 1) : Is(i, "CONTAINER_EXIT", c)
    BY <1>2, <1>4, <1>5 DEF ExitFirst
  <2>2. i \in DOMAIN events
    BY <1>1, <1>5
  <2> QED
    BY <1>2, <2>1, <2>2
<1>6. CASE j = Len(events) + 1
  <2>1. PICK i \in DOMAIN events : Is(i, "CONTAINER_EXIT", c)
    BY <1>1, <1>3, <1>4, <1>6 DEF Happened
  <2>2. i \in 1..(j - 1)
    BY <1>1, <1>6
  <2> QED
    BY <1>2, <2>1, <2>2
<1> QED
  BY <1>1, <1>5, <1>6

\* A step that neither forks a container nor ends the pod.
LEMMA EndKeeps ==
    ASSUME TypeOK, EndInv, settings' = settings,
           \/ events' = events
           \/ \E e \in EventRecords : Append1(e) /\ e.ev \notin {"POD_EXIT", "CONTAINER_FORKED"},
           pc' \in StartPoints => pc \in StartPoints,
           pc \in {"err", "exited"} => pc' \in {"err", "exited"},
           \A c \in Containers : pid[c] => \/ pid'[c] \/ Happened("CONTAINER_EXIT", c)'
                                           \/ pc' \in {"err", "exited"}
    PROVE  EndInv'
<1>1. /\ Happened("POD_EXIT", 0)' <=> Happened("POD_EXIT", 0)
      /\ \A c \in Containers : Happened("CONTAINER_FORKED", c)' <=> Happened("CONTAINER_FORKED", c)
      /\ \A c \in Containers : Happened("CONTAINER_EXIT", c) => Happened("CONTAINER_EXIT", c)'
  BY AppendHappens, EventsStay
<1>2. \A c \in Containers : ExitFirst(c) => ExitFirst(c)'
  <2>1. CASE events' = events
    BY <2>1 DEF ExitFirst, Is
  <2>2. ASSUME NEW e \in EventRecords, Append1(e), e.ev \notin {"POD_EXIT", "CONTAINER_FORKED"}
        PROVE  \A c \in Containers : ExitFirst(c) => ExitFirst(c)'
    BY <2>2, ExitFirstKeeps
  <2> QED
    BY <2>1, <2>2
<1>3. /\ Happened("POD_EXIT", 0) => pc \notin StartPoints
      /\ NoCrashLoop => \A c \in Containers : Happened("CONTAINER_FORKED", c) =>
            /\ pid[c] \/ Happened("CONTAINER_EXIT", c) \/ pc \in {"err", "exited"}
            /\ settings.prompt => ExitFirst(c)
  BY DEF EndInv, ExitFirst
<1>4. NoCrashLoop' <=> NoCrashLoop
  BY DEF NoCrashLoop
<1>5. ASSUME NoCrashLoop, NEW c \in Containers, Happened("CONTAINER_FORKED", c)
      PROVE  /\ pid'[c] \/ Happened("CONTAINER_EXIT", c)' \/ pc' \in {"err", "exited"}
             /\ settings.prompt => ExitFirst(c)'
  BY <1>1, <1>2, <1>3, <1>5
<1>6. /\ Happened("POD_EXIT", 0)' => pc' \notin StartPoints
      /\ NoCrashLoop' => \A c \in Containers : Happened("CONTAINER_FORKED", c)' =>
            /\ pid'[c] \/ Happened("CONTAINER_EXIT", c)' \/ pc' \in {"err", "exited"}
            /\ settings'.prompt => ExitFirst(c)'
  BY <1>1, <1>3, <1>4, <1>5
<1> QED
  BY <1>6 DEF EndInv, ExitFirst

\* Nobody is left when POD_EXIT is appended.
LEMMA EndStep ==
    ASSUME TypeOK, HandleInv, ReportInv, RestartInv, WaitInv, EndInv, [Next]_vars
    PROVE  EndInv'
<1>n. N \in Nat \ {0} /\ Containers = 1..N /\ idx \in 1..(N + 1) /\ 0 \in 0..255
  BY PodAssumption DEF Containers, TypeOK
<1>1. CASE Quiet
  BY <1>1, EndKeeps DEF Quiet
<1>2. ASSUME NEW c \in Containers, Lives(c) PROVE EndInv'
  BY <1>2, EndKeeps DEF Lives
<1>3. ASSUME NEW c \in Containers, NEW n \in 0..255, pid' = [pid EXCEPT ![c] = FALSE],
             \/ Append1(Event("CONTAINER_EXIT", c, n)) /\ pc' = pc
             \/ pc' = "err" /\ UNCHANGED events,
             settings' = settings
      PROVE  EndInv'
  <2> DEFINE e == Event("CONTAINER_EXIT", c, n)
  <2>1. e \in EventRecords /\ e.ev = "CONTAINER_EXIT" /\ e.c = c
    BY DEF e, Event, EventRecords, ContainerNames
  <2>2. (Append1(e) /\ pc' = pc) \/ (pc' = "err" /\ UNCHANGED events)
    BY <1>3 DEF e
  <2> HIDE DEF e
  <2>3. Append1(e) => Happened("CONTAINER_EXIT", c)'
    BY <2>1, AppendHappens
  <2>4. \A d \in Containers : pid[d] => pid'[d] \/ d = c
    BY <1>3 DEF TypeOK
  <2>5. pc' \in StartPoints => pc \in StartPoints
    BY <2>2 DEF StartPoints
  <2> QED
    BY <1>3, <2>1, <2>2, <2>3, <2>4, <2>5, EndKeeps
<1>4. ASSUME NEW c \in Containers, Reaps(c) PROVE EndInv'
  <2>1. ReportedCode(c) \in 0..255
    BY CodeType
  <2> QED
    BY <1>3, <1>4, <2>1 DEF Reaps
<1>5. ASSUME NEW c \in Containers, Collects(c) PROVE EndInv'
  BY <1>5, EndKeeps DEF Collects
<1>6. ASSUME NEW from \in {"net_ready", "stop_requested", "timeout"},
             NEW name \in PodNames, name # "POD_EXIT", NEW to, Announces(from, name, to),
             from \in StartPoints \/ to \notin StartPoints
      PROVE  EndInv'
  <2>1. Event(name, 0, 0) \in EventRecords
        /\ Event(name, 0, 0).ev \notin {"POD_EXIT", "CONTAINER_FORKED"}
    BY <1>6, PodLevelEvent DEF PodNames
  <2>2. pc = from /\ pc' = to /\ UNCHANGED <<settings, pid>> /\ Append1(Event(name, 0, 0))
    BY <1>6 DEF Announces
  <2> QED
    BY <1>6, <2>1, <2>2, EndKeeps
<1>7. ASSUME NEW from, NEW to, Announces(from, "POD_EXIT", to), to \notin StartPoints,
             from \notin {"err", "exited"}, NoCrashLoop /\ settings.prompt => AllExited
      PROVE  EndInv'
  <2> DEFINE e == Event("POD_EXIT", 0, 0)
  <2>1. e \in EventRecords /\ e.ev = "POD_EXIT" /\ e.c = 0
    BY DEF e, Event, EventRecords, PodNames
  <2>2. pc = from /\ pc' = to /\ UNCHANGED <<settings, pid>> /\ Append1(e)
    BY <1>7 DEF Announces
  <2> HIDE DEF e
  <2>3. \A c \in Containers :
          /\ Happened("CONTAINER_FORKED", c)' <=> Happened("CONTAINER_FORKED", c)
          /\ Happened("CONTAINER_EXIT", c)' <=> Happened("CONTAINER_EXIT", c)
    BY <2>1, <2>2, AppendHappens
  <2>4. ASSUME NoCrashLoop, NEW c \in Containers, Happened("CONTAINER_FORKED", c)
        PROVE  /\ pid[c] \/ Happened("CONTAINER_EXIT", c)
               /\ settings.prompt => ExitFirst(c)'
    <3>1. /\ pid[c] \/ Happened("CONTAINER_EXIT", c)
          /\ settings.prompt => ExitFirst(c)
      BY <1>7, <2>2, <2>4 DEF EndInv, ExitFirst
    <3>2. settings.prompt => Happened("CONTAINER_EXIT", c)
      BY <1>7, <2>4, <3>1 DEF AllExited
    <3> QED
      BY <2>1, <2>2, <3>1, <3>2, ExitFirstKeeps
  <2>5. NoCrashLoop' <=> NoCrashLoop
    BY <2>2 DEF NoCrashLoop
  <2>6. NoCrashLoop' => \A c \in Containers : Happened("CONTAINER_FORKED", c)' =>
            /\ pid'[c] \/ Happened("CONTAINER_EXIT", c)' \/ pc' \in {"err", "exited"}
            /\ settings'.prompt => ExitFirst(c)'
    BY <2>2, <2>3, <2>4, <2>5
  <2> QED
    BY <1>7, <2>2, <2>6 DEF EndInv, ExitFirst
<1>8. CASE AppendPodEvent
  <2>1. Announces("pod_exit", "POD_EXIT", "status_exited") => (settings.prompt => AllExited)
    BY DEF Announces, WaitInv
  <2>2. Announces("pod_exit_all", "POD_EXIT", "status_exited_all") => ~NoCrashLoop
    BY DEF Announces, RestartInv, LoopPoints
  <2> QED
    BY <1>6, <1>7, <1>8, <2>1, <2>2, PodEventCases DEF PodNames, StartPoints
<1>9. CASE StartContainer
  <2>1. /\ events' = events /\ settings' = settings /\ pc \in StartPoints
        /\ pc \notin {"err", "exited"}
        /\ \A c \in Containers : pid[c] => pid'[c]
    BY <1>9, StartCases DEF StartPoints, TypeOK
  <2> QED
    BY <2>1, EndKeeps
<1>10. CASE ContainerForked
  <2> DEFINE e == Event("CONTAINER_FORKED", idx, 0)
  <2>1. /\ idx \in Containers /\ pid[idx] /\ pc = "forked" /\ pc' \notin {"err", "exited"}
        /\ UNCHANGED <<settings, pid>> /\ Append1(e)
    BY <1>10, <1>n, ForkedCases DEF HandleInv
  <2>2. e \in EventRecords /\ e.ev = "CONTAINER_FORKED" /\ e.c = idx
    BY <1>n, <2>1 DEF e, Event, EventRecords, ContainerNames
  <2> HIDE DEF e
  <2>3. ~Happened("POD_EXIT", 0)' /\ \A c \in Containers :
          /\ Happened("CONTAINER_FORKED", c)' <=> Happened("CONTAINER_FORKED", c) \/ c = idx
          /\ Happened("CONTAINER_EXIT", c)' <=> Happened("CONTAINER_EXIT", c)
    BY <2>1, <2>2, AppendHappens DEF EndInv, StartPoints
  <2>4. \A c \in Containers : ExitFirst(c)'
    BY <2>3 DEF ExitFirst, Happened
  <2>5. NoCrashLoop => \A c \in Containers : Happened("CONTAINER_FORKED", c) =>
          pid[c] \/ Happened("CONTAINER_EXIT", c)
    BY <2>1 DEF EndInv
  <2>6. NoCrashLoop' => NoCrashLoop
    BY <2>1 DEF NoCrashLoop
  <2>7. NoCrashLoop' => \A c \in Containers : Happened("CONTAINER_FORKED", c)' =>
            /\ pid'[c] \/ Happened("CONTAINER_EXIT", c)' \/ pc' \in {"err", "exited"}
            /\ settings'.prompt => ExitFirst(c)'
    BY <2>1, <2>3, <2>4, <2>5, <2>6
  <2> QED
    BY <2>3, <2>7 DEF EndInv, ExitFirst
<1>11. CASE Books \/ GivesUp
  <2>1. /\ UNCHANGED <<settings, events, pid>> /\ pc' \notin StartPoints
        /\ pc \notin {"err", "exited"}
    BY <1>11 DEF Books, GivesUp, StartPoints
  <2> QED
    BY <2>1, EndKeeps
<1>12. CASE Marks
  BY <1>3, <1>n, <1>12 DEF Marks
<1>13. ASSUME NEW point, NEW sig \in {"SIGTERM", "SIGKILL"}, Sends(point, sig) PROVE EndInv'
  <2>1. /\ idx \in Containers /\ Append1(Event(sig, idx, 0)) /\ UNCHANGED <<settings, pc, pid>>
    BY <1>13 DEF Sends
  <2>2. Event(sig, idx, 0) \in EventRecords
        /\ Event(sig, idx, 0).ev \notin {"POD_EXIT", "CONTAINER_FORKED"}
    BY <1>n, <2>1 DEF Event, EventRecords, ContainerNames
  <2> QED
    BY <2>1, <2>2, EndKeeps
<1>14. CASE SupervisorExits
  <2>1. UNCHANGED <<settings, events, pid>> /\ pc' = "exited" /\ "exited" \notin StartPoints
    BY <1>14 DEF SupervisorExits, handleVars, storeVars, StartPoints
  <2> QED
    BY <2>1, EndKeeps
<1> QED
  BY <1>1, <1>2, <1>4, <1>5, <1>8, <1>9, <1>10, <1>11, <1>12, <1>13, <1>14, StepCases

-----------------------------------------------------------------------------
(* Theorems *)

\* A new supervisor satisfies the invariant.
LEMMA PodInvInit == Init => PodInv
<1> SUFFICES ASSUME Init PROVE PodInv
  OBVIOUS
<1>n. N \in Nat \ {0} /\ Containers = 1..N
  BY PodAssumption DEF Containers
<1>1. events = <<>> /\ DOMAIN events = {}
  BY DEF Init
<1>2. \A name, c : ~Happened(name, c)
  BY <1>1 DEF Happened
<1>3. TypeOK
  <2>1. "manifest" \in Points
    BY DEF Points, StorePoints
  <2>2. events \in Seq(EventRecords)
    BY <1>1
  <2>3. wait \in [Containers -> [kind : {"exited"}, n : 0..255]
                                \cup [kind : {"signaled"}, n : {9, 15}]]
    BY DEF Init
  <2>4. idx \in 1..(N + 1) /\ polls \in Nat /\ restartTimes \in Nat
    BY <1>n DEF Init
  <2>5. exitCode \in [Containers -> 0..255] /\ backoff \in [Containers -> 1..30]
    BY DEF Init
  <2>6. pid \in [Containers -> BOOLEAN] /\ pend \in [Containers -> SUBSET {"SIGTERM", "SIGKILL"}]
    BY DEF Init
  <2> QED
    BY <2>1, <2>2, <2>3, <2>4, <2>5, <2>6 DEF Init, TypeOK
<1>4. HandleInv /\ WaitInv
  BY DEF Init, HandleInv, WaitInv
<1>5. ReportInv /\ ReportedExitIsTrue /\ FirstsExist
  BY <1>1, <1>2 DEF ReportInv, ExitReportedOnce, ReportedExitIsTrue, FirstsExist
<1>6. RestartInv
  <2>1. InBackoff \in SUBSET Containers
    BY DEF InBackoff
  <2>2. Cardinality(InBackoff) \in Nat
    BY <2>1, ContainersFinite
  <2> QED
    BY <2>2 DEF Init, RestartInv, LoopPoints
<1>7. SignalInv
  BY <1>1, <1>2 DEF Init, SignalInv, KillsInOrder
<1>8. EndInv
  BY <1>2 DEF EndInv
<1> QED
  BY <1>3, <1>4, <1>5, <1>6, <1>7, <1>8 DEF PodInv

\* The invariant holds for every garden, every order in which its containers run
\* and die, and every fault.
THEOREM PodInvCorrect == Spec => []PodInv
<1>1. PodInv /\ [Next]_vars => PodInv'
  BY TypeStep, HandleStep, ReportStep, RestartStep, TruthStep, FirstsStep, SignalStep,
     WaitStep, EndStep DEF PodInv
<1> QED
  BY <1>1, PodInvInit, PTL DEF Spec

\* No signal of stop_graceful can reach a recycled pid.
THEOREM PidCorrect == Spec => []PidNamesOwnProcess
<1>1. PodInv => PidNamesOwnProcess
  BY DEF PodInv, HandleInv, PidNamesOwnProcess
<1> QED
  BY <1>1, PodInvCorrect, PTL

\* reap_exited_processes and stop_all report each container once between them.
THEOREM ExitOnceCorrect == Spec => []ExitReportedOnce
<1>1. PodInv => ExitReportedOnce
  BY DEF PodInv, ReportInv
<1> QED
  BY <1>1, PodInvCorrect, PTL

\* CONTAINER_EXIT tells how the process ended.
THEOREM ExitTruthCorrect == Spec => []ReportedExitIsTrue
<1>1. PodInv => ReportedExitIsTrue
  BY DEF PodInv
<1> QED
  BY <1>1, PodInvCorrect, PTL

\* The CHOOSE of FirstAt picks the first occurrence.
LEMMA FirstAtIsFirst ==
    ASSUME TypeOK, FirstsExist, NEW name \in PodNames \cup ContainerNames, NEW c \in 0..N,
           Happened(name, c)
    PROVE  /\ FirstAt(name, c) \in DOMAIN events /\ Is(FirstAt(name, c), name, c)
           /\ FirstAt(name, c) \in Int
           /\ \A i \in DOMAIN events : Is(i, name, c) => i \in Int /\ FirstAt(name, c) <= i
<1>1. \E i \in DOMAIN events : First(i, name, c)
  BY DEF FirstsExist
<1>2. FirstAt(name, c) \in DOMAIN events /\ First(FirstAt(name, c), name, c)
  BY <1>1 DEF FirstAt
<1>3. DOMAIN events = 1..Len(events) /\ Len(events) \in Nat
  BY LenProperties DEF TypeOK
<1>4. ASSUME NEW i \in DOMAIN events, Is(i, name, c)
      PROVE  i \in Int /\ FirstAt(name, c) <= i
  <2>1. i \notin 1..(FirstAt(name, c) - 1)
    BY <1>2, <1>4 DEF First
  <2> QED
    BY <1>2, <1>3, <2>1
<1> QED
  BY <1>2, <1>3, <1>4 DEF First

\* stop_graceful forwards SIGKILL last: after SIGTERM and the timeout, and to no
\* container that has been reported.
THEOREM KillCorrect == Spec => []KillOnlyAfterTimeout
<1>1. PodInv => KillOnlyAfterTimeout
  <2> SUFFICES ASSUME PodInv, NEW c \in Containers, Happened("SIGKILL", c)
               PROVE  /\ Happened("POD_TIMEOUT", 0)
                      /\ FirstAt("POD_TIMEOUT", 0) < FirstAt("SIGKILL", c)
                      /\ Happened("SIGTERM", c)
                      /\ FirstAt("SIGTERM", c) < FirstAt("POD_TIMEOUT", 0)
                      /\ Happened("CONTAINER_EXIT", c) =>
                            FirstAt("SIGKILL", c) < FirstAt("CONTAINER_EXIT", c)
    BY DEF KillOnlyAfterTimeout
  <2> USE DEF PodInv
  <2>0. DOMAIN events = 1..Len(events) /\ Len(events) \in Nat
    BY LenProperties DEF TypeOK
  <2>n. c \in 0..N /\ 0 \in 0..N
    BY PodAssumption DEF Containers
  <2>1. /\ {"POD_TIMEOUT", "POD_EXIT"} \subseteq PodNames \cup ContainerNames
        /\ {"SIGTERM", "SIGKILL", "CONTAINER_EXIT"} \subseteq PodNames \cup ContainerNames
    BY DEF PodNames, ContainerNames
  <2> DEFINE k == FirstAt("SIGKILL", c)
             t == FirstAt("POD_TIMEOUT", 0)
             s == FirstAt("SIGTERM", c)
             x == FirstAt("CONTAINER_EXIT", c)
  <2>2. k \in DOMAIN events /\ Is(k, "SIGKILL", c) /\ k \in Int
    BY <2>n, <2>1, FirstAtIsFirst
  <2> HIDE DEF k
  <2>3. /\ TermFirst(c) /\ \E j \in 1..(k - 1) : Is(j, "POD_TIMEOUT", 0)
        /\ \A j \in DOMAIN events : Is(j, "CONTAINER_EXIT", c) => k < j
    BY <2>2 DEF SignalInv, KillsInOrder
  <2>4. PICK j \in 1..(k - 1) : Is(j, "POD_TIMEOUT", 0)
    BY <2>3
  <2>5. j \in DOMAIN events
    BY <2>0, <2>2
  <2>6. Happened("POD_TIMEOUT", 0)
    BY <2>4, <2>5 DEF Happened
  <2>7. t \in DOMAIN events /\ Is(t, "POD_TIMEOUT", 0) /\ t \in Int /\ t <= j
    BY <2>n, <2>1, <2>4, <2>5, <2>6, FirstAtIsFirst
  <2> HIDE DEF t
  <2>8. t < k
    BY <2>2, <2>7
  <2>9. PICK i \in 1..(t - 1) : Is(i, "SIGTERM", c)
    BY <2>3, <2>7 DEF TermFirst
  <2>10. i \in DOMAIN events
    BY <2>0, <2>7
  <2>11. Happened("SIGTERM", c)
    BY <2>9, <2>10 DEF Happened
  <2>12. s \in Int /\ s <= i
    BY <2>n, <2>1, <2>9, <2>10, <2>11, FirstAtIsFirst
  <2> HIDE DEF s
  <2>13. s < t
    BY <2>7, <2>12
  <2>14. ASSUME Happened("CONTAINER_EXIT", c) PROVE k < x
    <3>1. x \in DOMAIN events /\ Is(x, "CONTAINER_EXIT", c)
      BY <2>n, <2>1, <2>14, FirstAtIsFirst
    <3> HIDE DEF x
    <3> QED
      BY <2>3, <3>1
  <2> QED
    BY <2>6, <2>8, <2>11, <2>13, <2>14 DEF k, t, s
<1> QED
  BY <1>1, PodInvCorrect, PTL

\* Once POD_EXIT is there, every container that was forked has been reported
\* before and is gone.
THEOREM PodExitCorrect == Spec => []PodExitMeansStopped
<1>1. PodInv => PodExitMeansStopped
  <2> SUFFICES ASSUME PodInv, NoCrashLoop, settings.prompt, Happened("POD_EXIT", 0),
                      NEW c \in Containers, Happened("CONTAINER_FORKED", c)
               PROVE  /\ Happened("CONTAINER_EXIT", c)
                      /\ FirstAt("CONTAINER_EXIT", c) < FirstAt("POD_EXIT", 0)
                      /\ ~Alive(c)
    BY DEF PodExitMeansStopped
  <2> USE DEF PodInv
  <2>0. DOMAIN events = 1..Len(events) /\ Len(events) \in Nat
    BY LenProperties DEF TypeOK
  <2>n. c \in 0..N /\ 0 \in 0..N
    BY PodAssumption DEF Containers
  <2>1. {"POD_EXIT", "CONTAINER_EXIT"} \subseteq PodNames \cup ContainerNames
    BY DEF PodNames, ContainerNames
  <2> DEFINE p == FirstAt("POD_EXIT", 0)
             x == FirstAt("CONTAINER_EXIT", c)
  <2>2. p \in DOMAIN events /\ Is(p, "POD_EXIT", 0) /\ p \in Int
    BY <2>n, <2>1, FirstAtIsFirst
  <2> HIDE DEF p
  <2>3. PICK i \in 1..(p - 1) : Is(i, "CONTAINER_EXIT", c)
    BY <2>2 DEF EndInv
  <2>4. i \in DOMAIN events
    BY <2>0, <2>2
  <2>5. Happened("CONTAINER_EXIT", c)
    BY <2>3, <2>4 DEF Happened
  <2>6. x \in Int /\ x <= i
    BY <2>n, <2>1, <2>3, <2>4, <2>5, FirstAtIsFirst
  <2> HIDE DEF x
  <2>7. x < p
    BY <2>2, <2>6
  <2>8. ~Alive(c)
    BY <2>3, <2>4 DEF ReportedExitIsTrue, Is, Alive
  <2> QED
    BY <2>5, <2>7, <2>8 DEF p, x
<1> QED
  BY <1>1, PodInvCorrect, PTL
=============================================================================
