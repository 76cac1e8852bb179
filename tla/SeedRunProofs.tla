---------------------------- MODULE SeedRunProofs ----------------------------
(***************************************************************************)
(* Type correctness and the safety properties of SeedRun, for every set of  *)
(* Seeds, exit codes and faults.  Inv is split into parts; each is shown    *)
(* inductive relative to the parts before it, with one step per action, and *)
(* the properties follow from their conjunction.                            *)
(***************************************************************************)
EXTENDS SeedRun, TLAPS

-----------------------------------------------------------------------------
(* Type correctness *)

\* The code run() returns, decoded from a wait status, is a byte.
LEMMA TerminalCodeType == TypeOK => TerminalCode \in 0..255
<1>1. TypeOK => wait \in WaitStatuses
  BY DEF TypeOK
<1>2. ASSUME wait \in WaitStatuses PROVE TerminalCode \in 0..255
  BY <1>2 DEF WaitStatuses, NoWait, TerminalCode, SIGKILL, SIGSYS
<1> QED
  BY <1>1, <1>2

\* The bootstrap failure code is a byte as well.
LEMMA BootstrapFailureType == CHILD_BOOTSTRAP_FAILURE \in 0..255
BY DEF CHILD_BOOTSTRAP_FAILURE

\* Every event point leads to a point of run().
LEMMA AfterEventType ==
    ASSUME NEW p \in EventPoints PROVE AfterEvent(p) \in SupPoints
BY DEF AfterEvent, EventPoints, SupPoints

\* Every event point names an event.
LEMMA EventAtType ==
    ASSUME NEW p \in EventPoints PROVE EventAt[p] \in EventNames
BY DEF EventAt, EventPoints, EventNames

\* Type correctness is inductive, one step per action of the specification.
LEMMA TypeInductive == TypeOK /\ [Next]_vars => TypeOK'
<1> SUFFICES ASSUME TypeOK PROVE [Next]_vars => TypeOK'
  OBVIOUS
<1>1. CASE DropKill
  BY <1>1 DEF TypeOK, DropKill, supVars, storeVars, sockVars
<1>2. CASE DropGuard
  BY <1>2 DEF TypeOK, DropGuard, storeVars, SupPoints
<1>3. CASE StoreRefuses
  BY <1>3 DEF TypeOK, StoreRefuses, ReturnErr, storeVars, taskVars, SupPoints
<1>4. CASE StoreSeedManifest
  BY <1>4 DEF TypeOK, StoreSeedManifest, ReturnErr, storeVars, taskVars, sockVars, SupPoints
<1>5. CASE CreateRun
  BY <1>5 DEF TypeOK, RunStatuses, CreateRun, taskVars, sockVars, SupPoints, EventPoints
<1>6. CASE AppendEvent
  <2>1. EventAt[sup] \in EventNames /\ AfterEvent(sup) \in SupPoints
    BY <1>6, EventAtType, AfterEventType DEF AppendEvent
  <2> QED
    BY <1>6, <2>1 DEF TypeOK, AppendEvent, taskVars, sockVars
<1>7. CASE MarkRunning
  BY <1>7 DEF TypeOK, RunStatuses, MarkRunning, UpdateRunStatus, taskVars, sockVars, SupPoints
<1>8. CASE MarkExited
  BY <1>8 DEF TypeOK, RunStatuses, MarkExited, UpdateRunStatus, taskVars, sockVars, SupPoints
<1>9. CASE MarkFailed
  BY <1>9 DEF TypeOK, RunStatuses, MarkFailed, UpdateRunStatus, taskVars, sockVars, SupPoints
<1>10. CASE ApplyParent
  BY <1>10, SeedRunAssumption DEF TypeOK, ApplyParent, ReturnErr, storeVars, taskVars, SupPoints, Seed
<1>11. CASE ControlSocket
  BY <1>11 DEF TypeOK, ControlSocket, ReturnErr, storeVars, taskVars, SupPoints
<1>12. CASE Clone
  BY <1>12 DEF TypeOK, Clone, ReturnErr, storeVars, SupPoints, ChildPoints,
               workload_clone_flags, Namespaces
<1>13. CASE MapChildFromParent
  <2>1. applied' \subseteq Facts
    BY <1>13 DEF TypeOK, MapChildFromParent, Facts
  <2>2. sup' \in SupPoints
    BY <1>13 DEF MapChildFromParent, AbortBlockedChild, SupPoints, EventPoints
  <2>3. result' \in 0..255 /\ supEnd' \subseteq {"sup", "child"}
    BY <1>13, BootstrapFailureType DEF TypeOK, MapChildFromParent, AbortBlockedChild
  <2>4. failure' = failure /\ ok' = ok
    BY <1>13 DEF MapChildFromParent, AbortBlockedChild
  <2> QED
    BY <1>13, <2>1, <2>2, <2>3, <2>4 DEF TypeOK, MapChildFromParent, storeVars
<1>14. CASE MovePidToPath
  <2>1. applied' \subseteq Facts
    BY <1>14 DEF TypeOK, MovePidToPath, Facts
  <2>2. sup' \in SupPoints
    BY <1>14 DEF MovePidToPath, AbortBlockedChild, SupPoints, EventPoints
  <2>3. result' \in 0..255 /\ supEnd' \subseteq {"sup", "child"}
    BY <1>14, BootstrapFailureType DEF TypeOK, MovePidToPath, AbortBlockedChild
  <2>4. failure' = failure /\ ok' = ok
    BY <1>14 DEF MovePidToPath, AbortBlockedChild
  <2> QED
    BY <1>14, <2>1, <2>2, <2>3, <2>4 DEF TypeOK, MovePidToPath, storeVars
<1>15. CASE Release
  <2>1. sup' \in SupPoints
    BY <1>15 DEF Release, AbortBlockedChild, ReturnErr, SupPoints
  <2>2. result' \in 0..255 /\ supEnd' \subseteq {"sup", "child"}
    BY <1>15, BootstrapFailureType DEF TypeOK, Release, AbortBlockedChild, ReturnErr
  <2>3. failure' = failure /\ ok' \in BOOLEAN /\ go' \in BOOLEAN
    BY <1>15 DEF TypeOK, Release, AbortBlockedChild, ReturnErr
  <2> QED
    BY <1>15, <2>1, <2>2, <2>3 DEF TypeOK, Release, storeVars, taskVars
<1>16. CASE ReadNotice
  BY <1>16 DEF TypeOK, ReadNotice, ProtocolError, storeVars, taskVars, SupPoints, EventPoints
<1>17. CASE ReadEof
  BY <1>17 DEF TypeOK, ReadEof, storeVars, taskVars, sockVars, SupPoints
<1>18. CASE ReadError
  BY <1>18 DEF TypeOK, ReadError, ProtocolError, storeVars, taskVars, sockVars, SupPoints
<1>19. CASE Terminate
  BY <1>19 DEF TypeOK, Terminate, storeVars, sockVars, SupPoints
<1>20. CASE WaitTerminal
  <2>1. sup' \in SupPoints /\ ok' \in BOOLEAN /\ supEnd' \subseteq {"sup", "child"}
    BY <1>20 DEF TypeOK, WaitTerminal, Verdict, ReturnErr, SupPoints, EventPoints
  <2>2. result' \in 0..255 /\ failure' = failure
    BY <1>20, BootstrapFailureType, TerminalCodeType
       DEF TypeOK, WaitTerminal, Verdict, ReturnErr
  <2> QED
    BY <1>20, <2>1, <2>2 DEF TypeOK, WaitTerminal, storeVars
<1>21. CASE AbortWait
  BY <1>21 DEF TypeOK, AbortWait, storeVars, sockVars, SupPoints, EventPoints
<1>22. CASE ClosePeer
  BY <1>22 DEF TypeOK, ClosePeer, supVars, storeVars, ChildPoints
<1>23. CASE ReadGo
  <2>1. [kind |-> "exited", code |-> CHILD_BOOTSTRAP_FAILURE] \in WaitStatuses
    BY BootstrapFailureType DEF WaitStatuses
  <2>2. child' \in ChildPoints
    BY <1>23 DEF TypeOK, ReadGo, ChildPoints
  <2> QED
    BY <1>23, <2>1, <2>2 DEF TypeOK, ReadGo, Dies, supVars, storeVars
<1>24. CASE EnterMappedIdentity
  BY <1>24 DEF TypeOK, EnterMappedIdentity, Step, supVars, storeVars, sockVars, ChildPoints, Facts
<1>25. CASE SendNamespaceReady \/ SendIsolationReady \/ SendProcessStart
  <2>1. \A k \in NoticeKinds : Notice(k) \in Notices
    BY DEF TypeOK, Notice, Notices
  <2>2. chan' \in Seq(Notices)
    BY <1>25, <2>1 DEF TypeOK, SendNamespaceReady, SendIsolationReady, SendProcessStart,
       Send, NoticeKinds
  <2>3. child' \in ChildPoints
    BY <1>25 DEF SendNamespaceReady, SendIsolationReady, SendProcessStart, Send, ChildPoints
  <2> QED
    BY <1>25, <2>2, <2>3 DEF TypeOK, SendNamespaceReady, SendIsolationReady,
       SendProcessStart, Send, supVars, storeVars
<1>26. CASE ApplyChild
  <2>1. istep' \in 1..6
    BY <1>26 DEF TypeOK, ApplyChild, ApplyChildSteps
  <2>2. ApplyChildSteps[istep] \in Facts
    BY DEF TypeOK, ApplyChildSteps, Facts
  <2>3. applied' \subseteq Facts
    BY <1>26, <2>2 DEF TypeOK, ApplyChild, Step
  <2>4. child' \in ChildPoints
    BY <1>26 DEF ApplyChild, Step, ChildPoints
  <2> QED
    BY <1>26, <2>1, <2>3, <2>4 DEF TypeOK, ApplyChild, Step, supVars, storeVars, sockVars
<1>27. CASE PrepareExec \/ Execv
  BY <1>27 DEF TypeOK, PrepareExec, Execv, Step, supVars, storeVars, sockVars, ChildPoints
<1>28. CASE StrictKill
  BY <1>28 DEF TypeOK, WaitStatuses, StrictKill, Dies, supVars, storeVars, SIGSYS
<1>29. CASE ReportFailure
  <2>1. Notice("failed") \in Notices /\ "leaving" \in ChildPoints
    BY DEF TypeOK, Notice, Notices, NoticeKinds, ChildPoints
  <2> QED
    BY <1>29, <2>1 DEF TypeOK, ReportFailure, supVars, storeVars
<1>30. CASE Leave
  BY <1>30 DEF TypeOK, WaitStatuses, Leave, Dies, supVars, storeVars, CHILD_BOOTSTRAP_FAILURE
<1>31. CASE WorkloadExits
  BY <1>31, SeedRunAssumption DEF TypeOK, WaitStatuses, WorkloadExits, Dies, supVars, storeVars
<1>32. CASE KilledBySignal
  <2>1. [kind |-> "signaled", code |-> SIGKILL] \in WaitStatuses
    BY DEF WaitStatuses
  <2>2. Notice("torn") \in Notices
    BY DEF TypeOK, Notice, Notices, NoticeKinds
  <2> QED
    BY <1>32, <2>1, <2>2 DEF TypeOK, KilledBySignal, Dies, supVars, storeVars
<1>33. CASE SupervisorCrash
  BY <1>33 DEF TypeOK, SupervisorCrash, storeVars, taskVars, SupPoints
<1>34. CASE Finished \/ UNCHANGED vars
  BY <1>34 DEF TypeOK, Finished, vars, supVars, storeVars, taskVars, sockVars
<1> QED
  BY <1>1, <1>2, <1>3, <1>4, <1>5, <1>6, <1>7, <1>8, <1>9, <1>10, <1>11, <1>12,
     <1>13, <1>14, <1>15, <1>16, <1>17, <1>18, <1>19, <1>20, <1>21, <1>22, <1>23,
     <1>24, <1>25, <1>26, <1>27, <1>28, <1>29, <1>30, <1>31, <1>32, <1>33, <1>34
     DEF Next, SupervisorStep, BootstrapStep

\* The initial state is type correct.
LEMMA TypeInit == Init => TypeOK
<1> SUFFICES ASSUME Init PROVE TypeOK
  OBVIOUS
<1>1. sup \in SupPoints /\ child \in ChildPoints
  BY DEF Init, SupPoints, ChildPoints
<1>2. wait \in WaitStatuses /\ status \in RunStatuses
  BY DEF Init, WaitStatuses, RunStatuses
<1>3. result \in 0..255 /\ istep \in 1..6
  BY BootstrapFailureType DEF Init
<1>4. events \in Seq(EventNames) /\ chan \in Seq(Notices)
  BY DEF Init
<1> QED
  BY <1>1, <1>2, <1>3, <1>4 DEF Init, TypeOK

\* Type correctness of a run, for every Seed and every fault.
THEOREM TypeCorrect == Spec => []TypeOK
BY TypeInit, TypeInductive, PTL DEF Spec

-----------------------------------------------------------------------------
(* Isolation facts *)

\* The isolation facts each point of the two processes stands for are preserved
\* by every step of either of them.
LEMMA IsolationInductive == TypeOK /\ IsolationInv /\ [Next]_vars => IsolationInv'
<1> SUFFICES ASSUME TypeOK, IsolationInv PROVE [Next]_vars => IsolationInv'
  OBVIOUS
<1>1. CASE DropKill
  BY <1>1 DEF IsolationInv, ParentFacts, IsolationSteps, BeforeClone, Preparing,
     Reading, Recording, BeforeIsolation, AfterIdentity, AfterIsolation, DropKill,
     supVars, storeVars, sockVars
<1>2. CASE DropGuard
  BY <1>2 DEF IsolationInv, ParentFacts, IsolationSteps, BeforeClone, Preparing,
     Reading, Recording, BeforeIsolation, AfterIdentity, AfterIsolation, DropGuard,
     storeVars
<1>3. CASE StoreRefuses
  BY <1>3 DEF IsolationInv, ParentFacts, IsolationSteps, BeforeClone, Preparing,
     Reading, Recording, BeforeIsolation, AfterIdentity, AfterIsolation,
     StoreRefuses, ReturnErr, StorePoints, storeVars, taskVars
<1>4. CASE StoreSeedManifest
  BY <1>4 DEF IsolationInv, ParentFacts, IsolationSteps, BeforeClone, Preparing,
     Reading, Recording, BeforeIsolation, AfterIdentity, AfterIsolation,
     StoreSeedManifest, ReturnErr, storeVars, taskVars
<1>5. CASE CreateRun
  BY <1>5 DEF IsolationInv, ParentFacts, IsolationSteps, BeforeClone, Preparing,
     Reading, Recording, BeforeIsolation, AfterIdentity, AfterIsolation, CreateRun,
     taskVars, sockVars
<1>6. CASE AppendEvent
  BY <1>6 DEF IsolationInv, ParentFacts, IsolationSteps, BeforeClone, Preparing,
     Reading, Recording, BeforeIsolation, AfterIdentity, AfterIsolation,
     AppendEvent, AfterEvent, EventPoints, taskVars, sockVars
<1>7. CASE MarkRunning
  BY <1>7 DEF IsolationInv, ParentFacts, IsolationSteps, BeforeClone, Preparing,
     Reading, Recording, BeforeIsolation, AfterIdentity, AfterIsolation,
     MarkRunning, UpdateRunStatus, taskVars, sockVars
<1>8. CASE MarkExited
  BY <1>8 DEF IsolationInv, ParentFacts, IsolationSteps, BeforeClone, Preparing,
     Reading, Recording, BeforeIsolation, AfterIdentity, AfterIsolation, MarkExited,
     UpdateRunStatus, taskVars, sockVars
<1>9. CASE MarkFailed
  BY <1>9 DEF IsolationInv, ParentFacts, IsolationSteps, BeforeClone, Preparing,
     Reading, Recording, BeforeIsolation, AfterIdentity, AfterIsolation, MarkFailed,
     UpdateRunStatus, taskVars, sockVars
<1>10. CASE ApplyParent
  BY <1>10 DEF IsolationInv, ParentFacts, IsolationSteps, BeforeClone, Preparing,
     Reading, Recording, BeforeIsolation, AfterIdentity, AfterIsolation,
     ApplyParent, ReturnErr, storeVars, taskVars
<1>11. CASE ControlSocket
  BY <1>11 DEF IsolationInv, ParentFacts, IsolationSteps, BeforeClone, Preparing,
     Reading, Recording, BeforeIsolation, AfterIdentity, AfterIsolation,
     ControlSocket, ReturnErr, storeVars, taskVars
<1>12. CASE Clone
  BY <1>12 DEF IsolationInv, ParentFacts, IsolationSteps, BeforeClone, Preparing,
     Reading, Recording, BeforeIsolation, AfterIdentity, AfterIsolation, Clone,
     ReturnErr, storeVars
<1>13. CASE MapChildFromParent
  BY <1>13 DEF IsolationInv, ParentFacts, IsolationSteps, BeforeClone, Preparing,
     Reading, Recording, BeforeIsolation, AfterIdentity, AfterIsolation,
     MapChildFromParent, AbortBlockedChild, storeVars
<1>14. CASE MovePidToPath
  BY <1>14 DEF IsolationInv, ParentFacts, IsolationSteps, BeforeClone, Preparing,
     Reading, Recording, BeforeIsolation, AfterIdentity, AfterIsolation,
     MovePidToPath, AbortBlockedChild, storeVars
<1>15. CASE Release
  BY <1>15 DEF IsolationInv, ParentFacts, IsolationSteps, BeforeClone, Preparing,
     Reading, Recording, BeforeIsolation, AfterIdentity, AfterIsolation, Release,
     AbortBlockedChild, ReturnErr, storeVars, taskVars
<1>16. CASE ReadNotice
  BY <1>16 DEF IsolationInv, ParentFacts, IsolationSteps, BeforeClone, Preparing,
     Reading, Recording, BeforeIsolation, AfterIdentity, AfterIsolation, ReadNotice,
     ProtocolError, storeVars, taskVars
<1>17. CASE ReadEof
  BY <1>17 DEF IsolationInv, ParentFacts, IsolationSteps, BeforeClone, Preparing,
     Reading, Recording, BeforeIsolation, AfterIdentity, AfterIsolation, ReadEof,
     ChildEndOpen, storeVars, taskVars, sockVars
<1>18. CASE ReadError
  BY <1>18 DEF IsolationInv, ParentFacts, IsolationSteps, BeforeClone, Preparing,
     Reading, Recording, BeforeIsolation, AfterIdentity, AfterIsolation, ReadError,
     ProtocolError, storeVars, taskVars, sockVars
<1>19. CASE Terminate
  BY <1>19 DEF IsolationInv, ParentFacts, IsolationSteps, BeforeClone, Preparing,
     Reading, Recording, BeforeIsolation, AfterIdentity, AfterIsolation, Terminate,
     storeVars, sockVars
<1>20. CASE WaitTerminal
  BY <1>20 DEF IsolationInv, ParentFacts, IsolationSteps, BeforeClone, Preparing,
     Reading, Recording, BeforeIsolation, AfterIdentity, AfterIsolation,
     WaitTerminal, Verdict, ReturnErr, storeVars
<1>21. CASE AbortWait
  BY <1>21 DEF IsolationInv, ParentFacts, IsolationSteps, BeforeClone, Preparing,
     Reading, Recording, BeforeIsolation, AfterIdentity, AfterIsolation, AbortWait,
     storeVars, sockVars
<1>22. CASE ClosePeer
  BY <1>22 DEF IsolationInv, ParentFacts, IsolationSteps, BeforeClone, Preparing,
     Reading, Recording, BeforeIsolation, AfterIdentity, AfterIsolation, ClosePeer,
     supVars, storeVars
<1>23. CASE ReadGo
  BY <1>23 DEF IsolationInv, ParentFacts, IsolationSteps, BeforeClone, Preparing,
     Reading, Recording, BeforeIsolation, AfterIdentity, AfterIsolation, ReadGo,
     Dies, supVars, storeVars
<1>24. CASE EnterMappedIdentity
  BY <1>24 DEF IsolationInv, ParentFacts, IsolationSteps, BeforeClone, Preparing,
     Reading, Recording, BeforeIsolation, AfterIdentity, AfterIsolation,
     EnterMappedIdentity, Step, supVars, storeVars, sockVars
<1>25. CASE SendNamespaceReady
  BY <1>25 DEF IsolationInv, ParentFacts, IsolationSteps, BeforeClone, Preparing,
     Reading, Recording, BeforeIsolation, AfterIdentity, AfterIsolation,
     SendNamespaceReady, Send, supVars, storeVars
<1>26. CASE ApplyChild
  <2>1. /\ task = "alive" /\ child = "isolate" /\ istep \in 1..6
        /\ \A j \in 1..(istep - 1) :
             Requested(seed, ApplyChildSteps[j]) => ApplyChildSteps[j] \in applied
        /\ Len(ApplyChildSteps) = 6
    BY <1>26 DEF TypeOK, IsolationInv, IsolationSteps, ApplyChild, Step, ApplyChildSteps
  <2>2. /\ applied \subseteq applied'
        /\ UNCHANGED <<seed, sup, task, wns, go>>
        /\ child' \in {"isolate", "isolation_ready", "failed"}
    BY <1>26 DEF ApplyChild, Step, supVars, sockVars
  <2>3. ASSUME child' # "failed"
        PROVE  Requested(seed, ApplyChildSteps[istep]) => ApplyChildSteps[istep] \in applied'
    BY <1>26, <2>3 DEF ApplyChild, Step
  <2>4. ASSUME child' # "failed"
        PROVE  \A j \in 1..istep :
                 Requested(seed, ApplyChildSteps[j]) => ApplyChildSteps[j] \in applied'
    BY <2>1, <2>2, <2>3, <2>4
  <2>5. child' = "isolate" => istep' - 1 = istep
    BY <1>26, <2>1 DEF ApplyChild, Step
  <2>6. child' = "isolation_ready" => istep = 6
    BY <1>26, <2>1 DEF ApplyChild, Step
  <2>7. /\ child' = "isolate" => IsolationSteps(seed, istep - 1)'
        /\ child' \in AfterIsolation => IsolationSteps(seed, 6)'
    BY <2>2, <2>4, <2>5, <2>6 DEF IsolationSteps, AfterIsolation
  <2> QED
    BY <2>1, <2>2, <2>7 DEF IsolationInv, ParentFacts, BeforeIsolation, AfterIdentity
<1>27. CASE SendIsolationReady
  BY <1>27 DEF IsolationInv, ParentFacts, IsolationSteps, BeforeClone, Preparing,
     Reading, Recording, BeforeIsolation, AfterIdentity, AfterIsolation,
     SendIsolationReady, Send, supVars, storeVars
<1>28. CASE PrepareExec
  BY <1>28 DEF IsolationInv, ParentFacts, IsolationSteps, BeforeClone, Preparing,
     Reading, Recording, BeforeIsolation, AfterIdentity, AfterIsolation,
     PrepareExec, Step, supVars, storeVars, sockVars
<1>29. CASE StrictKill
  BY <1>29 DEF IsolationInv, ParentFacts, IsolationSteps, BeforeClone, Preparing,
     Reading, Recording, BeforeIsolation, AfterIdentity, AfterIsolation, StrictKill,
     Dies, supVars, storeVars
<1>30. CASE SendProcessStart
  BY <1>30 DEF IsolationInv, ParentFacts, IsolationSteps, BeforeClone, Preparing,
     Reading, Recording, BeforeIsolation, AfterIdentity, AfterIsolation,
     SendProcessStart, Send, supVars, storeVars
<1>31. CASE Execv
  BY <1>31 DEF IsolationInv, ParentFacts, IsolationSteps, BeforeClone, Preparing,
     Reading, Recording, BeforeIsolation, AfterIdentity, AfterIsolation, Execv,
     Step, supVars, storeVars, sockVars
<1>32. CASE ReportFailure
  BY <1>32 DEF IsolationInv, ParentFacts, IsolationSteps, BeforeClone, Preparing,
     Reading, Recording, BeforeIsolation, AfterIdentity, AfterIsolation,
     ReportFailure, supVars, storeVars
<1>33. CASE Leave
  BY <1>33 DEF IsolationInv, ParentFacts, IsolationSteps, BeforeClone, Preparing,
     Reading, Recording, BeforeIsolation, AfterIdentity, AfterIsolation, Leave,
     Dies, supVars, storeVars
<1>34. CASE WorkloadExits
  BY <1>34 DEF IsolationInv, ParentFacts, IsolationSteps, BeforeClone, Preparing,
     Reading, Recording, BeforeIsolation, AfterIdentity, AfterIsolation,
     WorkloadExits, Dies, supVars, storeVars
<1>35. CASE KilledBySignal
  BY <1>35 DEF IsolationInv, ParentFacts, IsolationSteps, BeforeClone, Preparing,
     Reading, Recording, BeforeIsolation, AfterIdentity, AfterIsolation,
     KilledBySignal, Dies, supVars, storeVars
<1>36. CASE SupervisorCrash
  BY <1>36 DEF IsolationInv, ParentFacts, IsolationSteps, BeforeClone, Preparing,
     Reading, Recording, BeforeIsolation, AfterIdentity, AfterIsolation,
     SupervisorCrash, storeVars, taskVars
<1>37. CASE Finished \/ UNCHANGED vars
  BY <1>37 DEF IsolationInv, ParentFacts, IsolationSteps, BeforeClone, Preparing,
     Reading, Recording, BeforeIsolation, AfterIdentity, AfterIsolation, Finished,
     vars, supVars, storeVars, taskVars, sockVars
<1> QED
  BY <1>1, <1>2, <1>3, <1>4, <1>5, <1>6, <1>7, <1>8, <1>9, <1>10, <1>11, <1>12,
     <1>13, <1>14, <1>15, <1>16, <1>17, <1>18, <1>19, <1>20, <1>21, <1>22, <1>23,
     <1>24, <1>25, <1>26, <1>27, <1>28, <1>29, <1>30, <1>31, <1>32, <1>33, <1>34,
     <1>35, <1>36, <1>37 DEF Next, SupervisorStep, BootstrapStep

-----------------------------------------------------------------------------
(* Notices and evidence *)

\* Appending an event adds it to the recorded ones.
LEMMA RangeAppend ==
    ASSUME NEW S, NEW s \in Seq(S), NEW x \in S
    PROVE  Range(Append(s, x)) = Range(s) \cup {x}
<1>1. Len(Append(s, x)) = Len(s) + 1 /\ DOMAIN s = 1..Len(s)
      /\ DOMAIN Append(s, x) = 1..(Len(s) + 1)
  OBVIOUS
<1>2. \A i \in 1..Len(s) : Append(s, x)[i] = s[i]
  OBVIOUS
<1>3. Append(s, x)[Len(s) + 1] = x
  OBVIOUS
<1> QED
  BY <1>1, <1>2, <1>3 DEF Range

\* The elements of a queue after a write at its end.
LEMMA AppendElements ==
    ASSUME NEW S, NEW s \in Seq(S), NEW x \in S
    PROVE  /\ Len(Append(s, x)) = Len(s) + 1
           /\ \A i \in 1..Len(Append(s, x)) :
                 \/ i \in 1..Len(s) /\ Append(s, x)[i] = s[i]
                 \/ i = Len(s) + 1 /\ Append(s, x)[i] = x
OBVIOUS

\* The elements of a queue after a read at its front.
LEMMA TailElements ==
    ASSUME NEW S, NEW s \in Seq(S), s # <<>>
    PROVE  /\ Head(s) = s[1] /\ 1 \in 1..Len(s)
           /\ Len(Tail(s)) = Len(s) - 1
           /\ \A i \in 1..Len(Tail(s)) : i + 1 \in 1..Len(s) /\ Tail(s)[i] = s[i + 1]
OBVIOUS

\* A notice written by the task is of the type the socket carries.
LEMMA NoticeType ==
    ASSUME TypeOK, NEW k \in NoticeKinds
    PROVE  Notice(k) \in Notices
BY DEF TypeOK, Notice, Notices

\* A true notice written to the socket keeps everything NoticeInv says.
LEMMA NoticeWritten ==
    ASSUME TypeOK, IsolationInv, NoticeInv, NEW k \in NoticeKinds,
           chan' = Append(chan, Notice(k)), task = "alive", task' # "none",
           UNCHANGED <<seed, sup, events, applied, wns>>,
           k = "namespace_ready" /\ seed.map_rootless => "identity" \in applied,
           k = "isolation_ready" => IsolationSteps(seed, 6)
    PROVE  NoticeInv'
<1>1. chan \in Seq(Notices) /\ Notice(k) \in Notices
  BY NoticeType DEF TypeOK
<1>2. \A i \in 1..Len(chan') : chan'[i] = Notice(k)
         \/ (i \in 1..Len(chan) /\ chan'[i] = chan[i])
  BY <1>1, AppendElements
<1>3. \A i \in 1..Len(chan) : NoticeIsTrue(chan[i])
  BY DEF NoticeInv
<1>4. Notice(k).kind = k /\ Notice(k).ns = wns
  BY DEF Notice
<1>5. \A i \in 1..Len(chan') : NoticeIsTrue(chan[i])'
  BY <1>2, <1>3, <1>4 DEF NoticeIsTrue, IsolationSteps
<1> QED
  BY <1>5 DEF NoticeInv, EvidenceIsTrue, Recorded, IsolationSteps

\* apply_child run to its end has mounted the root and has dropped the
\* capabilities and installed the filter that the Seed asks for.
LEMMA AllStepsMean ==
    ASSUME IsolationSteps(seed, 6)
    PROVE  /\ "mounts" \in applied /\ "no_new_privs" \in applied
           /\ seed.hostname => "hostname" \in applied
           /\ seed.drop_caps => "caps" \in applied
           /\ seed.seccomp_profile # "none" => "seccomp" \in applied
<1>1. /\ Requested(seed, ApplyChildSteps[2]) => ApplyChildSteps[2] \in applied
      /\ Requested(seed, ApplyChildSteps[3]) => ApplyChildSteps[3] \in applied
      /\ Requested(seed, ApplyChildSteps[4]) => ApplyChildSteps[4] \in applied
      /\ Requested(seed, ApplyChildSteps[5]) => ApplyChildSteps[5] \in applied
      /\ Requested(seed, ApplyChildSteps[6]) => ApplyChildSteps[6] \in applied
  BY DEF IsolationSteps
<1>2. /\ ApplyChildSteps[2] = "hostname" /\ ApplyChildSteps[3] = "mounts"
      /\ ApplyChildSteps[4] = "no_new_privs" /\ ApplyChildSteps[5] = "caps"
      /\ ApplyChildSteps[6] = "seccomp"
  BY DEF ApplyChildSteps
<1>3. /\ Requested(seed, "mounts") /\ Requested(seed, "no_new_privs")
      /\ Requested(seed, "hostname") = seed.hostname
      /\ Requested(seed, "caps") = seed.drop_caps
      /\ Requested(seed, "seccomp") = (seed.seccomp_profile # "none")
  BY DEF Requested
<1> QED
  BY <1>1, <1>2, <1>3

\* What the notices, the point of run() and the recorded events say about the
\* task stays true in every step.
LEMMA NoticeInductive == TypeOK /\ IsolationInv /\ NoticeInv /\ [Next]_vars => NoticeInv'
<1> SUFFICES ASSUME TypeOK, IsolationInv, NoticeInv
             PROVE  [Next]_vars => NoticeInv'
  OBVIOUS
<1>1. CASE DropKill
  BY <1>1 DEF NoticeInv, NoticeIsTrue, EvidenceIsTrue, Recorded, IsolationSteps,
     DropKill, supVars, storeVars, sockVars
<1>2. CASE DropGuard
  BY <1>2 DEF NoticeInv, NoticeIsTrue, EvidenceIsTrue, Recorded, IsolationSteps,
     DropGuard, storeVars
<1>3. CASE StoreRefuses
  BY <1>3 DEF NoticeInv, NoticeIsTrue, EvidenceIsTrue, Recorded, IsolationSteps,
     StoreRefuses, ReturnErr, StorePoints, storeVars, taskVars
<1>4. CASE StoreSeedManifest
  BY <1>4 DEF NoticeInv, NoticeIsTrue, EvidenceIsTrue, Recorded, IsolationSteps,
     StoreSeedManifest, ReturnErr, storeVars, taskVars
<1>5. CASE CreateRun
  BY <1>5 DEF NoticeInv, NoticeIsTrue, EvidenceIsTrue, Recorded, IsolationSteps,
     CreateRun, taskVars, sockVars
<1>6. CASE AppendEvent
  <2>1. /\ sup \in EventPoints /\ sup' = AfterEvent(sup)
        /\ events' = Append(events, EventAt[sup])
        /\ UNCHANGED <<seed, task, applied, wns, chan>>
    BY <1>6 DEF AppendEvent, taskVars, sockVars
  <2>2. Range(events') = Range(events) \cup {EventAt[sup]}
    BY <2>1, EventAtType, RangeAppend DEF TypeOK
  <2>3. EvidenceIsTrue'
    <3>1. /\ EventAt[sup] = "NS_CREATED" => sup = "ns_created"
          /\ EventAt[sup] = "IDMAP_APPLIED" => sup = "idmap_applied"
          /\ EventAt[sup] = "CGROUP_APPLIED" => sup = "cgroup_applied"
          /\ EventAt[sup] = "MOUNT_DONE" => sup = "mount_done"
          /\ EventAt[sup] = "CAPS_DROPPED" => sup = "caps_dropped"
          /\ EventAt[sup] = "SECCOMP_ENABLED" => sup = "seccomp_enabled"
      BY <2>1 DEF EventAt, EventPoints
    <3>2. sup \in {"mount_done", "caps_dropped", "seccomp_enabled"} =>
             /\ "mounts" \in applied
             /\ seed.drop_caps => "caps" \in applied
             /\ seed.seccomp_profile # "none" => "seccomp" \in applied
      BY AllStepsMean DEF NoticeInv
    <3> QED
      BY <2>1, <2>2, <3>1, <3>2 DEF NoticeInv, IsolationInv, EvidenceIsTrue, Recorded
  <2>4. /\ sup' \in {"ns_created", "mount_done"} => FALSE
        /\ sup' = "idmap_applied" => sup = "ns_created" /\ seed.map_rootless
        /\ sup' \in {"caps_dropped", "seccomp_enabled"} => sup \in {"mount_done", "caps_dropped"}
        /\ sup' = "caps_dropped" => seed.drop_caps
        /\ sup' = "seccomp_enabled" => seed.seccomp_profile # "none"
    BY <2>1 DEF AfterEvent, EventPoints
  <2> QED
    BY <2>1, <2>3, <2>4 DEF NoticeInv, NoticeIsTrue, IsolationSteps
<1>7. CASE MarkRunning
  BY <1>7 DEF NoticeInv, NoticeIsTrue, EvidenceIsTrue, Recorded, IsolationSteps,
     MarkRunning, UpdateRunStatus, taskVars, sockVars
<1>8. CASE MarkExited
  BY <1>8 DEF NoticeInv, NoticeIsTrue, EvidenceIsTrue, Recorded, IsolationSteps,
     MarkExited, UpdateRunStatus, taskVars, sockVars
<1>9. CASE MarkFailed
  BY <1>9 DEF NoticeInv, NoticeIsTrue, EvidenceIsTrue, Recorded, IsolationSteps,
     MarkFailed, UpdateRunStatus, taskVars, sockVars
<1>10. CASE ApplyParent
  BY <1>10 DEF NoticeInv, NoticeIsTrue, EvidenceIsTrue, Recorded, IsolationSteps,
     ApplyParent, ReturnErr, storeVars, taskVars
<1>11. CASE ControlSocket
  BY <1>11 DEF NoticeInv, NoticeIsTrue, EvidenceIsTrue, Recorded, IsolationSteps,
     ControlSocket, ReturnErr, storeVars, taskVars
<1>12. CASE Clone
  <2>1. task = "none" /\ workload_clone_flags(seed) = RequiredNamespaces(seed)
    BY <1>12 DEF IsolationInv, BeforeClone, Clone, workload_clone_flags, RequiredNamespaces
  <2>2. chan = <<>>
    BY <2>1 DEF NoticeInv, NoticeIsTrue, TypeOK
  <2> QED
    BY <1>12, <2>1, <2>2 DEF NoticeInv, EvidenceIsTrue, Recorded, IsolationSteps, Clone,
       ReturnErr, storeVars
<1>13. CASE MapChildFromParent
  BY <1>13 DEF NoticeInv, NoticeIsTrue, EvidenceIsTrue, Recorded, IsolationSteps,
     MapChildFromParent, AbortBlockedChild, storeVars
<1>14. CASE MovePidToPath
  BY <1>14 DEF NoticeInv, NoticeIsTrue, EvidenceIsTrue, Recorded, IsolationSteps,
     MovePidToPath, AbortBlockedChild, storeVars
<1>15. CASE Release
  BY <1>15 DEF NoticeInv, NoticeIsTrue, EvidenceIsTrue, Recorded, IsolationSteps,
     Release, AbortBlockedChild, ReturnErr, storeVars, taskVars
<1>16. CASE ReadNotice
  <2>1. NoticeIsTrue(Head(chan)) /\ \A i \in 1..Len(chan') : NoticeIsTrue(chan'[i])
    BY <1>16, TailElements DEF ReadNotice, TypeOK, NoticeInv
  <2>2. /\ UNCHANGED <<seed, events, task, applied, wns>>
        /\ sup' \in {"ns_created", "mount_done", "process_start", "wait", "terminate"}
        /\ sup' = "ns_created" => Head(chan).kind = "namespace_ready"
        /\ sup' = "mount_done" => Head(chan).kind = "isolation_ready"
    BY <1>16 DEF ReadNotice, ProtocolError, storeVars, taskVars
  <2>3. task # "none" => wns = RequiredNamespaces(seed)
    BY DEF IsolationInv, workload_clone_flags, RequiredNamespaces
  <2>4. \A i \in 1..Len(chan') : NoticeIsTrue(chan[i])'
    BY <2>1, <2>2 DEF NoticeIsTrue, IsolationSteps
  <2> QED
    BY <2>1, <2>2, <2>3, <2>4 DEF NoticeInv, NoticeIsTrue, EvidenceIsTrue, Recorded,
       IsolationSteps
<1>17. CASE ReadEof
  BY <1>17 DEF NoticeInv, NoticeIsTrue, EvidenceIsTrue, Recorded, IsolationSteps,
     ReadEof, ChildEndOpen, storeVars, taskVars, sockVars
<1>18. CASE ReadError
  BY <1>18 DEF NoticeInv, NoticeIsTrue, EvidenceIsTrue, Recorded, IsolationSteps,
     ReadError, ProtocolError, storeVars, taskVars, sockVars
<1>19. CASE Terminate
  BY <1>19 DEF NoticeInv, NoticeIsTrue, EvidenceIsTrue, Recorded, IsolationSteps,
     Terminate, storeVars, sockVars
<1>20. CASE WaitTerminal
  BY <1>20 DEF NoticeInv, NoticeIsTrue, EvidenceIsTrue, Recorded, IsolationSteps,
     WaitTerminal, Verdict, ReturnErr, storeVars
<1>21. CASE AbortWait
  BY <1>21 DEF NoticeInv, NoticeIsTrue, EvidenceIsTrue, Recorded, IsolationSteps,
     AbortWait, storeVars, sockVars
<1>22. CASE ClosePeer
  BY <1>22 DEF NoticeInv, NoticeIsTrue, EvidenceIsTrue, Recorded, IsolationSteps,
     ClosePeer, supVars, storeVars
<1>23. CASE ReadGo
  BY <1>23 DEF NoticeInv, NoticeIsTrue, EvidenceIsTrue, Recorded, IsolationSteps,
     ReadGo, Dies, supVars, storeVars
<1>24. CASE EnterMappedIdentity
  BY <1>24 DEF NoticeInv, NoticeIsTrue, EvidenceIsTrue, Recorded, IsolationSteps,
     EnterMappedIdentity, Step, supVars, storeVars, sockVars
<1>25. CASE SendNamespaceReady
  <2>1. ASSUME chan' = chan
        PROVE  NoticeInv'
    BY <1>25, <2>1 DEF NoticeInv, NoticeIsTrue, EvidenceIsTrue, Recorded, IsolationSteps,
       SendNamespaceReady, Send, supVars, storeVars
  <2>2. ASSUME chan' # chan
        PROVE  NoticeInv'
    <3>1. /\ chan' = Append(chan, Notice("namespace_ready"))
          /\ task = "alive" /\ child = "namespace_ready" /\ task' # "none"
          /\ UNCHANGED <<seed, sup, events, applied, wns>>
      BY <1>25, <2>2 DEF SendNamespaceReady, Send, supVars, storeVars
    <3> QED
      BY <3>1, NoticeWritten DEF NoticeKinds, IsolationInv, AfterIdentity, AfterIsolation
  <2> QED
    BY <2>1, <2>2
<1>26. CASE ApplyChild
  BY <1>26 DEF NoticeInv, NoticeIsTrue, EvidenceIsTrue, Recorded, IsolationSteps,
     ApplyChild, Step, supVars, storeVars, sockVars
<1>27. CASE SendIsolationReady
  <2>1. ASSUME chan' = chan
        PROVE  NoticeInv'
    BY <1>27, <2>1 DEF NoticeInv, NoticeIsTrue, EvidenceIsTrue, Recorded, IsolationSteps,
       SendIsolationReady, Send, supVars, storeVars
  <2>2. ASSUME chan' # chan
        PROVE  NoticeInv'
    <3>1. /\ chan' = Append(chan, Notice("isolation_ready"))
          /\ task = "alive" /\ child = "isolation_ready" /\ task' # "none"
          /\ UNCHANGED <<seed, sup, events, applied, wns>>
      BY <1>27, <2>2 DEF SendIsolationReady, Send, supVars, storeVars
    <3> QED
      BY <3>1, NoticeWritten DEF NoticeKinds, IsolationInv, AfterIdentity, AfterIsolation
  <2> QED
    BY <2>1, <2>2
<1>28. CASE PrepareExec
  BY <1>28 DEF NoticeInv, NoticeIsTrue, EvidenceIsTrue, Recorded, IsolationSteps,
     PrepareExec, Step, supVars, storeVars, sockVars
<1>29. CASE StrictKill
  BY <1>29 DEF NoticeInv, NoticeIsTrue, EvidenceIsTrue, Recorded, IsolationSteps,
     StrictKill, Dies, supVars, storeVars
<1>30. CASE SendProcessStart
  <2>1. ASSUME chan' = chan
        PROVE  NoticeInv'
    BY <1>30, <2>1 DEF NoticeInv, NoticeIsTrue, EvidenceIsTrue, Recorded, IsolationSteps,
       SendProcessStart, Send, supVars, storeVars
  <2>2. ASSUME chan' # chan
        PROVE  NoticeInv'
    <3>1. /\ chan' = Append(chan, Notice("process_start"))
          /\ task = "alive" /\ child = "process_start" /\ task' # "none"
          /\ UNCHANGED <<seed, sup, events, applied, wns>>
      BY <1>30, <2>2 DEF SendProcessStart, Send, supVars, storeVars
    <3> QED
      BY <3>1, NoticeWritten DEF NoticeKinds, IsolationInv, AfterIdentity, AfterIsolation
  <2> QED
    BY <2>1, <2>2
<1>31. CASE Execv
  BY <1>31 DEF NoticeInv, NoticeIsTrue, EvidenceIsTrue, Recorded, IsolationSteps,
     Execv, Step, supVars, storeVars, sockVars
<1>32. CASE ReportFailure
  <2>1. ASSUME chan' = chan
        PROVE  NoticeInv'
    BY <1>32, <2>1 DEF NoticeInv, NoticeIsTrue, EvidenceIsTrue, Recorded, IsolationSteps,
       ReportFailure, supVars, storeVars
  <2>2. ASSUME chan' # chan
        PROVE  NoticeInv'
    <3>1. /\ chan' = Append(chan, Notice("failed"))
          /\ task = "alive" /\ task' # "none"
          /\ UNCHANGED <<seed, sup, events, applied, wns>>
      BY <1>32, <2>2 DEF ReportFailure, supVars, storeVars
    <3> QED
      BY <3>1, NoticeWritten DEF NoticeKinds
  <2> QED
    BY <2>1, <2>2
<1>33. CASE Leave
  BY <1>33 DEF NoticeInv, NoticeIsTrue, EvidenceIsTrue, Recorded, IsolationSteps,
     Leave, Dies, supVars, storeVars
<1>34. CASE WorkloadExits
  BY <1>34 DEF NoticeInv, NoticeIsTrue, EvidenceIsTrue, Recorded, IsolationSteps,
     WorkloadExits, Dies, supVars, storeVars
<1>35. CASE KilledBySignal
  <2>1. ASSUME chan' = chan
        PROVE  NoticeInv'
    BY <1>35, <2>1 DEF NoticeInv, NoticeIsTrue, EvidenceIsTrue, Recorded, IsolationSteps,
       KilledBySignal, Dies, supVars, storeVars
  <2>2. ASSUME chan' # chan
        PROVE  NoticeInv'
    <3>1. /\ chan' = Append(chan, Notice("torn"))
          /\ task = "alive" /\ task' # "none"
          /\ UNCHANGED <<seed, sup, events, applied, wns>>
      BY <1>35, <2>2 DEF KilledBySignal, Dies, supVars, storeVars
    <3> QED
      BY <3>1, NoticeWritten DEF NoticeKinds
  <2> QED
    BY <2>1, <2>2
<1>36. CASE SupervisorCrash
  BY <1>36 DEF NoticeInv, NoticeIsTrue, EvidenceIsTrue, Recorded, IsolationSteps,
     SupervisorCrash, storeVars, taskVars
<1>37. CASE Finished \/ UNCHANGED vars
  BY <1>37 DEF NoticeInv, NoticeIsTrue, EvidenceIsTrue, Recorded, IsolationSteps,
     Finished, vars, supVars, storeVars, taskVars, sockVars
<1> QED
  BY <1>1, <1>2, <1>3, <1>4, <1>5, <1>6, <1>7, <1>8, <1>9, <1>10, <1>11, <1>12,
     <1>13, <1>14, <1>15, <1>16, <1>17, <1>18, <1>19, <1>20, <1>21, <1>22, <1>23,
     <1>24, <1>25, <1>26, <1>27, <1>28, <1>29, <1>30, <1>31, <1>32, <1>33, <1>34,
     <1>35, <1>36, <1>37 DEF Next, SupervisorStep, BootstrapStep

-----------------------------------------------------------------------------
(* Reaping *)

\* Endpoints, reaping and what run() leaves behind: every step keeps them.
LEMMA ReapInductive == TypeOK /\ IsolationInv /\ ReapInv /\ [Next]_vars => ReapInv'
<1> SUFFICES ASSUME TypeOK, IsolationInv, ReapInv
             PROVE  [Next]_vars => ReapInv'
  OBVIOUS
<1>1. CASE DropKill
  BY <1>1 DEF TypeOK, ReapInv, IsolationInv, TerminalMeansReaped, NothingLeftBehind,
     BeforeClone, Preparing, Reading, Recording, DropKill, supVars, storeVars,
     sockVars
<1>2. CASE DropGuard
  BY <1>2 DEF TypeOK, ReapInv, IsolationInv, TerminalMeansReaped, NothingLeftBehind,
     BeforeClone, Preparing, Reading, Recording, DropGuard, storeVars
<1>3. CASE StoreRefuses
  BY <1>3 DEF TypeOK, ReapInv, IsolationInv, TerminalMeansReaped, NothingLeftBehind,
     BeforeClone, Preparing, Reading, Recording, StoreRefuses, ReturnErr,
     StorePoints, storeVars, taskVars
<1>4. CASE StoreSeedManifest
  BY <1>4 DEF TypeOK, ReapInv, IsolationInv, TerminalMeansReaped, NothingLeftBehind,
     BeforeClone, Preparing, Reading, Recording, StoreSeedManifest, ReturnErr,
     storeVars, taskVars
<1>5. CASE CreateRun
  BY <1>5 DEF TypeOK, ReapInv, IsolationInv, TerminalMeansReaped, NothingLeftBehind,
     BeforeClone, Preparing, Reading, Recording, CreateRun, taskVars, sockVars
<1>6. CASE AppendEvent
  BY <1>6 DEF TypeOK, ReapInv, IsolationInv, TerminalMeansReaped, NothingLeftBehind,
     BeforeClone, Preparing, Reading, Recording, AppendEvent, AfterEvent,
     EventPoints, taskVars, sockVars
<1>7. CASE MarkRunning
  BY <1>7 DEF TypeOK, ReapInv, IsolationInv, TerminalMeansReaped, NothingLeftBehind,
     BeforeClone, Preparing, Reading, Recording, MarkRunning, UpdateRunStatus,
     taskVars, sockVars
<1>8. CASE MarkExited
  BY <1>8 DEF TypeOK, ReapInv, IsolationInv, TerminalMeansReaped, NothingLeftBehind,
     BeforeClone, Preparing, Reading, Recording, MarkExited, UpdateRunStatus,
     taskVars, sockVars
<1>9. CASE MarkFailed
  BY <1>9 DEF TypeOK, ReapInv, IsolationInv, TerminalMeansReaped, NothingLeftBehind,
     BeforeClone, Preparing, Reading, Recording, MarkFailed, UpdateRunStatus,
     taskVars, sockVars
<1>10. CASE ApplyParent
  BY <1>10 DEF TypeOK, ReapInv, IsolationInv, TerminalMeansReaped,
     NothingLeftBehind, BeforeClone, Preparing, Reading, Recording, ApplyParent,
     ReturnErr, storeVars, taskVars
<1>11. CASE ControlSocket
  BY <1>11 DEF TypeOK, ReapInv, IsolationInv, TerminalMeansReaped,
     NothingLeftBehind, BeforeClone, Preparing, Reading, Recording, ControlSocket,
     ReturnErr, storeVars, taskVars
<1>12. CASE Clone
  BY <1>12 DEF TypeOK, ReapInv, IsolationInv, TerminalMeansReaped,
     NothingLeftBehind, BeforeClone, Preparing, Reading, Recording, Clone,
     ReturnErr, storeVars
<1>13. CASE MapChildFromParent
  BY <1>13 DEF TypeOK, ReapInv, IsolationInv, TerminalMeansReaped,
     NothingLeftBehind, BeforeClone, Preparing, Reading, Recording,
     MapChildFromParent, AbortBlockedChild, storeVars
<1>14. CASE MovePidToPath
  BY <1>14 DEF TypeOK, ReapInv, IsolationInv, TerminalMeansReaped,
     NothingLeftBehind, BeforeClone, Preparing, Reading, Recording, MovePidToPath,
     AbortBlockedChild, storeVars
<1>15. CASE Release
  BY <1>15 DEF TypeOK, ReapInv, IsolationInv, TerminalMeansReaped,
     NothingLeftBehind, BeforeClone, Preparing, Reading, Recording, Release,
     AbortBlockedChild, ReturnErr, storeVars, taskVars
<1>16. CASE ReadNotice
  BY <1>16 DEF TypeOK, ReapInv, IsolationInv, TerminalMeansReaped,
     NothingLeftBehind, BeforeClone, Preparing, Reading, Recording, ReadNotice,
     ProtocolError, storeVars, taskVars
<1>17. CASE ReadEof
  BY <1>17 DEF TypeOK, ReapInv, IsolationInv, TerminalMeansReaped,
     NothingLeftBehind, BeforeClone, Preparing, Reading, Recording, ReadEof,
     ChildEndOpen, storeVars, taskVars, sockVars
<1>18. CASE ReadError
  BY <1>18 DEF TypeOK, ReapInv, IsolationInv, TerminalMeansReaped,
     NothingLeftBehind, BeforeClone, Preparing, Reading, Recording, ReadError,
     ProtocolError, storeVars, taskVars, sockVars
<1>19. CASE Terminate
  BY <1>19 DEF TypeOK, ReapInv, IsolationInv, TerminalMeansReaped,
     NothingLeftBehind, BeforeClone, Preparing, Reading, Recording, Terminate,
     storeVars, sockVars
<1>20. CASE WaitTerminal
  BY <1>20 DEF TypeOK, ReapInv, IsolationInv, TerminalMeansReaped,
     NothingLeftBehind, BeforeClone, Preparing, Reading, Recording, WaitTerminal,
     Verdict, ReturnErr, storeVars
<1>21. CASE AbortWait
  BY <1>21 DEF TypeOK, ReapInv, IsolationInv, TerminalMeansReaped,
     NothingLeftBehind, BeforeClone, Preparing, Reading, Recording, AbortWait,
     storeVars, sockVars
<1>22. CASE ClosePeer
  BY <1>22 DEF TypeOK, ReapInv, IsolationInv, TerminalMeansReaped,
     NothingLeftBehind, BeforeClone, Preparing, Reading, Recording, ClosePeer,
     supVars, storeVars
<1>23. CASE ReadGo
  BY <1>23 DEF TypeOK, ReapInv, IsolationInv, TerminalMeansReaped,
     NothingLeftBehind, BeforeClone, Preparing, Reading, Recording, ReadGo, Dies,
     supVars, storeVars
<1>24. CASE EnterMappedIdentity
  BY <1>24 DEF TypeOK, ReapInv, IsolationInv, TerminalMeansReaped,
     NothingLeftBehind, BeforeClone, Preparing, Reading, Recording,
     EnterMappedIdentity, Step, supVars, storeVars, sockVars
<1>25. CASE SendNamespaceReady
  BY <1>25 DEF TypeOK, ReapInv, IsolationInv, TerminalMeansReaped,
     NothingLeftBehind, BeforeClone, Preparing, Reading, Recording,
     SendNamespaceReady, Send, supVars, storeVars
<1>26. CASE ApplyChild
  BY <1>26 DEF TypeOK, ReapInv, IsolationInv, TerminalMeansReaped,
     NothingLeftBehind, BeforeClone, Preparing, Reading, Recording, ApplyChild,
     Step, supVars, storeVars, sockVars
<1>27. CASE SendIsolationReady
  BY <1>27 DEF TypeOK, ReapInv, IsolationInv, TerminalMeansReaped,
     NothingLeftBehind, BeforeClone, Preparing, Reading, Recording,
     SendIsolationReady, Send, supVars, storeVars
<1>28. CASE PrepareExec
  BY <1>28 DEF TypeOK, ReapInv, IsolationInv, TerminalMeansReaped,
     NothingLeftBehind, BeforeClone, Preparing, Reading, Recording, PrepareExec,
     Step, supVars, storeVars, sockVars
<1>29. CASE StrictKill
  BY <1>29 DEF TypeOK, ReapInv, IsolationInv, TerminalMeansReaped,
     NothingLeftBehind, BeforeClone, Preparing, Reading, Recording, StrictKill,
     Dies, supVars, storeVars
<1>30. CASE SendProcessStart
  BY <1>30 DEF TypeOK, ReapInv, IsolationInv, TerminalMeansReaped,
     NothingLeftBehind, BeforeClone, Preparing, Reading, Recording,
     SendProcessStart, Send, supVars, storeVars
<1>31. CASE Execv
  BY <1>31 DEF TypeOK, ReapInv, IsolationInv, TerminalMeansReaped,
     NothingLeftBehind, BeforeClone, Preparing, Reading, Recording, Execv, Step,
     supVars, storeVars, sockVars
<1>32. CASE ReportFailure
  BY <1>32 DEF TypeOK, ReapInv, IsolationInv, TerminalMeansReaped,
     NothingLeftBehind, BeforeClone, Preparing, Reading, Recording, ReportFailure,
     supVars, storeVars
<1>33. CASE Leave
  BY <1>33 DEF TypeOK, ReapInv, IsolationInv, TerminalMeansReaped,
     NothingLeftBehind, BeforeClone, Preparing, Reading, Recording, Leave, Dies,
     supVars, storeVars
<1>34. CASE WorkloadExits
  BY <1>34 DEF TypeOK, ReapInv, IsolationInv, TerminalMeansReaped,
     NothingLeftBehind, BeforeClone, Preparing, Reading, Recording, WorkloadExits,
     Dies, supVars, storeVars
<1>35. CASE KilledBySignal
  BY <1>35 DEF TypeOK, ReapInv, IsolationInv, TerminalMeansReaped,
     NothingLeftBehind, BeforeClone, Preparing, Reading, Recording, KilledBySignal,
     Dies, supVars, storeVars
<1>36. CASE SupervisorCrash
  BY <1>36 DEF TypeOK, ReapInv, IsolationInv, TerminalMeansReaped,
     NothingLeftBehind, BeforeClone, Preparing, Reading, Recording, SupervisorCrash,
     storeVars, taskVars
<1>37. CASE Finished \/ UNCHANGED vars
  BY <1>37 DEF TypeOK, ReapInv, IsolationInv, TerminalMeansReaped,
     NothingLeftBehind, BeforeClone, Preparing, Reading, Recording, Finished, vars,
     supVars, storeVars, taskVars, sockVars
<1> QED
  BY <1>1, <1>2, <1>3, <1>4, <1>5, <1>6, <1>7, <1>8, <1>9, <1>10, <1>11, <1>12,
     <1>13, <1>14, <1>15, <1>16, <1>17, <1>18, <1>19, <1>20, <1>21, <1>22, <1>23,
     <1>24, <1>25, <1>26, <1>27, <1>28, <1>29, <1>30, <1>31, <1>32, <1>33, <1>34,
     <1>35, <1>36, <1>37 DEF Next, SupervisorStep, BootstrapStep

-----------------------------------------------------------------------------
(* Verdicts *)

\* What a write to the socket changes: one notice more, at the end.
LEMMA NoticeAtEnd ==
    ASSUME TypeOK, NEW k \in NoticeKinds, chan' = Append(chan, Notice(k))
    PROVE  /\ \A i \in 1..Len(chan') :
                 (i \in 1..Len(chan) /\ chan'[i] = chan[i]) \/ chan'[i].kind = k
           /\ \A i \in 1..Len(chan) : i \in 1..Len(chan') /\ chan'[i] = chan[i]
           /\ \E i \in 1..Len(chan') : chan'[i].kind = k
<1>1. chan \in Seq(Notices) /\ Notice(k) \in Notices /\ Notice(k).kind = k
  BY NoticeType DEF TypeOK, Notice
<1>2. /\ \A i \in 1..Len(chan) : i \in 1..Len(chan') /\ chan'[i] = chan[i]
      /\ Len(chan) + 1 \in 1..Len(chan') /\ chan'[Len(chan) + 1] = Notice(k)
  BY <1>1
<1> QED
  BY <1>1, <1>2, AppendElements

\* Every step keeps the reasons why a recorded exit can be believed.
LEMMA VerdictInductive == TypeOK /\ IsolationInv /\ ReapInv /\ VerdictInv /\ [Next]_vars => VerdictInv'
<1> SUFFICES ASSUME TypeOK, IsolationInv, ReapInv, VerdictInv
             PROVE  [Next]_vars => VerdictInv'
  OBVIOUS
<1>1. CASE DropKill
  BY <1>1 DEF VerdictInv, ReapInv, IsolationInv, ExitRecordIsTrue,
     ReturnedCodeIsRecorded, Recorded, Execed, Started, BeforeClone, Preparing,
     Reading, Recording, DropKill, supVars, storeVars, sockVars
<1>2. CASE DropGuard
  BY <1>2 DEF VerdictInv, ReapInv, IsolationInv, ExitRecordIsTrue,
     ReturnedCodeIsRecorded, Recorded, Execed, Started, BeforeClone, Preparing,
     Reading, Recording, DropGuard, storeVars
<1>3. CASE StoreRefuses
  BY <1>3 DEF VerdictInv, ReapInv, IsolationInv, ExitRecordIsTrue,
     ReturnedCodeIsRecorded, Recorded, Execed, Started, BeforeClone, Preparing,
     Reading, Recording, StoreRefuses, ReturnErr, StorePoints, storeVars, taskVars
<1>4. CASE StoreSeedManifest
  BY <1>4 DEF VerdictInv, ReapInv, IsolationInv, ExitRecordIsTrue,
     ReturnedCodeIsRecorded, Recorded, Execed, Started, BeforeClone, Preparing,
     Reading, Recording, StoreSeedManifest, ReturnErr, storeVars, taskVars
<1>5. CASE CreateRun
  BY <1>5 DEF VerdictInv, ReapInv, IsolationInv, ExitRecordIsTrue,
     ReturnedCodeIsRecorded, Recorded, Execed, Started, BeforeClone, Preparing,
     Reading, Recording, CreateRun, taskVars, sockVars
<1>6. CASE AppendEvent
  <2>1. /\ sup \in EventPoints /\ sup' = AfterEvent(sup)
        /\ events' = Append(events, EventAt[sup])
        /\ UNCHANGED <<failure, ok, result, status, task, child, wait, chan>>
    BY <1>6 DEF AppendEvent, taskVars, sockVars
  <2>2. Range(events') = Range(events) \cup {EventAt[sup]}
    BY <2>1, EventAtType, RangeAppend DEF TypeOK
  <2>3. /\ EventAt[sup] = "PROCESS_START" => sup = "process_start"
        /\ EventAt[sup] = "PROCESS_EXIT" => sup = "process_exit"
    BY <2>1 DEF EventAt, EventPoints
  <2>4. /\ sup' \notin {"process_start", "terminate", "wait", "process_exit", "drop", "done"}
        /\ sup' \in Reading => sup \in Reading
        /\ sup' \in BeforeClone \cup Preparing => sup \in BeforeClone \cup Preparing
        /\ sup' = "status_exited" => sup = "process_exit"
    BY <2>1 DEF AfterEvent, EventPoints, Reading, BeforeClone, Preparing
  <2>5. ExitRecordIsTrue'
    BY <2>1, <2>2, <2>3 DEF VerdictInv, ExitRecordIsTrue, Recorded, Execed
  <2>6. (sup = "process_start" \/ Recorded("PROCESS_START") => child \in Started)'
    BY <2>1, <2>2, <2>3, <2>4 DEF VerdictInv, Recorded, Started
  <2> QED
    BY <2>1, <2>4, <2>5, <2>6 DEF VerdictInv, Execed, Started
<1>7. CASE MarkRunning
  BY <1>7 DEF VerdictInv, ReapInv, IsolationInv, ExitRecordIsTrue,
     ReturnedCodeIsRecorded, Recorded, Execed, Started, BeforeClone, Preparing,
     Reading, Recording, MarkRunning, UpdateRunStatus, taskVars, sockVars
<1>8. CASE MarkExited
  BY <1>8 DEF VerdictInv, ReapInv, IsolationInv, ExitRecordIsTrue,
     ReturnedCodeIsRecorded, Recorded, Execed, Started, BeforeClone, Preparing,
     Reading, Recording, MarkExited, UpdateRunStatus, taskVars, sockVars
<1>9. CASE MarkFailed
  BY <1>9 DEF VerdictInv, ReapInv, IsolationInv, ExitRecordIsTrue,
     ReturnedCodeIsRecorded, Recorded, Execed, Started, BeforeClone, Preparing,
     Reading, Recording, MarkFailed, UpdateRunStatus, taskVars, sockVars
<1>10. CASE ApplyParent
  BY <1>10 DEF VerdictInv, ReapInv, IsolationInv, ExitRecordIsTrue,
     ReturnedCodeIsRecorded, Recorded, Execed, Started, BeforeClone, Preparing,
     Reading, Recording, ApplyParent, ReturnErr, storeVars, taskVars
<1>11. CASE ControlSocket
  BY <1>11 DEF VerdictInv, ReapInv, IsolationInv, ExitRecordIsTrue,
     ReturnedCodeIsRecorded, Recorded, Execed, Started, BeforeClone, Preparing,
     Reading, Recording, ControlSocket, ReturnErr, storeVars, taskVars
<1>12. CASE Clone
  BY <1>12 DEF VerdictInv, ReapInv, IsolationInv, ExitRecordIsTrue,
     ReturnedCodeIsRecorded, Recorded, Execed, Started, BeforeClone, Preparing,
     Reading, Recording, Clone, ReturnErr, storeVars
<1>13. CASE MapChildFromParent
  BY <1>13 DEF VerdictInv, ReapInv, IsolationInv, ExitRecordIsTrue,
     ReturnedCodeIsRecorded, Recorded, Execed, Started, BeforeClone, Preparing,
     Reading, Recording, MapChildFromParent, AbortBlockedChild, storeVars
<1>14. CASE MovePidToPath
  BY <1>14 DEF VerdictInv, ReapInv, IsolationInv, ExitRecordIsTrue,
     ReturnedCodeIsRecorded, Recorded, Execed, Started, BeforeClone, Preparing,
     Reading, Recording, MovePidToPath, AbortBlockedChild, storeVars
<1>15. CASE Release
  BY <1>15 DEF VerdictInv, ReapInv, IsolationInv, ExitRecordIsTrue,
     ReturnedCodeIsRecorded, Recorded, Execed, Started, BeforeClone, Preparing,
     Reading, Recording, Release, AbortBlockedChild, ReturnErr, storeVars, taskVars
<1>16. CASE ReadNotice
  <2>1. /\ sup = "read" /\ chan # <<>> /\ chan' = Tail(chan)
        /\ UNCHANGED <<ok, result, status, events, task, child, wait>>
        /\ sup' \in {"ns_created", "mount_done", "process_start"} =>
              failure' = failure /\ Head(chan).kind # "failed"
        /\ sup' = "process_start" => Head(chan).kind = "process_start"
        /\ sup' \in {"ns_created", "mount_done", "process_start"} \/ failure' # "none"
        /\ sup' \in {"ns_created", "mount_done", "process_start", "wait", "terminate"}
    BY <1>16 DEF ReadNotice, ProtocolError, storeVars, taskVars
  <2>2. /\ Head(chan) = chan[1] /\ 1 \in 1..Len(chan)
        /\ \A i \in 1..Len(chan') : i + 1 \in 1..Len(chan) /\ chan'[i] = chan[i + 1]
        /\ \A i \in 1..Len(chan) : i = 1 \/ (i - 1 \in 1..Len(chan') /\ chan'[i - 1] = chan[i])
    BY <2>1, TailElements DEF TypeOK
  <2>3. \A i \in 1..Len(chan') : chan'[i].kind = "process_start" => child' \in Started
    BY <2>1, <2>2 DEF VerdictInv
  <2>4. sup' \in Reading /\ child' = "leaving" =>
           \E i \in 1..Len(chan') : chan'[i].kind = "failed"
    BY <2>1, <2>2 DEF VerdictInv, Reading
  <2>5. sup' = "process_start" => child' \in Started
    BY <2>1, <2>2 DEF VerdictInv
  <2>6. sup' \in BeforeClone \cup Preparing \cup Reading => failure' = "none"
    BY <2>1 DEF VerdictInv, BeforeClone, Preparing, Reading
  <2> QED
    BY <2>1, <2>3, <2>4, <2>5, <2>6 DEF VerdictInv, ExitRecordIsTrue, Recorded, Execed
<1>17. CASE ReadEof
  <2>1. /\ sup = "read" /\ sup' = "wait" /\ Len(chan) = 0
        /\ child = "workload" \/ task # "alive"
        /\ UNCHANGED <<failure, ok, result, status, events, task, child, wait, chan>>
    BY <1>17 DEF ReadEof, ChildEndOpen, storeVars, taskVars, sockVars
  <2>2. task \in {"alive", "zombie", "reaped"} /\ child # "leaving"
    BY <2>1 DEF TypeOK, IsolationInv, VerdictInv, Reading
  <2> QED
    BY <2>1, <2>2 DEF VerdictInv, ExitRecordIsTrue, Recorded, Execed, BeforeClone,
       Preparing, Reading
<1>18. CASE ReadError
  BY <1>18 DEF VerdictInv, ReapInv, IsolationInv, ExitRecordIsTrue,
     ReturnedCodeIsRecorded, Recorded, Execed, Started, BeforeClone, Preparing,
     Reading, Recording, ReadError, ProtocolError, storeVars, taskVars, sockVars
<1>19. CASE Terminate
  BY <1>19 DEF VerdictInv, ReapInv, IsolationInv, ExitRecordIsTrue,
     ReturnedCodeIsRecorded, Recorded, Execed, Started, BeforeClone, Preparing,
     Reading, Recording, Terminate, storeVars, sockVars
<1>20. CASE WaitTerminal
  <2>1. /\ sup = "wait" /\ task = "zombie"
        /\ UNCHANGED <<status, events, child, wait, chan, failure>>
        /\ sup' \in {"process_exit", "process_failed", "drop"}
        /\ sup' = "drop" => ~ok'
    BY <1>20 DEF WaitTerminal, Verdict, ReturnErr, storeVars
  <2>2. ASSUME sup' = "process_exit"
        PROVE  failure = "none" /\ Recorded("PROCESS_START") /\ wait.kind = "exited"
               /\ result' = wait.code
    BY <1>20, <2>2 DEF WaitTerminal, Verdict, ReturnErr, EvidenceComplete, TerminalCode
  <2>3. sup' = "process_exit" => child = "workload" /\ wait.kind = "exited" /\ result' = wait.code
    BY <2>1, <2>2 DEF VerdictInv, Started
  <2> QED
    BY <2>1, <2>3 DEF VerdictInv, ExitRecordIsTrue, Recorded, Execed, BeforeClone,
       Preparing, Reading
<1>21. CASE AbortWait
  BY <1>21 DEF VerdictInv, ReapInv, IsolationInv, ExitRecordIsTrue,
     ReturnedCodeIsRecorded, Recorded, Execed, Started, BeforeClone, Preparing,
     Reading, Recording, AbortWait, storeVars, sockVars
<1>22. CASE ClosePeer
  BY <1>22 DEF VerdictInv, ReapInv, IsolationInv, ExitRecordIsTrue,
     ReturnedCodeIsRecorded, Recorded, Execed, Started, BeforeClone, Preparing,
     Reading, Recording, ClosePeer, supVars, storeVars
<1>23. CASE ReadGo
  BY <1>23 DEF VerdictInv, ReapInv, IsolationInv, ExitRecordIsTrue,
     ReturnedCodeIsRecorded, Recorded, Execed, Started, BeforeClone, Preparing,
     Reading, Recording, ReadGo, Dies, supVars, storeVars
<1>24. CASE EnterMappedIdentity
  BY <1>24 DEF VerdictInv, ReapInv, IsolationInv, ExitRecordIsTrue,
     ReturnedCodeIsRecorded, Recorded, Execed, Started, BeforeClone, Preparing,
     Reading, Recording, EnterMappedIdentity, Step, supVars, storeVars, sockVars
<1>25. CASE SendNamespaceReady
  <2>1. \/ chan' = chan
        \/ chan' = Append(chan, Notice("namespace_ready"))
    BY <1>25 DEF SendNamespaceReady, Send, supVars, storeVars
  <2>2. ASSUME chan' = chan
        PROVE  VerdictInv'
    BY <1>25, <2>2 DEF VerdictInv, ReapInv, IsolationInv, ExitRecordIsTrue,
       ReturnedCodeIsRecorded, Recorded, Execed, Started, Reading, SendNamespaceReady, Send, supVars, storeVars
  <2>3. ASSUME chan' = Append(chan, Notice("namespace_ready"))
        PROVE  VerdictInv'
    <3>1. /\ \A i \in 1..Len(chan') :
                (i \in 1..Len(chan) /\ chan'[i] = chan[i]) \/ chan'[i].kind = "namespace_ready"
          /\ \A i \in 1..Len(chan) : i \in 1..Len(chan') /\ chan'[i] = chan[i]
          /\ \E i \in 1..Len(chan') : chan'[i].kind = "namespace_ready"
      BY <2>3, NoticeAtEnd DEF NoticeKinds
    <3>2. \A i \in 1..Len(chan') : chan'[i].kind = "process_start" => child' \in Started
      BY <1>25, <3>1 DEF VerdictInv, Started, SendNamespaceReady, Send, supVars, storeVars
    <3>3. sup' \in Reading /\ child' = "leaving" =>
             \E i \in 1..Len(chan') : chan'[i].kind = "failed"
      BY <1>25, <3>1 DEF VerdictInv, SendNamespaceReady, Send, supVars, storeVars
    <3> QED
      BY <1>25, <3>2, <3>3 DEF VerdictInv, ReapInv, IsolationInv, ExitRecordIsTrue,
         ReturnedCodeIsRecorded, Recorded, Execed, Started, SendNamespaceReady, Send, supVars, storeVars
  <2> QED
    BY <2>1, <2>2, <2>3
<1>26. CASE ApplyChild
  BY <1>26 DEF VerdictInv, ReapInv, IsolationInv, ExitRecordIsTrue,
     ReturnedCodeIsRecorded, Recorded, Execed, Started, BeforeClone, Preparing,
     Reading, Recording, ApplyChild, Step, supVars, storeVars, sockVars
<1>27. CASE SendIsolationReady
  <2>1. \/ chan' = chan
        \/ chan' = Append(chan, Notice("isolation_ready"))
    BY <1>27 DEF SendIsolationReady, Send, supVars, storeVars
  <2>2. ASSUME chan' = chan
        PROVE  VerdictInv'
    BY <1>27, <2>2 DEF VerdictInv, ReapInv, IsolationInv, ExitRecordIsTrue,
       ReturnedCodeIsRecorded, Recorded, Execed, Started, Reading, SendIsolationReady, Send, supVars, storeVars
  <2>3. ASSUME chan' = Append(chan, Notice("isolation_ready"))
        PROVE  VerdictInv'
    <3>1. /\ \A i \in 1..Len(chan') :
                (i \in 1..Len(chan) /\ chan'[i] = chan[i]) \/ chan'[i].kind = "isolation_ready"
          /\ \A i \in 1..Len(chan) : i \in 1..Len(chan') /\ chan'[i] = chan[i]
          /\ \E i \in 1..Len(chan') : chan'[i].kind = "isolation_ready"
      BY <2>3, NoticeAtEnd DEF NoticeKinds
    <3>2. \A i \in 1..Len(chan') : chan'[i].kind = "process_start" => child' \in Started
      BY <1>27, <3>1 DEF VerdictInv, Started, SendIsolationReady, Send, supVars, storeVars
    <3>3. sup' \in Reading /\ child' = "leaving" =>
             \E i \in 1..Len(chan') : chan'[i].kind = "failed"
      BY <1>27, <3>1 DEF VerdictInv, SendIsolationReady, Send, supVars, storeVars
    <3> QED
      BY <1>27, <3>2, <3>3 DEF VerdictInv, ReapInv, IsolationInv, ExitRecordIsTrue,
         ReturnedCodeIsRecorded, Recorded, Execed, Started, SendIsolationReady, Send, supVars, storeVars
  <2> QED
    BY <2>1, <2>2, <2>3
<1>28. CASE PrepareExec
  BY <1>28 DEF VerdictInv, ReapInv, IsolationInv, ExitRecordIsTrue,
     ReturnedCodeIsRecorded, Recorded, Execed, Started, BeforeClone, Preparing,
     Reading, Recording, PrepareExec, Step, supVars, storeVars, sockVars
<1>29. CASE StrictKill
  BY <1>29 DEF VerdictInv, ReapInv, IsolationInv, ExitRecordIsTrue,
     ReturnedCodeIsRecorded, Recorded, Execed, Started, BeforeClone, Preparing,
     Reading, Recording, StrictKill, Dies, supVars, storeVars
<1>30. CASE SendProcessStart
  BY <1>30 DEF VerdictInv, ReapInv, IsolationInv, ExitRecordIsTrue,
     ReturnedCodeIsRecorded, Recorded, Execed, Started, BeforeClone, Preparing,
     Reading, Recording, SendProcessStart, Send, supVars, storeVars
<1>31. CASE Execv
  BY <1>31 DEF VerdictInv, ReapInv, IsolationInv, ExitRecordIsTrue,
     ReturnedCodeIsRecorded, Recorded, Execed, Started, BeforeClone, Preparing,
     Reading, Recording, Execv, Step, supVars, storeVars, sockVars
<1>32. CASE ReportFailure
  <2>1. \/ chan' = chan
        \/ chan' = Append(chan, Notice("failed"))
    BY <1>32 DEF ReportFailure, supVars, storeVars
  <2>2. ASSUME chan' = chan
        PROVE  VerdictInv'
    BY <1>32, <2>2 DEF VerdictInv, ReapInv, IsolationInv, ExitRecordIsTrue,
       ReturnedCodeIsRecorded, Recorded, Execed, Started, Reading, ReportFailure, supVars, storeVars
  <2>3. ASSUME chan' = Append(chan, Notice("failed"))
        PROVE  VerdictInv'
    <3>1. /\ \A i \in 1..Len(chan') :
                (i \in 1..Len(chan) /\ chan'[i] = chan[i]) \/ chan'[i].kind = "failed"
          /\ \A i \in 1..Len(chan) : i \in 1..Len(chan') /\ chan'[i] = chan[i]
          /\ \E i \in 1..Len(chan') : chan'[i].kind = "failed"
      BY <2>3, NoticeAtEnd DEF NoticeKinds
    <3>2. \A i \in 1..Len(chan') : chan'[i].kind = "process_start" => child' \in Started
      BY <1>32, <3>1 DEF VerdictInv, Started, ReportFailure, supVars, storeVars
    <3>3. sup' \in Reading /\ child' = "leaving" =>
             \E i \in 1..Len(chan') : chan'[i].kind = "failed"
      BY <1>32, <3>1 DEF VerdictInv, ReportFailure, supVars, storeVars
    <3> QED
      BY <1>32, <3>2, <3>3 DEF VerdictInv, ReapInv, IsolationInv, ExitRecordIsTrue,
         ReturnedCodeIsRecorded, Recorded, Execed, Started, ReportFailure, supVars, storeVars
  <2> QED
    BY <2>1, <2>2, <2>3
<1>33. CASE Leave
  BY <1>33 DEF VerdictInv, ReapInv, IsolationInv, ExitRecordIsTrue,
     ReturnedCodeIsRecorded, Recorded, Execed, Started, BeforeClone, Preparing,
     Reading, Recording, Leave, Dies, supVars, storeVars
<1>34. CASE WorkloadExits
  BY <1>34 DEF VerdictInv, ReapInv, IsolationInv, ExitRecordIsTrue,
     ReturnedCodeIsRecorded, Recorded, Execed, Started, BeforeClone, Preparing,
     Reading, Recording, WorkloadExits, Dies, supVars, storeVars
<1>35. CASE KilledBySignal
  <2>1. \/ chan' = chan
        \/ chan' = Append(chan, Notice("torn"))
    BY <1>35 DEF KilledBySignal, Dies, supVars, storeVars
  <2>2. ASSUME chan' = chan
        PROVE  VerdictInv'
    BY <1>35, <2>2 DEF VerdictInv, ReapInv, IsolationInv, ExitRecordIsTrue,
       ReturnedCodeIsRecorded, Recorded, Execed, Started, Reading, KilledBySignal, Dies, supVars, storeVars
  <2>3. ASSUME chan' = Append(chan, Notice("torn"))
        PROVE  VerdictInv'
    <3>1. /\ \A i \in 1..Len(chan') :
                (i \in 1..Len(chan) /\ chan'[i] = chan[i]) \/ chan'[i].kind = "torn"
          /\ \A i \in 1..Len(chan) : i \in 1..Len(chan') /\ chan'[i] = chan[i]
          /\ \E i \in 1..Len(chan') : chan'[i].kind = "torn"
      BY <2>3, NoticeAtEnd DEF NoticeKinds
    <3>2. \A i \in 1..Len(chan') : chan'[i].kind = "process_start" => child' \in Started
      BY <1>35, <3>1 DEF VerdictInv, Started, KilledBySignal, Dies, supVars, storeVars
    <3>3. sup' \in Reading /\ child' = "leaving" =>
             \E i \in 1..Len(chan') : chan'[i].kind = "failed"
      BY <1>35, <3>1 DEF VerdictInv, KilledBySignal, Dies, supVars, storeVars
    <3> QED
      BY <1>35, <3>2, <3>3 DEF VerdictInv, ReapInv, IsolationInv, ExitRecordIsTrue,
         ReturnedCodeIsRecorded, Recorded, Execed, Started, KilledBySignal, Dies, supVars, storeVars
  <2> QED
    BY <2>1, <2>2, <2>3
<1>36. CASE SupervisorCrash
  BY <1>36 DEF VerdictInv, ReapInv, IsolationInv, ExitRecordIsTrue,
     ReturnedCodeIsRecorded, Recorded, Execed, Started, BeforeClone, Preparing,
     Reading, Recording, SupervisorCrash, storeVars, taskVars
<1>37. CASE Finished \/ UNCHANGED vars
  BY <1>37 DEF VerdictInv, ReapInv, IsolationInv, ExitRecordIsTrue,
     ReturnedCodeIsRecorded, Recorded, Execed, Started, BeforeClone, Preparing,
     Reading, Recording, Finished, vars, supVars, storeVars, taskVars, sockVars
<1> QED
  BY <1>1, <1>2, <1>3, <1>4, <1>5, <1>6, <1>7, <1>8, <1>9, <1>10, <1>11, <1>12,
     <1>13, <1>14, <1>15, <1>16, <1>17, <1>18, <1>19, <1>20, <1>21, <1>22, <1>23,
     <1>24, <1>25, <1>26, <1>27, <1>28, <1>29, <1>30, <1>31, <1>32, <1>33, <1>34,
     <1>35, <1>36, <1>37 DEF Next, SupervisorStep, BootstrapStep

-----------------------------------------------------------------------------
(* The RunStatus in the Store *)

\* Every step keeps the RunStatus in the Store in step with run().
LEMMA StatusInductive == StatusInv /\ [Next]_vars => StatusInv'
<1> SUFFICES ASSUME StatusInv PROVE [Next]_vars => StatusInv'
  OBVIOUS
<1>1. CASE DropKill
  BY <1>1 DEF StatusInv, BeforeClone, Preparing, Reading, Recording, DropKill,
     supVars, storeVars, sockVars
<1>2. CASE DropGuard
  BY <1>2 DEF StatusInv, BeforeClone, Preparing, Reading, Recording, DropGuard,
     storeVars
<1>3. CASE StoreRefuses
  BY <1>3 DEF StatusInv, BeforeClone, Preparing, Reading, Recording, StoreRefuses,
     ReturnErr, StorePoints, storeVars, taskVars
<1>4. CASE StoreSeedManifest
  BY <1>4 DEF StatusInv, BeforeClone, Preparing, Reading, Recording,
     StoreSeedManifest, ReturnErr, storeVars, taskVars
<1>5. CASE CreateRun
  BY <1>5 DEF StatusInv, BeforeClone, Preparing, Reading, Recording, CreateRun,
     taskVars, sockVars
<1>6. CASE AppendEvent
  BY <1>6 DEF StatusInv, BeforeClone, Preparing, Reading, Recording, AppendEvent,
     AfterEvent, EventPoints, taskVars, sockVars
<1>7. CASE MarkRunning
  BY <1>7 DEF StatusInv, BeforeClone, Preparing, Reading, Recording, MarkRunning,
     UpdateRunStatus, taskVars, sockVars
<1>8. CASE MarkExited
  BY <1>8 DEF StatusInv, BeforeClone, Preparing, Reading, Recording, MarkExited,
     UpdateRunStatus, taskVars, sockVars
<1>9. CASE MarkFailed
  BY <1>9 DEF StatusInv, BeforeClone, Preparing, Reading, Recording, MarkFailed,
     UpdateRunStatus, taskVars, sockVars
<1>10. CASE ApplyParent
  BY <1>10 DEF StatusInv, BeforeClone, Preparing, Reading, Recording, ApplyParent,
     ReturnErr, storeVars, taskVars
<1>11. CASE ControlSocket
  BY <1>11 DEF StatusInv, BeforeClone, Preparing, Reading, Recording, ControlSocket,
     ReturnErr, storeVars, taskVars
<1>12. CASE Clone
  BY <1>12 DEF StatusInv, BeforeClone, Preparing, Reading, Recording, Clone,
     ReturnErr, storeVars
<1>13. CASE MapChildFromParent
  BY <1>13 DEF StatusInv, BeforeClone, Preparing, Reading, Recording,
     MapChildFromParent, AbortBlockedChild, storeVars
<1>14. CASE MovePidToPath
  BY <1>14 DEF StatusInv, BeforeClone, Preparing, Reading, Recording, MovePidToPath,
     AbortBlockedChild, storeVars
<1>15. CASE Release
  BY <1>15 DEF StatusInv, BeforeClone, Preparing, Reading, Recording, Release,
     AbortBlockedChild, ReturnErr, storeVars, taskVars
<1>16. CASE ReadNotice
  BY <1>16 DEF StatusInv, BeforeClone, Preparing, Reading, Recording, ReadNotice,
     ProtocolError, storeVars, taskVars
<1>17. CASE ReadEof
  BY <1>17 DEF StatusInv, BeforeClone, Preparing, Reading, Recording, ReadEof,
     ChildEndOpen, storeVars, taskVars, sockVars
<1>18. CASE ReadError
  BY <1>18 DEF StatusInv, BeforeClone, Preparing, Reading, Recording, ReadError,
     ProtocolError, storeVars, taskVars, sockVars
<1>19. CASE Terminate
  BY <1>19 DEF StatusInv, BeforeClone, Preparing, Reading, Recording, Terminate,
     storeVars, sockVars
<1>20. CASE WaitTerminal
  BY <1>20 DEF StatusInv, BeforeClone, Preparing, Reading, Recording, WaitTerminal,
     Verdict, ReturnErr, storeVars
<1>21. CASE AbortWait
  BY <1>21 DEF StatusInv, BeforeClone, Preparing, Reading, Recording, AbortWait,
     storeVars, sockVars
<1>22. CASE ClosePeer
  BY <1>22 DEF StatusInv, BeforeClone, Preparing, Reading, Recording, ClosePeer,
     supVars, storeVars
<1>23. CASE ReadGo
  BY <1>23 DEF StatusInv, BeforeClone, Preparing, Reading, Recording, ReadGo, Dies,
     supVars, storeVars
<1>24. CASE EnterMappedIdentity
  BY <1>24 DEF StatusInv, BeforeClone, Preparing, Reading, Recording,
     EnterMappedIdentity, Step, supVars, storeVars, sockVars
<1>25. CASE SendNamespaceReady
  BY <1>25 DEF StatusInv, BeforeClone, Preparing, Reading, Recording,
     SendNamespaceReady, Send, supVars, storeVars
<1>26. CASE ApplyChild
  BY <1>26 DEF StatusInv, BeforeClone, Preparing, Reading, Recording, ApplyChild,
     Step, supVars, storeVars, sockVars
<1>27. CASE SendIsolationReady
  BY <1>27 DEF StatusInv, BeforeClone, Preparing, Reading, Recording,
     SendIsolationReady, Send, supVars, storeVars
<1>28. CASE PrepareExec
  BY <1>28 DEF StatusInv, BeforeClone, Preparing, Reading, Recording, PrepareExec,
     Step, supVars, storeVars, sockVars
<1>29. CASE StrictKill
  BY <1>29 DEF StatusInv, BeforeClone, Preparing, Reading, Recording, StrictKill,
     Dies, supVars, storeVars
<1>30. CASE SendProcessStart
  BY <1>30 DEF StatusInv, BeforeClone, Preparing, Reading, Recording,
     SendProcessStart, Send, supVars, storeVars
<1>31. CASE Execv
  BY <1>31 DEF StatusInv, BeforeClone, Preparing, Reading, Recording, Execv, Step,
     supVars, storeVars, sockVars
<1>32. CASE ReportFailure
  BY <1>32 DEF StatusInv, BeforeClone, Preparing, Reading, Recording, ReportFailure,
     supVars, storeVars
<1>33. CASE Leave
  BY <1>33 DEF StatusInv, BeforeClone, Preparing, Reading, Recording, Leave, Dies,
     supVars, storeVars
<1>34. CASE WorkloadExits
  BY <1>34 DEF StatusInv, BeforeClone, Preparing, Reading, Recording, WorkloadExits,
     Dies, supVars, storeVars
<1>35. CASE KilledBySignal
  BY <1>35 DEF StatusInv, BeforeClone, Preparing, Reading, Recording,
     KilledBySignal, Dies, supVars, storeVars
<1>36. CASE SupervisorCrash
  BY <1>36 DEF StatusInv, BeforeClone, Preparing, Reading, Recording,
     SupervisorCrash, storeVars, taskVars
<1>37. CASE Finished \/ UNCHANGED vars
  BY <1>37 DEF StatusInv, BeforeClone, Preparing, Reading, Recording, Finished,
     vars, supVars, storeVars, taskVars, sockVars
<1> QED
  BY <1>1, <1>2, <1>3, <1>4, <1>5, <1>6, <1>7, <1>8, <1>9, <1>10, <1>11, <1>12,
     <1>13, <1>14, <1>15, <1>16, <1>17, <1>18, <1>19, <1>20, <1>21, <1>22, <1>23,
     <1>24, <1>25, <1>26, <1>27, <1>28, <1>29, <1>30, <1>31, <1>32, <1>33, <1>34,
     <1>35, <1>36, <1>37 DEF Next, SupervisorStep, BootstrapStep

-----------------------------------------------------------------------------
(* The order of the events *)

\* A step that neither appends an event nor reads a notice: run() gives up, or goes on.
GivesUp ==
    /\ child' = child /\ chan' = chan
    /\ \/ sup' \in Over
       \/ sup \notin Over /\ sup' \in {"abort_wait", "terminate", "wait", "process_failed"}
GoesOn ==
    /\ chan' = chan
    /\ \/ /\ \/ sup = "manifest" /\ sup' = "create_run"
             \/ sup = "create_run" /\ sup' = "run_created"
             \/ sup = "apply_parent" /\ sup' = "socket"
             \/ sup = "socket" /\ sup' = "clone"
             \/ sup = "idmap" /\ sup' = "move"
             \/ sup = "idmap" /\ sup' = "status_running" /\ ~seed.limits
             \/ sup = "move" /\ sup' = "cgroup_applied"
             \/ sup = "status_running" /\ sup' = "release"
             \/ sup = "release" /\ sup' = "read"
             \/ sup = "wait" /\ sup' = "process_exit" /\ EvidenceComplete
          /\ child' = child
       \/ /\ sup = "clone" /\ child' = "start"
          /\ \/ sup' \in {"idmap", "move"}
             \/ sup' = "status_running" /\ ~seed.limits

\* The task goes on, or writes a notice and goes on.
TaskGoesOn ==
    /\ sup' = sup /\ chan' = chan
    /\ \/ child' = child
       \/ child' \notin {"isolate", "isolation_ready", "chdir", "process_start"}
       \/ child = "isolate" /\ child' \in {"isolate", "isolation_ready"}
       \/ child = "chdir" /\ child' = "process_start"
TaskWrites ==
    /\ sup' = sup
    /\ \E n \in Notices :
          /\ chan' = Append(chan, n)
          /\ \/ n.kind \in {"torn", "failed"} /\ child' \in {child, "leaving"}
             \/ n.kind = "namespace_ready" /\ child' = "isolate"
             \/ n.kind = "isolation_ready" /\ child = "isolation_ready" /\ child' = "chdir"
             \/ n.kind = "process_start" /\ child = "process_start" /\ child' = "exec"

\* A notice is taken from the socket and believed, or the loop ends.
Reads ==
    /\ sup = "read" /\ chan # <<>> /\ chan' = Tail(chan) /\ child' = child
    /\ \/ Head(chan).kind = "namespace_ready" /\ sup' = "ns_created"
       \/ Head(chan).kind = "isolation_ready" /\ sup' = "mount_done"
       \/ Head(chan).kind = "process_start" /\ sup' = "process_start"
       \/ sup' \in {"terminate", "wait"}

\* Every step but AppendEvent leaves the events alone and does one of these.
LEMMA QuietSteps ==
    ASSUME TypeOK, [Next]_vars, ~AppendEvent
    PROVE  /\ UNCHANGED <<seed, events>>
           /\ GivesUp \/ GoesOn \/ TaskGoesOn \/ TaskWrites \/ Reads
<1> USE DEF supVars, storeVars, taskVars, sockVars, Over
<1>1. CASE DropKill \/ DropGuard
  BY <1>1 DEF DropKill, DropGuard, TaskGoesOn, GivesUp
<1>2. CASE StoreRefuses
  BY <1>2 DEF StoreRefuses, ReturnErr, GivesUp
<1>3. CASE StoreSeedManifest \/ CreateRun
  BY <1>3 DEF StoreSeedManifest, CreateRun, ReturnErr, GivesUp, GoesOn
<1>4. CASE MarkRunning \/ MarkExited \/ MarkFailed
  BY <1>4 DEF MarkRunning, MarkExited, MarkFailed, UpdateRunStatus, GoesOn, GivesUp
<1>5. CASE ApplyParent \/ ControlSocket
  BY <1>5 DEF ApplyParent, ControlSocket, ReturnErr, GoesOn, GivesUp
<1>6. CASE Clone
  BY <1>6 DEF Clone, ReturnErr, GoesOn, GivesUp
<1>7. CASE MapChildFromParent
  BY <1>7 DEF MapChildFromParent, AbortBlockedChild, GoesOn, GivesUp
<1>8. CASE MovePidToPath
  BY <1>8 DEF MovePidToPath, AbortBlockedChild, GoesOn, GivesUp
<1>9. CASE Release
  BY <1>9 DEF Release, AbortBlockedChild, ReturnErr, GoesOn, GivesUp
<1>10. CASE ReadNotice
  BY <1>10 DEF ReadNotice, ProtocolError, Reads
<1>11. CASE ReadEof \/ ReadError \/ Terminate \/ AbortWait
  BY <1>11 DEF ReadEof, ReadError, Terminate, AbortWait, ProtocolError, GivesUp
<1>12. CASE WaitTerminal
  <2>1. /\ sup = "wait" /\ child' = child /\ chan' = chan /\ seed' = seed /\ events' = events
        /\ Verdict \/ ReturnErr
    BY <1>12 DEF WaitTerminal
  <2>2. CASE ReturnErr
    BY <2>1, <2>2 DEF ReturnErr, GivesUp
  <2>3. CASE Verdict
    <3>1. \/ sup' = "process_failed"
          \/ sup' = "process_exit" /\ EvidenceComplete
      BY <2>3 DEF Verdict
    <3> QED BY <2>1, <3>1 DEF GivesUp, GoesOn
  <2> QED BY <2>1, <2>2, <2>3
<1>13. CASE ClosePeer \/ ReadGo
  BY <1>13 DEF ClosePeer, ReadGo, TaskGoesOn
<1>14. CASE EnterMappedIdentity
  BY <1>14 DEF EnterMappedIdentity, Step, TaskGoesOn
<1>15. CASE ApplyChild
  BY <1>15 DEF ApplyChild, Step, TaskGoesOn
<1>16. CASE PrepareExec \/ Execv
  BY <1>16 DEF PrepareExec, Execv, Step, TaskGoesOn
<1>17. ASSUME NEW kind \in {"namespace_ready", "isolation_ready", "process_start", "torn",
                            "failed"}
       PROVE  Notice(kind) \in Notices /\ Notice(kind).kind = kind
  BY <1>17 DEF Notice, Notices, NoticeKinds, TypeOK
<1>18. CASE SendNamespaceReady
  <2>1. CASE "sup" \in supEnd
    BY <1>17, <1>18, <2>1 DEF SendNamespaceReady, Send, TaskWrites
  <2>2. CASE "sup" \notin supEnd
    BY <1>18, <2>2 DEF SendNamespaceReady, Send, TaskGoesOn
  <2> QED BY <2>1, <2>2
<1>19. CASE SendIsolationReady
  <2>1. CASE "sup" \in supEnd
    BY <1>17, <1>19, <2>1 DEF SendIsolationReady, Send, TaskWrites
  <2>2. CASE "sup" \notin supEnd
    BY <1>19, <2>2 DEF SendIsolationReady, Send, TaskGoesOn
  <2> QED BY <2>1, <2>2
<1>20. CASE SendProcessStart
  <2>1. CASE "sup" \in supEnd
    BY <1>17, <1>20, <2>1 DEF SendProcessStart, Send, TaskWrites
  <2>2. CASE "sup" \notin supEnd
    BY <1>20, <2>2 DEF SendProcessStart, Send, TaskGoesOn
  <2> QED BY <2>1, <2>2
<1>21. CASE ReportFailure
  <2>1. CASE "sup" \in supEnd
    BY <1>17, <1>21, <2>1 DEF ReportFailure, TaskWrites
  <2>2. CASE "sup" \notin supEnd
    BY <1>21, <2>2 DEF ReportFailure, TaskGoesOn
  <2> QED BY <2>1, <2>2
<1>22. CASE KilledBySignal
  <2>1. CASE chan' = chan
    BY <1>22, <2>1 DEF KilledBySignal, TaskGoesOn
  <2>2. CASE chan' = Append(chan, Notice("torn"))
    BY <1>17, <1>22, <2>2 DEF KilledBySignal, TaskWrites
  <2> QED BY <1>22, <2>1, <2>2 DEF KilledBySignal
<1>23. CASE StrictKill \/ Leave \/ WorkloadExits
  BY <1>23 DEF StrictKill, Leave, WorkloadExits, TaskGoesOn
<1>24. CASE SupervisorCrash
  BY <1>24 DEF SupervisorCrash, GivesUp
<1>25. CASE UNCHANGED vars
  BY <1>25 DEF vars, TaskGoesOn
<1> QED
  BY <1>1, <1>2, <1>3, <1>4, <1>5, <1>6, <1>7, <1>8, <1>9, <1>10, <1>11, <1>12, <1>13, <1>14,
     <1>15, <1>16, <1>18, <1>19, <1>20, <1>21, <1>22, <1>23, <1>24, <1>25
     DEF Next, SupervisorStep, BootstrapStep, Finished

\* Before, of any sequence of events.
BeforeIn(s, e, f) == \A i \in DOMAIN s : s[i] = f => \E j \in 1..(i - 1) : s[j] = e

\* An appended event comes after every event recorded by then.
LEMMA BeforeAppend ==
    ASSUME NEW s \in Seq(EventNames), NEW x \in EventNames, NEW e, NEW f,
           BeforeIn(s, e, f), x = f => e \in Range(s)
    PROVE  BeforeIn(Append(s, x), e, f)
<1>1. /\ Len(s) \in Nat /\ DOMAIN s = 1..Len(s) /\ DOMAIN Append(s, x) = 1..(Len(s) + 1)
      /\ \A i \in 1..Len(s) : Append(s, x)[i] = s[i]
      /\ Append(s, x)[Len(s) + 1] = x
  OBVIOUS
<1> SUFFICES ASSUME NEW i \in 1..(Len(s) + 1), Append(s, x)[i] = f
             PROVE  \E j \in 1..(i - 1) : Append(s, x)[j] = e
  BY <1>1 DEF BeforeIn
<1>2. CASE i \in 1..Len(s)
  <2>1. PICK j \in 1..(i - 1) : s[j] = e
    BY <1>1, <1>2 DEF BeforeIn
  <2>2. j \in 1..Len(s)
    BY <1>1, <1>2, <2>1
  <2> QED BY <1>1, <2>1, <2>2
<1>3. CASE i = Len(s) + 1
  <2>1. PICK j \in DOMAIN s : s[j] = e
    BY <1>1, <1>3 DEF Range
  <2> QED BY <1>1, <1>3, <2>1
<1> QED
  BY <1>1, <1>2, <1>3

\* The event being appended, and where run() goes from there.
LEMMA EventTable ==
    ASSUME AppendEvent
    PROVE  /\ events' = Append(events, EventAt[sup]) /\ UNCHANGED <<seed, child, chan>>
           /\ \/ sup = "run_created" /\ EventAt[sup] = "RUN_CREATED" /\ sup' = "seed_loaded"
              \/ sup = "seed_loaded" /\ EventAt[sup] = "SEED_LOADED" /\ sup' = "apply_parent"
              \/ sup = "cgroup_applied" /\ EventAt[sup] = "CGROUP_APPLIED"
                    /\ sup' = "status_running"
              \/ sup = "ns_created" /\ EventAt[sup] = "NS_CREATED"
                    /\ sup' \in {"idmap_applied", "read"}
              \/ sup = "idmap_applied" /\ EventAt[sup] = "IDMAP_APPLIED" /\ sup' = "read"
              \/ sup = "mount_done" /\ EventAt[sup] = "MOUNT_DONE"
                    /\ sup' \in {"caps_dropped", "seccomp_enabled", "read"}
              \/ sup = "caps_dropped" /\ EventAt[sup] = "CAPS_DROPPED"
                    /\ sup' \in {"seccomp_enabled", "read"}
              \/ sup = "seccomp_enabled" /\ EventAt[sup] = "SECCOMP_ENABLED" /\ sup' = "read"
              \/ sup = "process_start" /\ EventAt[sup] = "PROCESS_START" /\ sup' = "read"
              \/ sup = "process_exit" /\ EventAt[sup] = "PROCESS_EXIT"
                    /\ sup' = "status_exited"
              \/ sup = "process_failed" /\ EventAt[sup] = "PROCESS_FAILED"
                    /\ sup' = "status_failed"
<1>1. sup \in EventPoints /\ sup' = AfterEvent(sup)
  BY DEF AppendEvent
<1>2. events' = Append(events, EventAt[sup]) /\ UNCHANGED <<seed, child, chan>>
  BY DEF AppendEvent, taskVars, sockVars
<1> QED
  BY <1>1, <1>2 DEF EventPoints, AfterEvent, EventAt

\* Every event is appended where everything it presumes is recorded.
LEMMA OrderAppend ==
    ASSUME TypeOK, OrderInv, AppendEvent
    PROVE  OrderInv'
<1> DEFINE x == EventAt[sup]
<1>1. events \in Seq(EventNames) /\ x \in EventNames
  BY EventTable DEF TypeOK, EventNames
<1>2. events' = Append(events, x) /\ UNCHANGED <<seed, child, chan>>
  BY EventTable
<1> HIDE DEF x
<1>3. \A e : Recorded(e)' <=> Recorded(e) \/ e = x
  BY <1>1, <1>2, RangeAppend DEF Recorded
<1>4. \/ sup = "run_created" /\ x = "RUN_CREATED" /\ sup' = "seed_loaded"
      \/ sup = "seed_loaded" /\ x = "SEED_LOADED" /\ sup' = "apply_parent"
      \/ sup = "cgroup_applied" /\ x = "CGROUP_APPLIED" /\ sup' = "status_running"
      \/ sup = "ns_created" /\ x = "NS_CREATED" /\ sup' \in {"idmap_applied", "read"}
      \/ sup = "idmap_applied" /\ x = "IDMAP_APPLIED" /\ sup' = "read"
      \/ /\ sup = "mount_done" /\ x = "MOUNT_DONE"
         /\ sup' \in {"caps_dropped", "seccomp_enabled", "read"}
      \/ sup = "caps_dropped" /\ x = "CAPS_DROPPED" /\ sup' \in {"seccomp_enabled", "read"}
      \/ sup = "seccomp_enabled" /\ x = "SECCOMP_ENABLED" /\ sup' = "read"
      \/ sup = "process_start" /\ x = "PROCESS_START" /\ sup' = "read"
      \/ sup = "process_exit" /\ x = "PROCESS_EXIT" /\ sup' = "status_exited"
      \/ sup = "process_failed" /\ x = "PROCESS_FAILED" /\ sup' = "status_failed"
  BY EventTable DEF x
<1>5. LifecycleOrder'
  <2>1. ASSUME NEW e, NEW f, Before(e, f), x = f => Recorded(e)
        PROVE  Before(e, f)'
    <3>1. BeforeIn(events, e, f)
      BY <2>1 DEF Before, BeforeIn
    <3>2. x = f => e \in Range(events)
      BY <2>1 DEF Recorded
    <3>3. BeforeIn(Append(events, x), e, f)
      BY <1>1, <3>1, <3>2, BeforeAppend
    <3> QED BY <1>2, <3>3 DEF Before, BeforeIn
  <2>2. /\ x = "CGROUP_APPLIED" => Recorded("RUN_CREATED")
        /\ x = "NS_CREATED" => (seed.limits => Recorded("CGROUP_APPLIED"))
        /\ x = "MOUNT_DONE" => Recorded("NS_CREATED")
        /\ x = "PROCESS_START" => Recorded("MOUNT_DONE")
        /\ x = "PROCESS_EXIT" => Recorded("PROCESS_START")
    BY <1>4 DEF OrderInv, Preparing, Reading
  <2>3. /\ Before("RUN_CREATED", "CGROUP_APPLIED")'
        /\ (seed.limits => Before("CGROUP_APPLIED", "NS_CREATED"))'
        /\ Before("NS_CREATED", "MOUNT_DONE")' /\ Before("MOUNT_DONE", "PROCESS_START")'
        /\ Before("PROCESS_START", "PROCESS_EXIT")'
    BY <1>2, <2>1, <2>2 DEF OrderInv, LifecycleOrder
  <2>4. ~Recorded("PROCESS_EXIT") /\ ~Recorded("PROCESS_FAILED")
    BY <1>4 DEF OrderInv, Over
  <2>5. \A i \in DOMAIN events' :
            events'[i] \in {"PROCESS_EXIT", "PROCESS_FAILED"} => i = Len(events')
    <3>1. /\ Len(events) \in Nat /\ DOMAIN events' = 1..(Len(events) + 1)
          /\ Len(events') = Len(events) + 1 /\ DOMAIN events = 1..Len(events)
          /\ \A i \in 1..Len(events) : events'[i] = events[i]
      BY <1>1, <1>2
    <3>2. \A i \in 1..Len(events) : events[i] \notin {"PROCESS_EXIT", "PROCESS_FAILED"}
      BY <2>4, <3>1 DEF Recorded, Range
    <3> QED BY <3>1, <3>2
  <2> QED BY <2>3, <2>5 DEF LifecycleOrder
<1>6. /\ sup' \in {"seed_loaded", "apply_parent", "socket", "clone"} \cup Preparing =>
            Recorded("RUN_CREATED")'
      /\ sup' \in {"status_running", "release"} \cup Reading /\ seed.limits =>
            Recorded("CGROUP_APPLIED")'
  BY <1>3, <1>4 DEF OrderInv, Preparing, Reading
<1>7. /\ sup' = "mount_done" => Recorded("NS_CREATED")'
      /\ sup' = "process_start" => Recorded("MOUNT_DONE")'
      /\ sup' = "process_exit" => Recorded("PROCESS_START")'
      /\ sup' \notin Over => ~Recorded("PROCESS_EXIT")' /\ ~Recorded("PROCESS_FAILED")'
  BY <1>3, <1>4 DEF OrderInv, Over
<1>8. \A n : (NamespaceTold(n) => NamespaceTold(n)') /\ (IsolationTold(n) => IsolationTold(n)')
  BY <1>2, <1>3, <1>4 DEF NamespaceTold, IsolationTold, Told
<1>9. sup' \in Listening => sup \in Listening
  BY <1>4 DEF Listening, BeforeClone, Preparing, Reading
<1>10. sup' \in Listening =>
          /\ child' \in {"isolate", "isolation_ready"} => NamespaceTold(Len(chan))'
          /\ child' \in {"chdir", "process_start"} => IsolationTold(Len(chan))'
          /\ \A i \in 1..Len(chan') :
                /\ chan'[i].kind = "isolation_ready" => NamespaceTold(i - 1)'
                /\ chan'[i].kind = "process_start" => IsolationTold(i - 1)'
  <2> SUFFICES ASSUME sup' \in Listening
               PROVE  /\ child' \in {"isolate", "isolation_ready"} => NamespaceTold(Len(chan))'
                      /\ child' \in {"chdir", "process_start"} => IsolationTold(Len(chan))'
                      /\ \A i \in 1..Len(chan') :
                            /\ chan'[i].kind = "isolation_ready" => NamespaceTold(i - 1)'
                            /\ chan'[i].kind = "process_start" => IsolationTold(i - 1)'
    OBVIOUS
  <2>1. /\ child \in {"isolate", "isolation_ready"} => NamespaceTold(Len(chan))
        /\ child \in {"chdir", "process_start"} => IsolationTold(Len(chan))
        /\ \A i \in 1..Len(chan) :
              /\ chan[i].kind = "isolation_ready" => NamespaceTold(i - 1)
              /\ chan[i].kind = "process_start" => IsolationTold(i - 1)
    BY <1>9 DEF OrderInv
  <2>2. /\ NamespaceTold(Len(chan)) => NamespaceTold(Len(chan))'
        /\ IsolationTold(Len(chan)) => IsolationTold(Len(chan))'
    BY <1>2, <1>3, <1>4 DEF NamespaceTold, IsolationTold, Told
  <2> QED BY <1>2, <1>8, <2>1, <2>2
<1> QED
  BY <1>2, <1>5, <1>6, <1>7, <1>10 DEF OrderInv

\* No other step changes what is recorded; run() believes a notice only after those
\* it presumes, because the task writes them in order and the socket keeps the order.
LEMMA OrderInductive ==
    ASSUME TypeOK, OrderInv, [Next]_vars
    PROVE  OrderInv'
<1>1. CASE AppendEvent
  BY <1>1, OrderAppend
<1>2. CASE ~AppendEvent
  <2>1. /\ UNCHANGED <<seed, events>>
        /\ GivesUp \/ GoesOn \/ TaskGoesOn \/ TaskWrites \/ Reads
    BY <1>2, QuietSteps
  <2>2. LifecycleOrder' /\ \A e : Recorded(e)' <=> Recorded(e)
    BY <2>1 DEF OrderInv, LifecycleOrder, Before, Recorded
  <2>3. chan \in Seq(Notices) /\ Len(chan) \in Nat
    BY DEF TypeOK
  <2> DEFINE Rest ==
        /\ sup \in {"seed_loaded", "apply_parent", "socket", "clone"} \cup Preparing =>
              Recorded("RUN_CREATED")
        /\ sup \in {"status_running", "release"} \cup Reading /\ seed.limits =>
              Recorded("CGROUP_APPLIED")
        /\ sup = "mount_done" => Recorded("NS_CREATED")
        /\ sup = "process_start" => Recorded("MOUNT_DONE")
        /\ sup = "process_exit" => Recorded("PROCESS_START")
        /\ sup \notin Over => ~Recorded("PROCESS_EXIT") /\ ~Recorded("PROCESS_FAILED")
             ChildTold ==
        /\ child \in {"isolate", "isolation_ready"} => NamespaceTold(Len(chan))
        /\ child \in {"chdir", "process_start"} => IsolationTold(Len(chan))
             NoticeTold(i) ==
        /\ chan[i].kind = "isolation_ready" => NamespaceTold(i - 1)
        /\ chan[i].kind = "process_start" => IsolationTold(i - 1)
  <2>4. Rest /\ (sup \in Listening => ChildTold /\ \A i \in 1..Len(chan) : NoticeTold(i))
    BY DEF OrderInv
  <2>5. SUFFICES Rest' /\ (sup' \in Listening =>
                              ChildTold' /\ \A i \in 1..Len(chan') : NoticeTold(i)')
    BY <2>2 DEF OrderInv
  <2>6. Rest'
    <3>1. CASE GivesUp
      BY <2>2, <2>4, <3>1 DEF GivesUp, Over, Preparing, Reading
    <3>2. CASE GoesOn
      BY <2>1, <2>2, <2>4, <3>2 DEF GoesOn, Over, Preparing, Reading, EvidenceComplete
    <3>3. CASE TaskGoesOn \/ TaskWrites
      BY <2>1, <2>2, <2>4, <3>3 DEF TaskGoesOn, TaskWrites
    <3>4. CASE Reads
      <4>1. 1 \in 1..Len(chan) /\ Head(chan) = chan[1]
        BY <2>3, <3>4 DEF Reads
      <4>2. NoticeTold(1)
        BY <2>4, <3>4, <4>1 DEF Reads, Listening, Reading
      <4>3. /\ Head(chan).kind = "isolation_ready" => Recorded("NS_CREATED")
            /\ Head(chan).kind = "process_start" => Recorded("MOUNT_DONE")
        BY <3>4, <4>1, <4>2 DEF NamespaceTold, IsolationTold, Told, Reads
      <4> QED BY <2>1, <2>2, <2>4, <3>4, <4>3 DEF Reads, Over, Preparing, Reading
    <3> QED BY <2>1, <3>1, <3>2, <3>3, <3>4
  <2>7. ASSUME sup' \in Listening
        PROVE  ChildTold' /\ \A i \in 1..Len(chan') : NoticeTold(i)'
    <3>1. CASE GivesUp
      BY <2>7, <3>1 DEF GivesUp, Over, Listening, BeforeClone, Preparing, Reading
    <3>2. CASE GoesOn
      <4>1. /\ sup \in Listening /\ sup \notin {"ns_created", "mount_done"} /\ chan' = chan
            /\ child' = child \/ child' = "start"
        BY <2>7, <3>2 DEF GoesOn, Listening, BeforeClone, Preparing, Reading
      <4>2. \A n : /\ NamespaceTold(n) => NamespaceTold(n)'
                   /\ IsolationTold(n) => IsolationTold(n)'
        BY <2>2, <4>1 DEF NamespaceTold, IsolationTold, Told
      <4>3. /\ NamespaceTold(Len(chan)) => NamespaceTold(Len(chan))'
            /\ IsolationTold(Len(chan)) => IsolationTold(Len(chan))'
        BY <2>2, <4>1 DEF NamespaceTold, IsolationTold, Told
      <4>4. ChildTold'
        BY <2>4, <4>1, <4>3
      <4>5. \A i \in 1..Len(chan') : NoticeTold(i)'
        BY <2>4, <4>1, <4>2
      <4> QED BY <4>4, <4>5
    <3>3. CASE TaskGoesOn
      <4>1. sup' = sup /\ chan' = chan
        BY <3>3 DEF TaskGoesOn
      <4>2. \A n : /\ NamespaceTold(n)' <=> NamespaceTold(n)
                   /\ IsolationTold(n)' <=> IsolationTold(n)
        BY <2>2, <4>1 DEF NamespaceTold, IsolationTold, Told
      <4>3. /\ child' \in {"isolate", "isolation_ready"} =>
                  child \in {"isolate", "isolation_ready"}
            /\ child' \in {"chdir", "process_start"} => child \in {"chdir", "process_start"}
        BY <3>3 DEF TaskGoesOn
      <4> QED BY <2>4, <2>7, <4>1, <4>2, <4>3 DEF NamespaceTold, IsolationTold, Told
    <3>4. CASE TaskWrites
      <4>1. sup' = sup
        BY <3>4 DEF TaskWrites
      <4>2. PICK n \in Notices :
              /\ chan' = Append(chan, n)
              /\ \/ n.kind \in {"torn", "failed"} /\ child' \in {child, "leaving"}
                 \/ n.kind = "namespace_ready" /\ child' = "isolate"
                 \/ n.kind = "isolation_ready" /\ child = "isolation_ready" /\ child' = "chdir"
                 \/ n.kind = "process_start" /\ child = "process_start" /\ child' = "exec"
        BY <3>4 DEF TaskWrites
      <4>3. /\ Len(chan') = Len(chan) + 1 /\ chan'[Len(chan) + 1] = n
            /\ \A i \in 1..Len(chan) : chan'[i] = chan[i]
        BY <2>3, <4>2
      <4>4. ChildTold /\ \A i \in 1..Len(chan) : NoticeTold(i)
        BY <2>4, <2>7, <4>1
      <4>5. \A k \in 0..Len(chan) : \A m \in Nat : k <= m =>
               /\ NamespaceTold(k) => NamespaceTold(m)'
               /\ IsolationTold(k) => IsolationTold(m)'
        BY <2>2, <2>3, <4>1, <4>3 DEF NamespaceTold, IsolationTold, Told
      <4>6. ChildTold'
        <5>1. CASE n.kind \in {"torn", "failed"} /\ child' \in {child, "leaving"}
          <6>1. /\ NamespaceTold(Len(chan)) => NamespaceTold(Len(chan))'
                /\ IsolationTold(Len(chan)) => IsolationTold(Len(chan))'
            BY <2>3, <4>3, <4>5
          <6> QED BY <4>4, <5>1, <6>1 DEF NamespaceTold, IsolationTold, Told
        <5>2. CASE n.kind = "namespace_ready" /\ child' = "isolate"
          <6>1. Len(chan') \in 1..Len(chan') /\ chan'[Len(chan')].kind = "namespace_ready"
            BY <2>3, <4>3, <5>2
          <6> QED BY <5>2, <6>1 DEF NamespaceTold, Told
        <5>3. CASE n.kind = "isolation_ready" /\ child' = "chdir"
          <6>1. Len(chan') \in 1..Len(chan') /\ chan'[Len(chan')].kind = "isolation_ready"
            BY <2>3, <4>3, <5>3
          <6> QED BY <5>3, <6>1 DEF IsolationTold, Told
        <5>4. CASE child' = "exec"
          BY <5>4
        <5> QED BY <4>2, <5>1, <5>2, <5>3, <5>4
      <4>7. ASSUME NEW i \in 1..Len(chan')
            PROVE  NoticeTold(i)'
        <5>1. CASE i \in 1..Len(chan)
          <6>1. i - 1 \in 0..Len(chan) /\ i - 1 \in Nat /\ i - 1 <= i - 1
            BY <2>3, <5>1
          <6>2. NoticeTold(i)
            BY <4>4, <5>1
          <6> QED BY <4>3, <4>5, <5>1, <6>1, <6>2 DEF NamespaceTold, IsolationTold, Told
        <5>2. CASE i = Len(chan) + 1
          <6>1. chan'[i] = n /\ i - 1 = Len(chan)
            BY <2>3, <4>3, <5>2
          <6>2. /\ n.kind = "isolation_ready" => NamespaceTold(Len(chan))
                /\ n.kind = "process_start" => IsolationTold(Len(chan))
            BY <4>2, <4>4
          <6>3. /\ NamespaceTold(Len(chan)) => NamespaceTold(i - 1)'
                /\ IsolationTold(Len(chan)) => IsolationTold(i - 1)'
            BY <2>3, <4>5, <6>1
          <6> QED BY <6>1, <6>2, <6>3
        <5> QED BY <2>3, <4>3, <4>7, <5>1, <5>2
      <4> QED BY <4>6, <4>7
    <3>5. CASE Reads
      <4>1. /\ sup = "read" /\ sup \in Listening /\ child' = child
            /\ \/ chan[1].kind = "namespace_ready" /\ sup' = "ns_created"
               \/ chan[1].kind = "isolation_ready" /\ sup' = "mount_done"
               \/ chan[1].kind = "process_start" /\ sup' = "process_start"
        BY <2>3, <2>7, <3>5 DEF Reads, Listening, BeforeClone, Preparing, Reading
      <4>2. /\ Len(chan) >= 1 /\ Len(chan') = Len(chan) - 1 /\ Len(chan') \in Nat
            /\ \A i \in 1..Len(chan') : i + 1 \in 1..Len(chan) /\ chan'[i] = chan[i + 1]
        BY <2>3, <3>5 DEF Reads
      <4>3. ChildTold /\ \A i \in 1..Len(chan) : NoticeTold(i)
        BY <2>4, <4>1
      <4>4. ASSUME NEW k \in 0..Len(chan')
            PROVE  /\ NamespaceTold(k + 1) => NamespaceTold(k)'
                   /\ IsolationTold(k + 1) => IsolationTold(k)'
        <5>1. ASSUME NEW kind, NEW j \in 1..(k + 1), chan[j].kind = kind, chan[1].kind # kind
              PROVE  \E l \in 1..k : chan'[l].kind = kind
          <6>1. j - 1 \in 1..k /\ j - 1 \in 1..Len(chan')
            BY <4>2, <5>1
          <6>2. chan'[j - 1] = chan[j]
            BY <4>2, <6>1
          <6> QED BY <5>1, <6>1, <6>2
        <5>2. NamespaceTold(k + 1) => NamespaceTold(k)'
          <6>1. CASE sup' = "ns_created"
            BY <6>1 DEF NamespaceTold, Told
          <6>2. CASE sup' # "ns_created"
            BY <2>2, <4>1, <5>1, <6>2 DEF NamespaceTold, Told
          <6> QED BY <6>1, <6>2
        <5>3. IsolationTold(k + 1) => IsolationTold(k)'
          <6>1. CASE sup' = "mount_done"
            BY <6>1 DEF IsolationTold, Told
          <6>2. CASE sup' # "mount_done"
            BY <2>2, <4>1, <5>1, <6>2 DEF IsolationTold, Told
          <6> QED BY <6>1, <6>2
        <5> QED BY <5>2, <5>3
      <4>5. ChildTold'
        <5>1. Len(chan') \in 0..Len(chan') /\ Len(chan') + 1 = Len(chan)
          BY <2>3, <4>2
        <5>2. /\ NamespaceTold(Len(chan)) => NamespaceTold(Len(chan))'
              /\ IsolationTold(Len(chan)) => IsolationTold(Len(chan))'
          BY <4>4, <5>1
        <5> QED BY <4>1, <4>3, <5>2 DEF NamespaceTold, IsolationTold, Told
      <4>6. ASSUME NEW i \in 1..Len(chan') PROVE NoticeTold(i)'
        <5>1. i + 1 \in 1..Len(chan) /\ chan'[i] = chan[i + 1]
          BY <4>2, <4>6
        <5>2. i - 1 \in 0..Len(chan') /\ (i - 1) + 1 = i /\ (i + 1) - 1 = i
          BY <4>2, <4>6
        <5>3. NoticeTold(i + 1)
          BY <4>3, <5>1
        <5>4. /\ chan[i + 1].kind = "isolation_ready" => NamespaceTold(i)
              /\ chan[i + 1].kind = "process_start" => IsolationTold(i)
          BY <5>2, <5>3
        <5>5. /\ NamespaceTold(i) => NamespaceTold(i - 1)'
              /\ IsolationTold(i) => IsolationTold(i - 1)'
          BY <4>4, <5>2
        <5> QED BY <5>1, <5>4, <5>5
      <4> QED BY <4>5, <4>6
    <3> QED BY <2>1, <3>1, <3>2, <3>3, <3>4, <3>5
  <2> QED BY <2>6, <2>7
<1> QED
  BY <1>1, <1>2

-----------------------------------------------------------------------------
(* The inductive invariant *)

\* The inductive invariant holds initially.
LEMMA InvInit == Init => Inv
<1> SUFFICES ASSUME Init PROVE Inv
  OBVIOUS
<1>1. TypeOK
  BY TypeInit
<1>2. IsolationInv
  BY DEF Init, IsolationInv, BeforeClone, Preparing, Reading, Recording,
     BeforeIsolation, AfterIdentity, AfterIsolation
<1>3. events = <<>> /\ chan = <<>> /\ Range(events) = {}
  BY DEF Init, Range
<1>4. NoticeInv
  BY <1>3 DEF Init, NoticeInv, EvidenceIsTrue, Recorded
<1>5. ReapInv
  BY DEF Init, NoWait, ReapInv, TerminalMeansReaped, NothingLeftBehind, Preparing,
     Reading, Recording
<1>6. VerdictInv
  BY <1>3 DEF Init, NoWait, VerdictInv, ExitRecordIsTrue, Recorded, Reading, Started
<1>7. StatusInv
  BY DEF Init, StatusInv, BeforeClone, Preparing, Reading, Recording
<1>8. OrderInv
  BY <1>3 DEF Init, OrderInv, LifecycleOrder, Before, Recorded, Listening, BeforeClone,
     Preparing, Reading, Over
<1> QED
  BY <1>1, <1>2, <1>4, <1>5, <1>6, <1>7, <1>8 DEF Inv

\* The inductive invariant is preserved by every step.
LEMMA InvInductive == Inv /\ [Next]_vars => Inv'
BY TypeInductive, IsolationInductive, NoticeInductive, ReapInductive,
   VerdictInductive, StatusInductive, OrderInductive DEF Inv

\* Inv holds in every state of every run.
THEOREM InvCorrect == Spec => []Inv
BY InvInit, InvInductive, PTL DEF Spec

-----------------------------------------------------------------------------
(* What follows from it *)

\* No workload is exec'ed after a partial isolation failure: the byte was
\* written, every requested step of both processes succeeded and the task is in
\* the namespaces its Seed asks for.
THEOREM IsolationCorrect == Spec => []NoExecAfterPartialIsolation
<1>1. ASSUME Inv, Execed PROVE go /\ RequiredFacts(seed) \subseteq applied
                               /\ wns = RequiredNamespaces(seed)
  <2>1. go /\ ParentFacts /\ IsolationSteps(seed, 6) /\ task # "none"
    BY <1>1 DEF Inv, Execed, IsolationInv, AfterIsolation
  <2>2. seed.map_rootless => "identity" \in applied
    BY <1>1 DEF Inv, Execed, IsolationInv, AfterIdentity
  <2>3. wns = RequiredNamespaces(seed)
    BY <1>1, <2>1 DEF Inv, IsolationInv, workload_clone_flags, RequiredNamespaces
  <2> QED
    BY <2>1, <2>2, <2>3, AllStepsMean DEF ParentFacts, RequiredFacts
<1>2. Inv => NoExecAfterPartialIsolation
  BY <1>1 DEF NoExecAfterPartialIsolation
<1> QED
  BY <1>2, InvCorrect, PTL

\* The audit events of a run are true of the task, whoever has died meanwhile.
THEOREM EvidenceCorrect == Spec => []EvidenceIsTrue
<1>1. Inv => EvidenceIsTrue
  BY DEF Inv, NoticeInv
<1> QED
  BY <1>1, InvCorrect, PTL

\* A run recorded as Exited(code) had its workload exec'ed, and that workload
\* left with that code.
THEOREM ExitRecordCorrect == Spec => []ExitRecordIsTrue
<1>1. Inv => ExitRecordIsTrue
  BY DEF Inv, VerdictInv
<1> QED
  BY <1>1, InvCorrect, PTL

\* A terminal RunStatus is recorded only for a task that has been reaped, and
\* run() leaves no process, zombie, endpoint or cgroup behind after a clone.
THEOREM ReapCorrect == Spec => [](TerminalMeansReaped /\ NothingLeftBehind)
<1>1. Inv => TerminalMeansReaped /\ NothingLeftBehind
  BY DEF Inv, ReapInv
<1> QED
  BY <1>1, InvCorrect, PTL

\* The order of the audit trail, whoever is killed or refused on the way.
THEOREM OrderCorrect == Spec => []LifecycleOrder
<1>1. Inv => LifecycleOrder
  BY DEF Inv, OrderInv
<1> QED
  BY <1>1, InvCorrect, PTL

\* The code run() returns agrees with the Store.
THEOREM ResultCorrect == Spec => []ResultAgreesWithStore
<1>1. Inv => ResultAgreesWithStore
  BY DEF Inv, VerdictInv, ResultAgreesWithStore
<1> QED
  BY <1>1, InvCorrect, PTL

\* The RunStatus of a run only moves forward.
THEOREM StatusCorrect == Spec => StatusMovesForward
<1>1. ASSUME Inv, Next, status' # status
      PROVE  StatusRank[status'.st] > StatusRank[status.st]
  <2>1. CreateRun \/ MarkRunning \/ MarkExited \/ MarkFailed
    BY <1>1 DEF Next, SupervisorStep, BootstrapStep, Finished, DropKill, DropGuard,
       StoreRefuses, StoreSeedManifest, AppendEvent, ApplyParent, ControlSocket, Clone,
       MapChildFromParent, MovePidToPath, Release, ReadNotice, ReadEof, ReadError,
       Terminate, WaitTerminal, AbortWait, ClosePeer, ReadGo, EnterMappedIdentity,
       SendNamespaceReady, SendIsolationReady, SendProcessStart, Send, Step, ApplyChild,
       PrepareExec, StrictKill, Execv, ReportFailure, Leave, WorkloadExits,
       KilledBySignal, SupervisorCrash, storeVars, vars
  <2>2. CASE CreateRun
    BY <1>1, <2>2 DEF Inv, StatusInv, CreateRun, StatusRank
  <2>3. CASE MarkRunning
    BY <1>1, <2>3 DEF Inv, StatusInv, Preparing, MarkRunning, UpdateRunStatus, StatusRank
  <2>4. CASE MarkExited
    BY <1>1, <2>4 DEF Inv, StatusInv, Recording, MarkExited, UpdateRunStatus, StatusRank
  <2>5. CASE MarkFailed
    BY <1>1, <2>5 DEF Inv, StatusInv, Recording, MarkFailed, UpdateRunStatus, StatusRank
  <2> QED
    BY <2>1, <2>2, <2>3, <2>4, <2>5
<1>2. Inv /\ [Next]_vars => [status' # status => StatusRank[status'.st] > StatusRank[status.st]]_vars
  BY <1>1
<1> QED
  BY <1>2, InvCorrect, PTL DEF Spec, StatusMovesForward
=============================================================================
