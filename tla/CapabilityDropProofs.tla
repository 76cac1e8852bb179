------------------------ MODULE CapabilityDropProofs ------------------------
(***************************************************************************)
(* The inductive invariant of CapabilityDrop, for every set of capabilities, *)
(* every manifest and every number of execve calls.                         *)
(***************************************************************************)
EXTENDS CapabilityDrop, TLAPS

\* The word and the bit together identify a capability (bit_position).
LEMMA SameBitIsSame ==
    ASSUME NEW c \in Caps, NEW d \in Caps, SameBit(c, d)
    PROVE  c = d
<1>1. c \in 0..63 /\ d \in 0..63
  BY CapabilityAssumption
<1>2. c \div 32 = d \div 32 /\ c % 32 = d % 32
  BY DEF SameBit
<1> QED
  BY <1>1, <1>2

\* clear_capability_bits removes exactly the requested capabilities.
LEMMA ClearedIsDifference ==
    ASSUME TypeOK, NEW set \in SUBSET Caps
    PROVE  Cleared(set) = set \ requested
<1>1. \A c \in set, cap \in requested : SameBit(c, cap) => c = cap
  BY SameBitIsSame DEF TypeOK
<1>2. \A c \in requested : SameBit(c, c)
  BY DEF SameBit
<1> QED
  BY <1>1, <1>2 DEF Cleared

\* The sets of a task are equal when their five parts are.
LEMMA CapSetsEqual ==
    ASSUME NEW k \in CapSets, NEW l \in CapSets,
           k.effective = l.effective, k.permitted = l.permitted,
           k.inheritable = l.inheritable, k.bounding = l.bounding, k.ambient = l.ambient
    PROVE  k = l
  BY DEF CapSets

\* The invariant holds of every state the call can begin in.
LEMMA InvInit == Init => Inv
<1> SUFFICES ASSUME Init PROVE Inv
  OBVIOUS
<1>1. TypeOK
  BY CapabilityAssumption DEF Init, TypeOK, UserCapData
<1>2. ProgressInv
  BY DEF Init, ProgressInv, Untouched
<1> QED
  BY <1>1, <1>2 DEF Init, Inv, DroppedForGood, AllOrNothing, OnlyRequestedDropped

\* Every step of the call, and every later execve, keeps the types.
LEMMA TypeInductive ==
    ASSUME TypeOK, [Next]_vars
    PROVE  TypeOK'
<1> USE DEF TypeOK
<1>1. CASE SyscallFails
  BY <1>1 DEF SyscallFails, Return
<1>2. CASE ParsePolicy
  <2>1. (\A n \in manifest : Known(n)) => {Number[n] : n \in manifest} \subseteq Caps
    BY CapabilityAssumption DEF Known
  <2> QED
    BY <1>2, <2>1 DEF ParsePolicy, Return
<1>3. CASE capget_current
  BY <1>3 DEF capget_current, CapSets, UserCapData
<1>4. CASE Preflight
  BY <1>4 DEF Preflight, Return, Phases
<1>5. CASE drop_bounding
  BY <1>5 DEF drop_bounding, Return, CapSets
<1>6. CASE lower_ambient
  BY <1>6 DEF lower_ambient, CapSets
<1>7. ASSUME NEW p \in {"bounding", "ambient"}, LeavePhase(p) PROVE TypeOK'
  <2>1. NextPhase("bounding") = "ambient" /\ NextPhase("ambient") = "capset"
    BY DEF NextPhase, Phases
  <2> QED
    BY <1>7, <2>1 DEF LeavePhase
<1>8. CASE capset_current
  <2>1. NextPhase("capset") = "verify"
    BY DEF NextPhase, Phases
  <2>2. \A set \in SUBSET Caps : Cleared(set) \subseteq Caps
    BY DEF Cleared
  <2>3. data.effective \subseteq Caps /\ data.permitted \subseteq Caps
        /\ data.inheritable \subseteq Caps
    BY DEF UserCapData
  <2>4. kernel' \in CapSets
    BY <1>8, <2>2, <2>3 DEF capset_current, CapSets
  <2>5. data' \in UserCapData
    BY <1>8, <2>2, <2>3 DEF capset_current, UserCapData
  <2> QED
    BY <1>8, <2>1, <2>4, <2>5 DEF capset_current
<1>9. CASE Verify
  BY <1>9 DEF Verify, Return
<1>10. ASSUME NEW fp \in SUBSET Caps, NEW fi \in SUBSET Caps, NEW fe \in BOOLEAN,
              Execve(fp, fi, fe)
       PROVE  TypeOK'
  <2>1. kernel' \in CapSets
    BY <1>10 DEF Execve, CapSets
  <2> QED
    BY <1>10, <2>1 DEF Execve
<1>11. CASE UNCHANGED vars
  BY <1>11 DEF vars
<1> QED
  BY <1>1, <1>2, <1>3, <1>4, <1>5, <1>6, <1>7, <1>8, <1>9, <1>10, <1>11
     DEF Next, Finished

\* The five conjuncts of the invariant apart from the types.
Rest == ProgressInv /\ DroppedForGood /\ AllOrNothing /\ OnlyRequestedDropped

\* A step before the end of the call leaves the three results vacuous.
LEMMA StillRunning ==
    ASSUME result' = "none"
    PROVE  DroppedForGood' /\ AllOrNothing' /\ OnlyRequestedDropped'
  BY DEF DroppedForGood, AllOrNothing, OnlyRequestedDropped

\* Validation: nothing has been touched, and an accepted policy names only
\* capabilities that exist.
LEMMA PolicyStep ==
    ASSUME Inv, TypeOK', ParsePolicy \/ capget_current \/ Preflight
    PROVE  Rest'
<1> USE DEF Inv, Rest
<1>1. CASE ParsePolicy
  <2>1. CASE manifest = {} /\ Return("Ok") /\ UNCHANGED requested
    <3>1. pc = "parse" /\ kernel = start /\ kernel' = kernel /\ start' = start
          /\ result' = "Ok" /\ pc' = "done" /\ manifest' = {} /\ execs' = execs
          /\ requested' = requested /\ todo' = todo /\ data' = data
      BY <1>1, <2>1 DEF ParsePolicy, Return, ProgressInv, Untouched
    <3>2. requested = {}
      BY <3>1 DEF ProgressInv
    <3>3. kernel' = Without(start', requested')
      BY <3>1, <3>2, CapSetsEqual DEF TypeOK, CapSets, Without
    <3>4. ProgressInv'
      BY <3>1, <3>2 DEF ProgressInv, Untouched
    <3> QED
      BY <3>1, <3>3, <3>4 DEF DroppedForGood, AllOrNothing, OnlyRequestedDropped
  <2>2. CASE /\ manifest # {} /\ (\A n \in manifest : Known(n))
             /\ requested' = {Number[n] : n \in manifest}
             /\ pc' = "capget" /\ UNCHANGED result
    <3>1. result' = "none"
      BY <1>1, <2>2 DEF ParsePolicy, ProgressInv
    <3>2. ProgressInv'
      BY <1>1, <2>2, <3>1 DEF ParsePolicy, ProgressInv, Untouched, Known
    <3> QED
      BY <3>1, <3>2, StillRunning
  <2>3. CASE (\E n \in manifest : ~Known(n)) /\ Return("Err") /\ UNCHANGED requested
    <3>1. ProgressInv'
      BY <1>1, <2>3 DEF ParsePolicy, ProgressInv, Untouched, Return
    <3>2. kernel' = start'
      BY <1>1 DEF ParsePolicy, ProgressInv, Untouched
    <3> QED
      BY <3>1, <3>2, <2>3 DEF Return, DroppedForGood, AllOrNothing, OnlyRequestedDropped
  <2> QED
    BY <1>1, <2>1, <2>2, <2>3 DEF ParsePolicy
<1>2. CASE capget_current
  <2>1. result' = "none"
    BY <1>2 DEF capget_current, ProgressInv
  <2>2. ProgressInv'
    BY <1>2, <2>1 DEF capget_current, ProgressInv, Untouched, Known
  <2> QED
    BY <2>1, <2>2, StillRunning
<1>3. CASE Preflight
  <2>1. kernel' = start' /\ kernel' = kernel /\ start' = start /\ result = "none"
    BY <1>3 DEF Preflight, ProgressInv, Untouched
  <2>2. CASE requested \cap kernel.bounding # {} /\ CAP_SETPCAP \notin data.effective
    <3>1. pc' = "done" /\ result' = "Err"
      BY <1>3, <2>2 DEF Preflight, Return
    <3>2. ProgressInv'
      BY <1>3, <2>1, <3>1 DEF Preflight, ProgressInv, Untouched
    <3> QED
      BY <2>1, <3>1, <3>2 DEF DroppedForGood, AllOrNothing, OnlyRequestedDropped
  <2>3. CASE ~(requested \cap kernel.bounding # {} /\ CAP_SETPCAP \notin data.effective)
    <3>1. pc' = "bounding" /\ todo' = requested /\ result' = "none"
      BY <1>3, <2>1, <2>3 DEF Preflight, Phases
    <3>2. kernel' = [start EXCEPT !.bounding = @ \ {}]
      BY <2>1 DEF TypeOK, CapSets
    <3>3. requested \cap kernel.bounding # {} => CAP_SETPCAP \in kernel.effective
      BY <1>3, <2>1, <2>3 DEF Preflight, ProgressInv
    <3>4. UNCHANGED <<manifest, requested, data, start, failed, execs>> /\ pc = "preflight"
      BY <1>3 DEF Preflight
    <3>5. requested \ todo' = {}
      BY <3>1
    <3>6. kernel' = [start EXCEPT !.bounding = @ \ (requested \ todo')]
      BY <3>2, <3>5
    <3>7. ProgressInv'
      BY <2>1, <3>1, <3>3, <3>4, <3>6 DEF ProgressInv, Untouched, Known
    <3> QED
      BY <3>1, <3>7, StillRunning
  <2> QED
    BY <2>2, <2>3
<1> QED
  BY <1>1, <1>2, <1>3

\* The loop over the bounding set: the preflight's authority is never lost on
\* the way, so the loop cannot stop half-way for lack of it.
LEMMA BoundingStep ==
    ASSUME Inv, TypeOK', drop_bounding
    PROVE  Rest'
<1> USE DEF Inv, Rest
<1>1. PICK c \in Caps :
        /\ IsNext(c)
        /\ IF c \in kernel.bounding /\ CAP_SETPCAP \notin kernel.effective
           THEN Return("Err") /\ UNCHANGED <<kernel, todo>>
           ELSE /\ kernel' = [kernel EXCEPT !.bounding = @ \ {c}]
                /\ todo' = todo \ {c}
                /\ UNCHANGED <<pc, result>>
  BY DEF drop_bounding
<1>2. pc = "bounding" /\ UNCHANGED <<manifest, requested, data, start, failed, execs>>
  BY DEF drop_bounding
<1>3. /\ requested \cap kernel.bounding # {} => CAP_SETPCAP \in kernel.effective
      /\ todo \subseteq requested /\ result = "none"
      /\ kernel = [start EXCEPT !.bounding = @ \ (requested \ todo)]
  BY <1>2 DEF ProgressInv
<1>4. c \in todo
  BY <1>1 DEF IsNext
<1>5. /\ kernel' = [kernel EXCEPT !.bounding = @ \ {c}] /\ todo' = todo \ {c}
      /\ pc' = "bounding" /\ result' = "none"
  BY <1>1, <1>2, <1>3, <1>4
<1>6. requested \ todo' = (requested \ todo) \cup {c}
  BY <1>3, <1>4, <1>5
<1>7. kernel' = [start EXCEPT !.bounding = @ \ (requested \ todo')]
  <2>1. kernel'.bounding = start.bounding \ (requested \ todo')
    BY <1>3, <1>5, <1>6 DEF TypeOK, CapSets
  <2> QED
    BY <1>3, <1>5, <2>1 DEF TypeOK, CapSets
<1>8. /\ requested \cap kernel'.bounding # {} => CAP_SETPCAP \in kernel'.effective
      /\ todo' \subseteq requested
  BY <1>3, <1>5 DEF TypeOK, CapSets
<1>9. ProgressInv'
  BY <1>2, <1>5, <1>7, <1>8 DEF ProgressInv, Untouched, Known
<1> QED
  BY <1>5, <1>9, StillRunning

\* The loop over the ambient set.
LEMMA AmbientStep ==
    ASSUME Inv, TypeOK', lower_ambient
    PROVE  Rest'
<1> USE DEF Inv, Rest
<1>1. PICK c \in Caps :
        /\ IsNext(c)
        /\ kernel' = [kernel EXCEPT !.ambient = @ \ {c}]
        /\ todo' = todo \ {c}
  BY DEF lower_ambient
<1>2. pc = "ambient" /\ UNCHANGED <<manifest, pc, requested, data, result, start, failed, execs>>
  BY DEF lower_ambient
<1>3. /\ todo \subseteq requested /\ result = "none"
      /\ kernel = [start EXCEPT !.bounding = @ \ requested, !.ambient = @ \ (requested \ todo)]
  BY <1>2 DEF ProgressInv
<1>4. requested \ todo' = (requested \ todo) \cup {c} /\ todo' \subseteq requested
  BY <1>1, <1>3 DEF IsNext
<1>5. kernel' = [start EXCEPT !.bounding = @ \ requested, !.ambient = @ \ (requested \ todo')]
  <2>1. kernel'.ambient = start.ambient \ (requested \ todo')
    BY <1>1, <1>3, <1>4 DEF TypeOK, CapSets
  <2> QED
    BY <1>1, <1>3, <2>1 DEF TypeOK, CapSets
<1>6. ProgressInv'
  BY <1>2, <1>3, <1>4, <1>5 DEF ProgressInv, Untouched, Known
<1> QED
  BY <1>2, <1>3, <1>6, StillRunning

\* The end of a loop: everything requested has been visited.
LEMMA LeaveStep ==
    ASSUME Inv, TypeOK', LeavePhase("bounding") \/ LeavePhase("ambient")
    PROVE  Rest'
<1> USE DEF Inv, Rest
<1>1. NextPhase("bounding") = "ambient" /\ NextPhase("ambient") = "capset"
  BY DEF NextPhase, Phases
<1>2. /\ todo = {} /\ todo' = requested /\ result = "none"
      /\ UNCHANGED <<manifest, requested, data, kernel, result, start, failed, execs>>
  BY DEF LeavePhase, ProgressInv
<1>3. CASE LeavePhase("bounding")
  <2>1. pc = "bounding" /\ pc' = "ambient"
    BY <1>1, <1>3 DEF LeavePhase
  <2>2. kernel = [start EXCEPT !.bounding = @ \ (requested \ todo)]
    BY <2>1 DEF ProgressInv
  <2>3. kernel' = [start EXCEPT !.bounding = @ \ requested, !.ambient = @ \ (requested \ todo')]
    <3>1. requested \ todo = requested /\ requested \ todo' = {}
      BY <1>2
    <3>2. kernel.bounding = start.bounding \ requested
          /\ kernel.ambient = start.ambient \ (requested \ todo')
      BY <2>2, <3>1 DEF TypeOK, CapSets
    <3> QED
      BY <1>2, <2>2, <3>2 DEF TypeOK, CapSets
  <2>4. ProgressInv'
    BY <1>2, <2>1, <2>3 DEF ProgressInv, Untouched, Known
  <2> QED
    BY <1>2, <2>4, StillRunning
<1>4. CASE LeavePhase("ambient")
  <2>1. pc = "ambient" /\ pc' = "capset"
    BY <1>1, <1>4 DEF LeavePhase
  <2>2. kernel = [start EXCEPT !.bounding = @ \ requested, !.ambient = @ \ (requested \ todo)]
    BY <2>1 DEF ProgressInv
  <2>3. kernel' = [start EXCEPT !.bounding = @ \ requested, !.ambient = @ \ requested]
    BY <1>2, <2>2
  <2>4. ProgressInv'
    BY <1>2, <2>1, <2>3 DEF ProgressInv, Untouched, Known
  <2> QED
    BY <1>2, <2>4, StillRunning
<1> QED
  BY <1>3, <1>4

\* The one capset: exactly the requested bits are cleared, in both words.
LEMMA CapsetStep ==
    ASSUME Inv, TypeOK', capset_current
    PROVE  Rest'
<1> USE DEF Inv, Rest
<1>1. NextPhase("capset") = "verify"
  BY DEF NextPhase, Phases
<1>2. /\ pc = "capset" /\ pc' = "verify" /\ result = "none"
      /\ UNCHANGED <<manifest, requested, result, start, failed, execs>>
  BY <1>1 DEF capset_current, ProgressInv
<1>3. /\ kernel = [start EXCEPT !.bounding = @ \ requested, !.ambient = @ \ requested]
      /\ data = [effective |-> start.effective, permitted |-> start.permitted,
                 inheritable |-> start.inheritable]
      /\ KernelRules(start)
  BY <1>2 DEF ProgressInv
<1>4. /\ Cleared(data.effective) = start.effective \ requested
      /\ Cleared(data.permitted) = start.permitted \ requested
      /\ Cleared(data.inheritable) = start.inheritable \ requested
  BY <1>3, ClearedIsDifference DEF TypeOK, CapSets
<1>5. /\ kernel'.effective = start.effective \ requested
      /\ kernel'.permitted = start.permitted \ requested
      /\ kernel'.inheritable = start.inheritable \ requested
      /\ kernel'.bounding = start.bounding \ requested
  BY <1>3, <1>4 DEF capset_current, TypeOK, CapSets
<1>6. kernel'.ambient = start.ambient \ requested
  <2>1. kernel'.ambient = (start.ambient \ requested)
            \cap (start.permitted \ requested) \cap (start.inheritable \ requested)
    BY <1>3, <1>4 DEF capset_current, TypeOK, CapSets
  <2> QED
    BY <1>3, <2>1 DEF KernelRules
<1>7. kernel' = Without(start', requested')
  BY <1>2, <1>5, <1>6 DEF TypeOK, CapSets, Without
<1>8. ProgressInv'
  BY <1>2, <1>7 DEF ProgressInv, Untouched, Known
<1> QED
  BY <1>2, <1>8, StillRunning

\* The re-read never finds a requested capability left.
LEMMA VerifyStep ==
    ASSUME Inv, TypeOK', Verify
    PROVE  Rest'
<1> USE DEF Inv, Rest
<1>1. /\ pc = "verify" /\ kernel = Without(start, requested)
      /\ (\A n \in manifest : Known(n)) /\ requested = {Number[n] : n \in manifest}
  BY DEF Verify, ProgressInv
<1>2. requested \cap Held(kernel) = {}
  BY <1>1 DEF Held, Without
<1>3. /\ pc' = "done" /\ result' = "Ok"
      /\ UNCHANGED <<manifest, todo, requested, data, kernel, start, failed, execs>>
  BY <1>2 DEF Verify, Return
<1>4. manifest = {} => requested = {}
  BY <1>1
<1>5. ProgressInv'
  BY <1>1, <1>3, <1>4 DEF ProgressInv, Untouched, Known
<1>6. DroppedForGood'
  BY <1>1, <1>2, <1>3 DEF DroppedForGood, Known, Held
<1> QED
  BY <1>1, <1>3, <1>5, <1>6 DEF AllOrNothing, OnlyRequestedDropped

\* A failing system call.
LEMMA FailStep ==
    ASSUME Inv, TypeOK', SyscallFails
    PROVE  Rest'
<1>1. /\ pc # "done" /\ pc' = "done" /\ result' = "Err" /\ failed'
      /\ UNCHANGED <<manifest, todo, requested, data, kernel, start, execs>>
  BY DEF SyscallFails, Return
<1>2. execs' = 0 \/ ~(execs' > 0)
  BY <1>1 DEF Inv, ProgressInv
<1>3. ProgressInv'
  BY <1>1, <1>2 DEF Inv, ProgressInv, Untouched
<1> QED
  BY <1>1, <1>3 DEF Rest, DroppedForGood, AllOrNothing, OnlyRequestedDropped

\* A later execve draws only on sets the requested capabilities are absent from.
LEMMA ExecveStep ==
    ASSUME Inv, TypeOK', NEW fp \in SUBSET Caps, NEW fi \in SUBSET Caps,
           NEW fe \in BOOLEAN, Execve(fp, fi, fe)
    PROVE  Rest'
<1>1. /\ pc = "done" /\ result = "Ok" /\ execs' = execs + 1 /\ execs \in Nat
      /\ UNCHANGED <<manifest, pc, todo, requested, data, result, start, failed>>
  BY DEF Execve, Inv, TypeOK
<1>2. Held(kernel') \subseteq Held(kernel)
  BY DEF Execve, Held, Inv, TypeOK, CapSets
<1>3. ProgressInv'
  BY <1>1 DEF Inv, ProgressInv, Untouched, Known
<1>4. DroppedForGood'
  BY <1>1, <1>2 DEF Inv, DroppedForGood, Known
<1> QED
  BY <1>1, <1>3, <1>4 DEF Rest, AllOrNothing, OnlyRequestedDropped

\* The induction step, one case per action.
LEMMA InvInductive == Inv /\ [Next]_vars => Inv'
<1> SUFFICES ASSUME Inv, [Next]_vars PROVE Inv'
  OBVIOUS
<1>1. TypeOK'
  BY TypeInductive DEF Inv
<1>2. CASE UNCHANGED vars
  BY <1>2 DEF vars, Inv, TypeOK, ProgressInv, Untouched, Known, KernelRules, Without,
     DroppedForGood, Held, AllOrNothing, OnlyRequestedDropped
<1>3. Next /\ ~UNCHANGED vars => Rest'
  BY <1>1, PolicyStep, BoundingStep, AmbientStep, LeaveStep, CapsetStep, VerifyStep,
     FailStep, ExecveStep DEF Next, Finished
<1> QED
  BY <1>1, <1>2, <1>3 DEF Inv, Rest

\* The invariant: how far each of the five sets has been lowered at each point
\* of drop_capabilities, and what its result means.
THEOREM InvCorrect == Spec => []Inv
  BY InvInit, InvInductive, PTL DEF Spec

\* After Ok no capability the manifest names is held, or is ever regained
\* through execve.
THEOREM DropCorrect == Spec => []DroppedForGood
<1>1. Inv => DroppedForGood
  BY DEF Inv
<1> QED
  BY <1>1, InvCorrect, PTL

\* An Err of the call's own making leaves every set as it was.
THEOREM AllOrNothingCorrect == Spec => []AllOrNothing
<1>1. Inv => AllOrNothing
  BY DEF Inv
<1> QED
  BY <1>1, InvCorrect, PTL

\* An Ok takes nothing but what was asked for.
THEOREM ExactCorrect == Spec => []OnlyRequestedDropped
<1>1. Inv => OnlyRequestedDropped
  BY DEF Inv
<1> QED
  BY <1>1, InvCorrect, PTL
=============================================================================
