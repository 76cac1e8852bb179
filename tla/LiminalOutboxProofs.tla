------------------------- MODULE LiminalOutboxProofs -------------------------
(***************************************************************************)
(* Proofs about LiminalOutbox for every outbox limit and every number of    *)
(* calls and outages.                                                       *)
(***************************************************************************)
EXTENDS LiminalOutbox, TLAPS

\* Moving the front of a queue to the end of a log leaves their concatenation
\* as it is: pop_front after the write reorders nothing.
LEMMA FrontMoves ==
    ASSUME NEW S, NEW s \in Seq(S), NEW p \in Seq(S), p # <<>>
    PROVE  /\ Append(s, Head(p)) \o Tail(p) = s \o p
           /\ (s \o p)[Len(s) + 1] = Head(p)
           /\ Len(s \o p) = Len(s) + Len(p) /\ Len(p) > 0
OBVIOUS

\* A step of the adapter is one of the four Store calls, all of them
\* send_impulse, or a step of the flush loop or of the server.
LEMMA NextCases ==
    Next => \/ \E i \in Impulses : SendImpulse(i)
            \/ Reconnect \/ SendFront \/ SendFails \/ FlushDone
            \/ ServerStops \/ ServerStarts
BY Zenon DEF Next, Impulses, UpsertSeed, CreateRun, AppendEvent, UpdateRunStatus

\* The inductive invariant holds once with_url has returned.
LEMMA InvInit == Init => Inv
<1> SUFFICES ASSUME Init PROVE Inv
  OBVIOUS
<1>1. TypeOK
  <2>1. /\ pending \in Seq(Impulses) /\ accepted \in Seq(Impulses) /\ sent \in Seq(Impulses)
        /\ calls \in Nat /\ outages \in Nat
    BY DEF Init
  <2>2. pc \in {"idle", "connect", "send"} /\ socket \in {"none", "live", "stale"}
    BY DEF Init
  <2>3. serverUp \in BOOLEAN /\ calm \in BOOLEAN /\ refused \in BOOLEAN
    BY Zenon DEF Init
  <2> QED
    BY <2>1, <2>2, <2>3 DEF TypeOK
<1>2. NothingLost /\ OutboxBounded
  BY OutboxAssumption DEF Init, NothingLost, OutboxBounded
<1>3. SocketConsistent /\ CalmMeansReachable /\ AcceptedCallDrains
  BY DEF Init, SocketConsistent, CalmMeansReachable, AcceptedCallDrains
<1> QED
  BY <1>1, <1>2, <1>3 DEF Inv

\* The inductive invariant is preserved by every step, one case per action.
LEMMA InvInductive == Inv /\ [Next]_vars => Inv'
<1> SUFFICES ASSUME Inv PROVE [Next]_vars => Inv'
  OBVIOUS
<1>1. ASSUME NEW i \in Impulses, SendImpulse(i) PROVE Inv'
  <2>1. TypeOK'
    <3>1. pc' \in {"idle", "connect", "send"} /\ calls' \in Nat
      BY <1>1 DEF Inv, TypeOK, SendImpulse
    <3>3. pending' \in Seq(Impulses) /\ accepted' \in Seq(Impulses)
      <4>1. pending \in Seq(Impulses) /\ accepted \in Seq(Impulses)
        BY DEF Inv, TypeOK
      <4>2. Append(pending, i) \in Seq(Impulses) /\ Append(accepted, i) \in Seq(Impulses)
        BY <1>1, <4>1
      <4> QED
        BY <1>1, <4>1, <4>2 DEF SendImpulse
    <3>2. calm' \in BOOLEAN /\ refused' \in BOOLEAN
      BY <1>1, Zenon DEF SendImpulse
    <3> QED
      BY <1>1, <3>1, <3>2, <3>3 DEF Inv, TypeOK, SendImpulse
  <2>2. NothingLost'
    <3>1. CASE OutboxFull
      BY <1>1, <3>1 DEF Inv, NothingLost, SendImpulse
    <3>2. CASE ~OutboxFull
      <4>1. /\ pending' = Append(pending, i) /\ accepted' = Append(accepted, i)
            /\ sent' = sent
        BY <1>1, <3>2 DEF SendImpulse
      <4>2. sent \in Seq(Impulses) /\ pending \in Seq(Impulses) /\ i \in Impulses
        BY <1>1 DEF Inv, TypeOK
      <4>3. Append(sent \o pending, i) = sent \o Append(pending, i)
        BY <4>2
      <4> QED
        BY <4>1, <4>3 DEF Inv, NothingLost
    <3> QED
      BY <3>1, <3>2
  <2>3. OutboxBounded'
    BY <1>1, OutboxAssumption DEF Inv, TypeOK, OutboxBounded, SendImpulse, OutboxFull
  <2>4. SocketConsistent' /\ CalmMeansReachable' /\ AcceptedCallDrains'
    BY <1>1 DEF Inv, TypeOK, SocketConsistent, CalmMeansReachable, AcceptedCallDrains,
       SendImpulse
  <2> QED
    BY <2>1, <2>2, <2>3, <2>4 DEF Inv
<1>2. CASE Reconnect
  BY <1>2 DEF Inv, TypeOK, NothingLost, OutboxBounded, SocketConsistent,
     CalmMeansReachable, AcceptedCallDrains, Reconnect
<1>3. CASE SendFront
  <2>1. TypeOK'
    BY <1>3 DEF Inv, TypeOK, SendFront
  <2>2. NothingLost'
    BY <1>3, FrontMoves DEF Inv, TypeOK, NothingLost, SendFront
  <2>3. OutboxBounded'
    BY <1>3, OutboxAssumption DEF Inv, TypeOK, OutboxBounded, SendFront
  <2>4. SocketConsistent' /\ CalmMeansReachable' /\ AcceptedCallDrains'
    BY <1>3 DEF Inv, SocketConsistent, CalmMeansReachable, AcceptedCallDrains, SendFront
  <2> QED
    BY <2>1, <2>2, <2>3, <2>4 DEF Inv
<1>4. CASE SendFails
  BY <1>4 DEF Inv, TypeOK, NothingLost, OutboxBounded, SocketConsistent,
     CalmMeansReachable, AcceptedCallDrains, SendFails
<1>5. CASE FlushDone
  BY <1>5 DEF Inv, TypeOK, NothingLost, OutboxBounded, SocketConsistent,
     CalmMeansReachable, AcceptedCallDrains, FlushDone
<1>6. CASE ServerStops
  <2>1. TypeOK'
    <3>1. socket' \in {"none", "live", "stale"} /\ outages' \in Nat
      BY <1>6 DEF Inv, TypeOK, ServerStops
    <3> QED
      BY <1>6, <3>1 DEF Inv, TypeOK, ServerStops
  <2>2. NothingLost' /\ OutboxBounded'
    BY <1>6 DEF Inv, NothingLost, OutboxBounded, ServerStops
  <2>3. SocketConsistent' /\ CalmMeansReachable' /\ AcceptedCallDrains'
    BY <1>6 DEF Inv, SocketConsistent, CalmMeansReachable, AcceptedCallDrains, ServerStops
  <2> QED
    BY <2>1, <2>2, <2>3 DEF Inv
<1>7. CASE ServerStarts
  BY <1>7 DEF Inv, TypeOK, NothingLost, OutboxBounded, SocketConsistent,
     CalmMeansReachable, AcceptedCallDrains, ServerStarts
<1>8. CASE UNCHANGED vars
  BY <1>8 DEF Inv, TypeOK, NothingLost, OutboxBounded, SocketConsistent,
     CalmMeansReachable, AcceptedCallDrains, vars
<1> QED
  BY <1>1, <1>2, <1>3, <1>4, <1>5, <1>6, <1>7, <1>8, NextCases

\* The inductive invariant holds in every state of the adapter.
THEOREM InvCorrect == Spec => []Inv
BY InvInit, InvInductive, PTL DEF Spec

\* No accepted impulse is lost, duplicated or reordered by the adapter, and the
\* outbox stays within its limit, whatever the server does.
THEOREM OutboxCorrect == Spec => [](NothingLost /\ OutboxBounded)
<1>1. Inv => NothingLost /\ OutboxBounded
  BY DEF Inv
<1> QED
  BY <1>1, InvCorrect, PTL

\* The `expect` in the flush loop never fires, and an accepted call made while
\* the server is reachable returns with an empty outbox.
THEOREM FlushCorrect == Spec => [](SocketConsistent /\ AcceptedCallDrains)
<1>1. Inv => SocketConsistent /\ AcceptedCallDrains
  BY DEF Inv
<1> QED
  BY <1>1, InvCorrect, PTL

\* The adapter implements the audit log: every step is an Accept, a Transport
\* or changes nothing there.
THEOREM OutboxRefinesAuditLog == Spec => ImplementsAuditLog
<1>1. Init => Log!Init
  BY DEF Init, Log!Init
<1>2. ASSUME Inv, [Next]_vars PROVE [Log!Next]_<<accepted, sent>>
  <2>1. ASSUME NEW i \in Impulses, SendImpulse(i), ~OutboxFull PROVE Log!Accept
    <3>1. Len(accepted) - Len(sent) = Len(pending)
      BY <1>2 DEF Inv, TypeOK, NothingLost
    <3>2. Len(accepted) - Len(sent) < MAX_PENDING_IMPULSES
      BY <1>2, <2>1, <3>1, OutboxAssumption DEF Inv, TypeOK, OutboxFull
    <3> QED
      BY <2>1, <3>2 DEF SendImpulse, Log!Accept
  <2>2. ASSUME NEW i \in Impulses, SendImpulse(i), OutboxFull
        PROVE  UNCHANGED <<accepted, sent>>
    BY <2>2 DEF SendImpulse
  <2>3. ASSUME SendFront PROVE Log!Transport
    <3>1. Len(sent) < Len(accepted) /\ accepted[Len(sent) + 1] = Head(pending)
      BY <1>2, <2>3, FrontMoves DEF Inv, TypeOK, NothingLost, SendFront
    <3> QED
      BY <2>3, <3>1 DEF SendFront, Log!Transport
  <2>4. ASSUME Reconnect \/ SendFails \/ FlushDone \/ ServerStops \/ ServerStarts
               \/ UNCHANGED vars
        PROVE  UNCHANGED <<accepted, sent>>
    BY <2>4 DEF Reconnect, SendFails, FlushDone, ServerStops, ServerStarts, vars
  <2> QED
    BY <1>2, <2>1, <2>2, <2>3, <2>4, NextCases DEF Log!Next
<1> QED
  BY <1>1, <1>2, InvCorrect, PTL DEF Spec, ImplementsAuditLog, Log!Spec
=============================================================================
