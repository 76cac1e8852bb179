---------------------------- MODULE LiminalOutbox ----------------------------
(***************************************************************************)
(* LiminalStore (src/src/store/liminal.rs): the bounded in-memory outbox in *)
(* front of the WebSocket to LiminalDB.  Every Store operation is one       *)
(* send_impulse under the state mutex: refuse when the outbox is full,      *)
(* queue, then flush.  The server can stop and start between and inside     *)
(* calls; a socket whose peer is gone is only discovered by writing to it.  *)
(***************************************************************************)
EXTENDS Naturals, Sequences

CONSTANTS
    MAX_PENDING_IMPULSES,  \* 1024 in the code
    MaxCalls,              \* bound on Store calls
    MaxOutages             \* bound on server stops

ASSUME OutboxAssumption ==
    /\ MAX_PENDING_IMPULSES \in Nat \ {0}
    /\ MaxCalls \in Nat /\ MaxOutages \in Nat

\* What the four Store operations send: the type of the lifecycle envelope.
Impulses == {"SEED_UPSERT", "RUN_CREATED", "EVENT", "RUN_STATUS"}

VARIABLES
    pc,        \* "idle" (mutex free), "connect" or "send"
    pending,   \* the FIFO outbox
    socket,    \* "none", "live", or "stale": the peer is gone, not yet noticed
    serverUp,
    (* history *)
    accepted,  \* impulses queued so far
    sent,      \* impulses whose WebSocket write returned Ok
    calls, outages,
    calm,      \* the server was reachable for the whole of the last call
    refused    \* the last call returned Err

vars == <<pc, pending, socket, serverUp, accepted, sent, calls, outages, calm, refused>>

\* with_url: connect, or start without a socket.
Init ==
    /\ serverUp \in BOOLEAN
    /\ socket = IF serverUp THEN "live" ELSE "none"
    /\ pc = "idle" /\ pending = <<>>
    /\ accepted = <<>> /\ sent = <<>>
    /\ calls = 0 /\ outages = 0 /\ calm = FALSE /\ refused = FALSE

-----------------------------------------------------------------------------
\* Mutant: the limit is tested one too late.
OutboxFull_Late == Len(pending) > MAX_PENDING_IMPULSES

OutboxFull == Len(pending) >= MAX_PENDING_IMPULSES

\* send_impulse, on behalf of one of the Store operations.  The limit is checked before anything is flushed.
SendImpulse(i) ==
    /\ pc = "idle" /\ calls < MaxCalls
    /\ calls' = calls + 1
    /\ calm' = (serverUp /\ socket # "stale")
    /\ IF OutboxFull
       THEN /\ refused' = TRUE
            /\ UNCHANGED <<pc, pending, accepted>>
       ELSE /\ refused' = FALSE
            /\ pending' = Append(pending, i)
            /\ accepted' = Append(accepted, i)
            /\ pc' = IF socket = "none" THEN "connect" ELSE "send"
    /\ UNCHANGED <<socket, serverUp, sent, outages>>

UpsertSeed == SendImpulse("SEED_UPSERT")
CreateRun == SendImpulse("RUN_CREATED")
AppendEvent == SendImpulse("EVENT")
UpdateRunStatus == SendImpulse("RUN_STATUS")

\* flush_pending without a socket: reconnect, or keep everything and return Ok.
Reconnect ==
    /\ pc = "connect"
    /\ IF serverUp THEN socket' = "live" /\ pc' = "send"
                   ELSE socket' = socket /\ pc' = "idle"
    /\ UNCHANGED <<pending, serverUp, accepted, sent, calls, outages, calm, refused>>

\* Mutant: one impulse per call instead of the whole backlog.
SendFront_One ==
    /\ pc = "send" /\ pending # <<>> /\ socket \in {"live", "stale"}
    /\ sent' = Append(sent, Head(pending))
    /\ pending' = Tail(pending)
    /\ pc' = "idle"
    /\ UNCHANGED <<socket, serverUp, accepted, calls, outages, calm, refused>>

\* One turn of the flush loop whose write succeeds.  Writing to a socket whose
\* peer is gone can still succeed: the kernel only buffers the frame.
SendFront ==
    /\ pc = "send" /\ pending # <<>> /\ socket \in {"live", "stale"}
    /\ sent' = Append(sent, Head(pending))
    /\ pending' = Tail(pending)
    /\ UNCHANGED <<pc, socket, serverUp, accepted, calls, outages, calm, refused>>

\* Mutant: the impulse that could not be written is dropped.
SendFails_Drops ==
    /\ pc = "send" /\ pending # <<>> /\ socket = "stale"
    /\ socket' = "none" /\ pc' = "idle"
    /\ pending' = Tail(pending)
    /\ UNCHANGED <<serverUp, accepted, sent, calls, outages, calm, refused>>

\* The write fails: drop the socket, keep the impulse, return Ok.
SendFails ==
    /\ pc = "send" /\ pending # <<>> /\ socket = "stale"
    /\ socket' = "none" /\ pc' = "idle"
    /\ UNCHANGED <<pending, serverUp, accepted, sent, calls, outages, calm, refused>>

FlushDone ==
    /\ pc = "send" /\ pending = <<>>
    /\ pc' = "idle"
    /\ UNCHANGED <<pending, socket, serverUp, accepted, sent, calls, outages, calm, refused>>

-----------------------------------------------------------------------------
(* The server *)

ServerStops ==
    /\ serverUp /\ outages < MaxOutages
    /\ serverUp' = FALSE /\ outages' = outages + 1
    /\ socket' = IF socket = "live" THEN "stale" ELSE socket
    /\ calm' = FALSE
    /\ UNCHANGED <<pc, pending, accepted, sent, calls, refused>>

ServerStarts ==
    /\ ~serverUp
    /\ serverUp' = TRUE
    /\ UNCHANGED <<pc, pending, socket, accepted, sent, calls, outages, calm, refused>>

Next ==
    \/ UpsertSeed \/ CreateRun \/ AppendEvent \/ UpdateRunStatus
    \/ Reconnect \/ SendFront \/ SendFails \/ FlushDone
    \/ ServerStops \/ ServerStarts

Spec == Init /\ [][Next]_vars

-----------------------------------------------------------------------------
(* Properties *)

\* Type correctness of the outbox.
TypeOK ==
    /\ pc \in {"idle", "connect", "send"}
    /\ pending \in Seq(Impulses)
    /\ socket \in {"none", "live", "stale"}
    /\ serverUp \in BOOLEAN /\ calm \in BOOLEAN /\ refused \in BOOLEAN
    /\ accepted \in Seq(Impulses) /\ sent \in Seq(Impulses)
    /\ calls \in Nat /\ outages \in Nat

\* No accepted impulse is lost, duplicated or reordered by the adapter,
\* whatever the socket does: it was written, or it is still queued behind
\* exactly those accepted after the last written one.
NothingLost == accepted = sent \o pending

\* The outbox never exceeds its limit.
OutboxBounded == Len(pending) <= MAX_PENDING_IMPULSES

\* flush_pending uses a socket only when it has one (the `expect`), and a live
\* socket implies a running server.
SocketConsistent ==
    /\ pc = "send" => socket # "none"
    /\ socket = "live" => serverUp

\* An accepted call made while the server is reachable replays the backlog: it
\* returns with an empty outbox.
AcceptedCallDrains == pc = "idle" /\ calm /\ ~refused => pending = <<>>

\* A call counted as made while the server was reachable still has it.
CalmMeansReachable == calm => serverUp /\ socket # "stale"

\* The inductive invariant of LiminalOutboxProofs.
Inv == TypeOK /\ NothingLost /\ OutboxBounded /\ SocketConsistent
       /\ CalmMeansReachable /\ AcceptedCallDrains

\* The adapter implements the audit log of AuditLog.tla; a refused call, a
\* reconnect and a failed write change nothing there.
Log == INSTANCE AuditLog
    WITH transported <- sent, Capacity <- MAX_PENDING_IMPULSES
ImplementsAuditLog == Log!Spec

\* docs/LIMINALDB_RECONNECT_EVIDENCE.md: payloads remain queued while LiminalDB
\* is unavailable and a later Store operation reconnects and replays the
\* backlog.  Stated for every Store operation made while it is reachable.
LaterCallReplays == pc = "idle" /\ calm => pending = <<>>
=============================================================================
