------------------------------- MODULE AuditLog -------------------------------
(***************************************************************************)
(* What the LiminalDB adapter promises its callers, without its queue, its  *)
(* socket or the server: a Store call is accepted or refused as a whole;    *)
(* accepted impulses are handed to the transport one by one, each exactly   *)
(* once, in the order they were accepted; and at most Capacity accepted     *)
(* impulses wait at any time.                                              *)
(***************************************************************************)
EXTENDS Naturals, Sequences

CONSTANTS Impulses, Capacity

VARIABLES accepted, transported

Init == accepted = <<>> /\ transported = <<>>

Accept ==
    /\ Len(accepted) - Len(transported) < Capacity
    /\ \E i \in Impulses : accepted' = Append(accepted, i)
    /\ UNCHANGED transported

Transport ==
    /\ Len(transported) < Len(accepted)
    /\ transported' = Append(transported, accepted[Len(transported) + 1])
    /\ UNCHANGED accepted

Next == Accept \/ Transport

Spec == Init /\ [][Next]_<<accepted, transported>>
=============================================================================
