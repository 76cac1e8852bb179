-------------------------- MODULE MCCapabilityDrop --------------------------
(* A small instance of CapabilityDrop for TLC. *)
EXTENDS CapabilityDrop, TLC

\* CAP_SETPCAP, CAP_SYS_ADMIN and CAP_CHECKPOINT_RESTORE, which has the bit of
\* CAP_SETPCAP in the second word.
MCCaps == {8, 21, 40}

\* Two spellings of one capability, and a name that does not exist.
MCNumber == "SETPCAP" :> 8 @@ "CAP_SETPCAP" :> 8 @@ "SYS_ADMIN" :> 21
            @@ "CAP_CHECKPOINT_RESTORE" :> 40 @@ "SYS_EVERYTHING" :> 0 - 1
MCNames == DOMAIN MCNumber
MCUnknown == 0 - 1
=============================================================================
