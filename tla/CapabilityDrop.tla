--------------------------- MODULE CapabilityDrop ---------------------------
(***************************************************************************)
(* drop_capabilities (src/src/isolate/caps.rs) against the five capability  *)
(* sets the kernel keeps for the calling task, followed by any number of    *)
(* execve(2) calls of the workload.                                         *)
(*                                                                         *)
(* The call validates the whole policy, checks that it may change the       *)
(* bounding set, and then runs the phases of Phases over the requested      *)
(* capabilities in ascending order.  Any system call can fail.              *)
(***************************************************************************)
EXTENDS Integers, Sequences

CONSTANTS
    Caps,       \* the capability numbers the kernel keeps bits for
    Names,      \* the names a manifest may use
    Number,     \* cap_name_to_num after trimming, upper-casing and prefixing
    Unknown,    \* what it gives for a name it does not know
    LastCap,    \* /proc/sys/kernel/cap_last_cap
    MaxExecs,   \* bound on execve calls
    KernelFails \* system calls may fail

CAP_SETPCAP == 8

ASSUME CapabilityAssumption ==
    /\ Caps \subseteq 0..63 /\ CAP_SETPCAP \in Caps
    /\ Unknown \notin Caps
    /\ Number \in [Names -> Caps \cup {Unknown}]
    /\ LastCap \in Nat /\ MaxExecs \in Nat
    /\ KernelFails \in BOOLEAN

VARIABLES
    manifest,     \* security.drop_caps
    pc, todo,     \* the phase, and what its loop has still to visit
    requested,    \* the BTreeSet of capability numbers
    data,         \* the [UserCapData; 2] read by capget
    kernel,       \* the task's capability sets
    result,       \* "none", "Ok" or "Err"
    (* history *)
    start,        \* the sets when the call began
    failed,       \* a system call has failed
    execs

vars == <<manifest, pc, todo, requested, data, kernel, result, start, failed, execs>>

CapSets == [effective : SUBSET Caps, permitted : SUBSET Caps,
            inheritable : SUBSET Caps, bounding : SUBSET Caps, ambient : SUBSET Caps]
UserCapData == [effective : SUBSET Caps, permitted : SUBSET Caps, inheritable : SUBSET Caps]

\* What the kernel maintains for every task.
KernelRules(k) ==
    /\ k.effective \subseteq k.permitted
    /\ k.ambient \subseteq k.permitted \cap k.inheritable

\* The mutants below stand for the program with one step got wrong.
Phases_CapsetFirst == <<"capset", "bounding", "ambient", "verify">>

\* Bounding first, then ambient, then one capset, then the re-read.
Phases == <<"bounding", "ambient", "capset", "verify">>

Init ==
    /\ manifest \in SUBSET Names
    /\ kernel \in CapSets /\ KernelRules(kernel)
    /\ pc = "parse" /\ todo = {} /\ requested = {}
    /\ data = [effective |-> {}, permitted |-> {}, inheritable |-> {}]
    /\ result = "none"
    /\ start = kernel /\ failed = FALSE /\ execs = 0

-----------------------------------------------------------------------------
(* Leaving the call *)

Return(r) == pc' = "done" /\ result' = r

\* A system call or a read under /proc fails; the error is propagated by `?`.
SyscallFails ==
    /\ KernelFails
    /\ pc \notin {"done"}
    /\ Return("Err")
    /\ failed' = TRUE
    /\ UNCHANGED <<manifest, todo, requested, data, kernel, start, execs>>

-----------------------------------------------------------------------------
(* Before anything is changed *)

Known(n) == Number[n] # Unknown /\ Number[n] <= LastCap

\* Unknown names are skipped instead of failing closed.
ParsePolicy_SkipsUnknown ==
    /\ pc = "parse"
    /\ requested' = {Number[n] : n \in {m \in manifest : Known(m)}}
    /\ pc' = "capget" /\ UNCHANGED result
    /\ UNCHANGED <<manifest, todo, data, kernel, start, failed, execs>>

\* parse_capability for every name; two spellings of a name are one number.
ParsePolicy ==
    /\ pc = "parse"
    /\ \/ /\ manifest = {}
          /\ Return("Ok") /\ UNCHANGED requested
       \/ /\ manifest # {} /\ (\A n \in manifest : Known(n))
          /\ requested' = {Number[n] : n \in manifest}
          /\ pc' = "capget" /\ UNCHANGED result
       \/ /\ \E n \in manifest : ~Known(n)
          /\ Return("Err") /\ UNCHANGED requested
    /\ UNCHANGED <<manifest, todo, data, kernel, start, failed, execs>>

capget_current ==
    /\ pc = "capget"
    /\ data' = [effective |-> kernel.effective, permitted |-> kernel.permitted,
                inheritable |-> kernel.inheritable]
    /\ pc' = "preflight"
    /\ UNCHANGED <<manifest, todo, requested, kernel, result, start, failed, execs>>

\* needs_bounding_drop and the check of CAP_SETPCAP.
Preflight ==
    /\ pc = "preflight"
    /\ IF requested \cap kernel.bounding # {} /\ CAP_SETPCAP \notin data.effective
       THEN Return("Err") /\ UNCHANGED todo
       ELSE pc' = Phases[1] /\ todo' = requested /\ UNCHANGED result
    /\ UNCHANGED <<manifest, requested, data, kernel, start, failed, execs>>

-----------------------------------------------------------------------------
(* The phases *)

NextPhase(p) == LET i == CHOOSE i \in 1..3 : Phases[i] = p IN Phases[i + 1]

LeavePhase(p) ==
    /\ pc = p /\ todo = {}
    /\ pc' = NextPhase(p) /\ todo' = requested
    /\ UNCHANGED <<manifest, requested, data, kernel, result, start, failed, execs>>

\* The loops run over a BTreeSet, in ascending order.
IsNext(c) == c \in todo /\ \A d \in todo : c <= d

\* PR_CAPBSET_DROP is refused without CAP_SETPCAP in the effective set.
drop_bounding ==
    /\ pc = "bounding"
    /\ \E c \in Caps :
          /\ IsNext(c)
          /\ IF c \in kernel.bounding /\ CAP_SETPCAP \notin kernel.effective
             THEN Return("Err") /\ UNCHANGED <<kernel, todo>>
             ELSE /\ kernel' = [kernel EXCEPT !.bounding = @ \ {c}]
                  /\ todo' = todo \ {c}
                  /\ UNCHANGED <<pc, result>>
    /\ UNCHANGED <<manifest, requested, data, start, failed, execs>>

lower_ambient ==
    /\ pc = "ambient"
    /\ \E c \in Caps :
          /\ IsNext(c)
          /\ kernel' = [kernel EXCEPT !.ambient = @ \ {c}]
          /\ todo' = todo \ {c}
    /\ UNCHANGED <<manifest, pc, requested, data, result, start, failed, execs>>

\* The word index is forgotten, so a bit is cleared in both words.
SameBit_OneWord(c, cap) == c % 32 = cap % 32

\* bit_position: the word and the bit that hold a capability.
SameBit(c, cap) == c \div 32 = cap \div 32 /\ c % 32 = cap % 32

\* clear_capability_bits of every requested capability.
Cleared(set) == {c \in set : \A cap \in requested : ~SameBit(c, cap)}

\* capset only lowers here, which the kernel always accepts; it keeps the
\* ambient set within the other two.
capset_current ==
    /\ pc = "capset"
    /\ kernel' = [kernel EXCEPT
          !.effective = Cleared(data.effective),
          !.permitted = Cleared(data.permitted),
          !.inheritable = Cleared(data.inheritable),
          !.ambient = @ \cap Cleared(data.permitted) \cap Cleared(data.inheritable)]
    /\ todo' = {}
    /\ data' = [effective |-> Cleared(data.effective), permitted |-> Cleared(data.permitted),
                inheritable |-> Cleared(data.inheritable)]
    /\ pc' = NextPhase("capset")
    /\ UNCHANGED <<manifest, requested, result, start, failed, execs>>

Held(k) == k.effective \cup k.permitted \cup k.inheritable \cup k.bounding \cup k.ambient

\* Post-state verification: every requested capability is absent everywhere.
Verify ==
    /\ pc = "verify"
    /\ Return(IF requested \cap Held(kernel) = {} THEN "Ok" ELSE "Err")
    /\ UNCHANGED <<manifest, todo, requested, data, kernel, start, failed, execs>>

-----------------------------------------------------------------------------
\* execve of a file with permitted set fp, inheritable set fi and effective
\* flag fe (uid 0 counts as a file with every bit), as the kernel computes it
\* without no_new_privs.  External to the repository.
Execve(fp, fi, fe) ==
    LET ambient   == IF fp \cup fi # {} THEN {} ELSE kernel.ambient
        permitted == (kernel.inheritable \cap fi) \cup (fp \cap kernel.bounding) \cup ambient
    IN /\ pc = "done" /\ result = "Ok" /\ execs < MaxExecs
       /\ kernel' = [kernel EXCEPT !.ambient = ambient, !.permitted = permitted,
                                   !.effective = IF fe THEN permitted ELSE ambient]
       /\ execs' = execs + 1
       /\ UNCHANGED <<manifest, pc, todo, requested, data, result, start, failed>>

Finished == pc = "done" /\ UNCHANGED vars

Next ==
    \/ SyscallFails \/ ParsePolicy \/ capget_current \/ Preflight
    \/ drop_bounding \/ lower_ambient \/ LeavePhase("bounding") \/ LeavePhase("ambient")
    \/ capset_current \/ Verify
    \/ \E fp, fi \in SUBSET Caps, fe \in BOOLEAN : Execve(fp, fi, fe)
    \/ Finished

Spec == Init /\ [][Next]_vars

-----------------------------------------------------------------------------
(* Properties *)

\* Type correctness of the call's state.
TypeOK ==
    /\ manifest \subseteq Names
    /\ pc \in {"parse", "capget", "preflight", "bounding", "ambient", "capset",
               "verify", "done"}
    /\ todo \subseteq Caps /\ requested \subseteq Caps
    /\ data \in UserCapData
    /\ kernel \in CapSets /\ start \in CapSets
    /\ result \in {"none", "Ok", "Err"}
    /\ failed \in BOOLEAN /\ execs \in Nat

\* Once drop_capabilities has returned Ok, no capability the manifest names, in
\* either spelling, is in any of the five sets, and none comes back through
\* whatever files the workload executes afterwards.
DroppedForGood ==
    result = "Ok" => \A n \in manifest : Known(n) /\ Number[n] \notin Held(kernel)

\* "refusing partial enforcement": when the call fails for a reason of its own
\* (an invalid policy, missing authority) no set has been touched; only a
\* failing system call can leave a policy half applied.
AllOrNothing == result = "Err" /\ ~failed => kernel = start

\* Nothing but the requested capabilities is lost: the two words of the ABI are
\* never confused and a duplicate name changes nothing.
Without(k, gone) ==
    [effective |-> k.effective \ gone, permitted |-> k.permitted \ gone,
     inheritable |-> k.inheritable \ gone, bounding |-> k.bounding \ gone,
     ambient |-> k.ambient \ gone]
OnlyRequestedDropped ==
    result = "Ok" /\ execs = 0 => kernel = Without(start, requested)

-----------------------------------------------------------------------------
(* The inductive invariant *)

Untouched == {"parse", "capget", "preflight"}

\* How far each set has been lowered at each point of the call.
ProgressInv ==
    /\ pc # "done" => result = "none"
    /\ execs > 0 => result = "Ok"
    /\ pc = "parse" => requested = {}
    /\ pc \notin {"parse", "done"} \/ (result = "Ok" /\ manifest # {}) =>
          (\A n \in manifest : Known(n)) /\ requested = {Number[n] : n \in manifest}
    /\ result = "Ok" /\ manifest = {} => requested = {}
    /\ KernelRules(start)
    /\ pc \in Untouched => kernel = start
    /\ pc \in {"preflight", "bounding", "ambient", "capset"} =>
          data = [effective |-> start.effective, permitted |-> start.permitted,
                  inheritable |-> start.inheritable]
    /\ pc = "bounding" =>
          /\ requested \cap kernel.bounding # {} => CAP_SETPCAP \in kernel.effective
          /\ todo \subseteq requested
          /\ kernel = [start EXCEPT !.bounding = @ \ (requested \ todo)]
    /\ pc = "ambient" =>
          /\ todo \subseteq requested
          /\ kernel = [start EXCEPT !.bounding = @ \ requested,
                                    !.ambient = @ \ (requested \ todo)]
    /\ pc = "capset" =>
          kernel = [start EXCEPT !.bounding = @ \ requested, !.ambient = @ \ requested]
    /\ pc = "verify" => kernel = Without(start, requested)

Inv == TypeOK /\ ProgressInv /\ DroppedForGood /\ AllOrNothing /\ OnlyRequestedDropped
=============================================================================
