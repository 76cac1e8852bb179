----------------------------- MODULE IpAllocator -----------------------------
(***************************************************************************)
(* IpAllocator (src/src/isolate/net.rs): a cursor over 10.44.subnet.host and *)
(* the set of addresses handed out and not released.                        *)
(*                                                                         *)
(* release takes any address, from any caller and any number of times, so a *)
(* pod may release an address it gave back before (a late or repeated call). *)
(***************************************************************************)
EXTENDS Integers

CONSTANTS
    Pods,
    FirstSubnet, EndSubnet,   \* 1 and 255 in the code
    FirstHost, EndHost        \* 10 and 254 in the code

ASSUME IpAssumption ==
    /\ FirstSubnet \in 0..255 /\ EndSubnet \in 0..255 /\ FirstSubnet <= EndSubnet
    /\ FirstHost \in 0..255 /\ EndHost \in 0..255 /\ FirstHost < EndHost

VARIABLES
    allocated,              \* the HashSet
    next_subnet, next_host, \* both u8
    result,                 \* of an allocate that has just returned
    (* history *)
    held,                   \* the addresses each pod has and has not given back
    had                     \* the addresses each pod has ever had

vars == <<allocated, next_subnet, next_host, result, held, had>>

Address == (FirstSubnet..(EndSubnet - 1)) \X (FirstHost..(EndHost - 1))

\* The order in which the cursor visits the pool.
Earlier(a, b) == a[1] < b[1] \/ (a[1] = b[1] /\ a[2] < b[2])
Visited(a) == Earlier(a, <<next_subnet, next_host>>)

Init ==
    /\ allocated = {}
    /\ next_subnet = FirstSubnet /\ next_host = FirstHost
    /\ result = "none"
    /\ held = [p \in Pods |-> {}] /\ had = [p \in Pods |-> {}]

\* The loop of allocate stops at the first address from the cursor on that is
\* not in the set.
Stops(ip) ==
    /\ ~Visited(ip) /\ ip \notin allocated
    /\ \A a \in Address : ~Visited(a) /\ Earlier(a, ip) => a \in allocated

\* The cursor is left at the end of the pool for good.
Exhausted ==
    /\ \A ip \in Address : ~Stops(ip)
    /\ next_subnet' = EndSubnet
    /\ next_host' = IF next_subnet = EndSubnet THEN next_host ELSE FirstHost
    /\ result' = "exhausted"
    /\ UNCHANGED <<allocated, held, had>>

Allocate(p) ==
    \/ \E ip \in Address :
          /\ Stops(ip)
          /\ next_subnet' = ip[1] /\ next_host' = ip[2] + 1
          /\ allocated' = allocated \cup {ip}
          /\ result' = "Ok"
          /\ held' = [held EXCEPT ![p] = @ \cup {ip}]
          /\ had' = [had EXCEPT ![p] = @ \cup {ip}]
    \/ Exhausted

\* Mutant: a released address is really offered again.
Release_Recycles(p, ip) ==
    /\ allocated' = allocated \ {ip}
    /\ held' = [held EXCEPT ![p] = @ \ {ip}]
    /\ next_subnet' = FirstSubnet /\ next_host' = FirstHost
    /\ result' = "none" /\ UNCHANGED had

\* An address that is not in the set is only worth a warning.
Release(p, ip) ==
    /\ allocated' = allocated \ {ip}
    /\ held' = [held EXCEPT ![p] = @ \ {ip}]
    /\ result' = "none"
    /\ UNCHANGED <<next_subnet, next_host, had>>

Next == \E p \in Pods : Allocate(p) \/ \E ip \in had[p] : Release(p, ip)

Spec == Init /\ [][Next]_vars

-----------------------------------------------------------------------------
(* Properties *)

\* Type correctness; the two u8 never wrap.
TypeOK ==
    /\ allocated \subseteq Address
    /\ next_subnet \in 0..255 /\ next_host \in 0..255
    /\ result \in {"none", "Ok", "exhausted"}
    /\ held \in [Pods -> SUBSET Address] /\ had \in [Pods -> SUBSET Address]

\* No address is in the hands of two pods, and one in use is tracked as
\* allocated, even when pods release late, twice, or after others allocated.
AddressHeldByOne ==
    /\ \A p, q \in Pods : p # q => held[p] \cap held[q] = {}
    /\ \A p \in Pods : held[p] \subseteq allocated

\* The inductive invariant: whatever has been handed out lies behind the
\* cursor, which never moves back, so no two pods ever had the same address.
Inv ==
    /\ TypeOK
    /\ next_subnet \in FirstSubnet..EndSubnet /\ next_host \in FirstHost..EndHost
    /\ \A p \in Pods : \A ip \in had[p] : Visited(ip)
    /\ \A p, q \in Pods : p # q => had[p] \cap had[q] = {}
    /\ \A p \in Pods : held[p] \subseteq had[p] \cap allocated
=============================================================================
