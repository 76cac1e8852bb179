-------------------------- MODULE ServiceDiscovery ---------------------------
(***************************************************************************)
(* The service registry of the DNS server and the /etc/hosts fallback       *)
(* (src/src/isolate/dns.rs), for pods that get their addresses from one      *)
(* IpAllocator: a pod is given an address, registers services under it, and  *)
(* on its way out unregisters and gives the address back.                    *)
(*                                                                         *)
(* A name is the sequence of its pieces, the dots included, so that a suffix *)
(* or a part of a name can be told from a whole one.                         *)
(***************************************************************************)
EXTENDS IpAllocator, Sequences

CONSTANTS
    Pieces,     \* what names are made of
    Namings,    \* how the pods may be called
    Services,   \* the names of services
    MaxWrites   \* bound: calls of write_hosts_entry

ASSUME DiscoveryAssumption ==
    /\ MaxWrites \in Nat
    /\ "." \in Pieces /\ "garden" \in Pieces
    /\ Services \subseteq Seq(Pieces)
    /\ \A n \in Namings : DOMAIN n = Pods /\ \A p \in Pods : n[p] \in Seq(Pieces)

VARIABLES
    name,      \* the name of each pod
    phase,     \* of each pod: "idle", "up" or "leaving"
    services,  \* the registry: a function from names to addresses, each with
               \* the pod that registered it (history)
    hosts,     \* the lines of /etc/hosts, with the pod that wrote them (history)
    writer,    \* of each pod: the call of write_hosts_entry in progress, with
               \* the lines it has read
    writes

dnsVars == <<services, hosts, writer, writes>>
allVars == <<vars, name, phase, dnsVars>>

EndsWith(s, t) == Len(s) >= Len(t) /\ SubSeq(s, Len(s) - Len(t) + 1, Len(s)) = t
Contains(s, t) == \E i \in 0..Len(s) : i + Len(t) <= Len(s) /\ SubSeq(s, i + 1, i + Len(t)) = t

SuffixOf(n) == <<".">> \o n \o <<".", "garden">>
Suffix(p) == SuffixOf(name[p])
fqdn(service, p) == service \o Suffix(p)
NoCall == [at |-> "none"]

SInit ==
    /\ Init
    /\ name \in Namings
    /\ phase = [p \in Pods |-> "idle"]
    /\ services = << >> /\ hosts = <<>>
    /\ writer = [p \in Pods |-> NoCall] /\ writes = 0

-----------------------------------------------------------------------------
(* The life of a pod *)

\* allocate; an exhausted pool leaves the pod without an address.
StartPod(p) ==
    /\ phase[p] = "idle"
    /\ Allocate(p)
    /\ phase' = [phase EXCEPT ![p] = IF result' = "Ok" THEN "up" ELSE "idle"]
    /\ UNCHANGED dnsVars

\* register inserts, over an earlier entry of the name.
register_service(p, service) ==
    /\ phase[p] = "up"
    /\ \E ip \in held[p] :
          services' = [f \in DOMAIN services \cup {fqdn(service, p)} |->
                         IF f = fqdn(service, p) THEN [ip |-> ip, pod |-> p] ELSE services[f]]
    /\ UNCHANGED <<vars, phase, hosts, writer, writes>>

\* Mutant: only the first name that matches is removed.
unregister_pod_services_First(p) ==
    /\ phase[p] = "up"
    /\ LET match == {f \in DOMAIN services : EndsWith(f, Suffix(p))} IN
       services' = [f \in DOMAIN services \ (IF match = {} THEN {} ELSE {CHOOSE f \in match : TRUE})
                        |-> services[f]]
    /\ phase' = [phase EXCEPT ![p] = "leaving"]
    /\ UNCHANGED <<vars, hosts, writer, writes>>

\* Mutant: the name of the pod is looked for anywhere in the entry.
unregister_pod_services_Contains(p) ==
    /\ phase[p] = "up"
    /\ services' = [f \in {f \in DOMAIN services : ~Contains(f, name[p])} |-> services[f]]
    /\ phase' = [phase EXCEPT ![p] = "leaving"]
    /\ UNCHANGED <<vars, hosts, writer, writes>>

\* Every name that ends in .pod-name.garden goes.
unregister_pod_services(p) ==
    /\ phase[p] = "up"
    /\ services' = [f \in {f \in DOMAIN services : ~EndsWith(f, Suffix(p))} |-> services[f]]
    /\ phase' = [phase EXCEPT ![p] = "leaving"]
    /\ UNCHANGED <<vars, hosts, writer, writes>>

StopPod(p) ==
    /\ phase[p] = "leaving"
    /\ \E ip \in held[p] : Release(p, ip)
    /\ phase' = [phase EXCEPT ![p] = "idle"]
    /\ UNCHANGED dnsVars

\* A release that is late or repeated: of an address given back before.
LateRelease(p) ==
    /\ \E ip \in had[p] \ held[p] : Release(p, ip)
    /\ UNCHANGED <<phase, dnsVars>>

-----------------------------------------------------------------------------
(* write_hosts_entry: read, look for the name, write the whole file *)

ReadHosts(p, service) ==
    /\ phase[p] = "up" /\ writer[p] = NoCall /\ writes < MaxWrites
    /\ \E ip \in held[p] :
          writer' = [writer EXCEPT ![p] =
                       [at |-> "read", host |-> fqdn(service, p), ip |-> ip, lines |-> hosts]]
    /\ writes' = writes + 1
    /\ UNCHANGED <<vars, phase, services, hosts>>

\* Mutant: the entry is appended whether or not it is there.
TruncateHosts_Always(p) ==
    /\ writer[p].at = "read"
    /\ hosts' = <<>>
    /\ writer' = [writer EXCEPT ![p].at = "truncated"]
    /\ UNCHANGED <<vars, phase, services, writes>>

\* A name that is part of a line is taken to be there.  Otherwise fs::write first
\* cuts the file to nothing, where another reader may find it.
TruncateHosts(p) ==
    /\ writer[p].at = "read"
    /\ IF \E i \in DOMAIN writer[p].lines : Contains(writer[p].lines[i].host, writer[p].host)
       THEN writer' = [writer EXCEPT ![p] = NoCall] /\ UNCHANGED hosts
       ELSE writer' = [writer EXCEPT ![p].at = "truncated"] /\ hosts' = <<>>
    /\ UNCHANGED <<vars, phase, services, writes>>

WriteHosts(p) ==
    /\ writer[p].at = "truncated"
    /\ hosts' = Append(writer[p].lines, [host |-> writer[p].host, ip |-> writer[p].ip, pod |-> p])
    /\ writer' = [writer EXCEPT ![p] = NoCall]
    /\ UNCHANGED <<vars, phase, services, writes>>

-----------------------------------------------------------------------------
PodStep(p) ==
    \/ StartPod(p) \/ unregister_pod_services(p) \/ StopPod(p) \/ LateRelease(p)
    \/ \E s \in Services : register_service(p, s) \/ ReadHosts(p, s)
    \/ TruncateHosts(p) \/ WriteHosts(p)

SNext == (\E p \in Pods : PodStep(p)) /\ UNCHANGED name

ServiceSpec == SInit /\ [][SNext]_allVars

-----------------------------------------------------------------------------
(* Properties *)

\* A name leads to an address its pod holds as long as it is registered; a line of
\* /etc/hosts, which nothing ever removes or corrects, may lead nowhere but never
\* to another pod, because a released address is not handed out again.
NamesNeverMisdirect ==
    /\ \A f \in DOMAIN services : services[f].ip \in held[services[f].pod]
    /\ \A i \in DOMAIN hosts : \A p \in Pods \ {hosts[i].pod} : hosts[i].ip \notin held[p]

\* Leaving takes all names of the pod and those of no other pod, with two
\* exceptions: the other pod's name ends in this pod's after a dot, so that
\* ".pod.garden" ends its names too, or its service's own name holds a dot.
Nested(p, q) == p # q /\ EndsWith(<<".">> \o name[q], <<".">> \o name[p])
Dotted(f, q) == \E i \in 1..(Len(f) - Len(Suffix(q))) : f[i] = "."
UnregisterIsExact ==
    [][\A p \in Pods : unregister_pod_services(p) =>
          /\ \A f \in DOMAIN services' : services'[f].pod # p
          /\ \A f \in DOMAIN services \ DOMAIN services' :
                LET q == services[f].pod IN q = p \/ Nested(p, q) \/ Dotted(f, q)]_allVars

\* However many writers read, cut and rewrite /etc/hosts at once, a name has at
\* most one line.
OneHostsLinePerName ==
    \A i, j \in DOMAIN hosts : hosts[i].host = hosts[j].host => i = j

-----------------------------------------------------------------------------
(* The inductive invariant of the registry and the hosts file *)

Lines == [host : Seq(Pieces), ip : Address, pod : Pods]

\* The calls of write_hosts_entry that p may be in.
Calls(p) == {NoCall} \cup [at : {"read", "truncated"}, host : Seq(Pieces), ip : had[p],
                           lines : Seq(Lines)]

\* Lines that lead to an address their pod has had, one for each name.
Sound(lines) ==
    /\ \A i \in DOMAIN lines : lines[i].ip \in had[lines[i].pod]
    /\ \A i, j \in DOMAIN lines : lines[i].host = lines[j].host => i = j

\* An entry of the registry belongs to a pod that is up, ends in its name and
\* leads to an address it holds.
RegistryInv ==
    /\ name \in Namings
    /\ phase \in [Pods -> {"idle", "up", "leaving"}]
    /\ \A f \in DOMAIN services :
          /\ services[f].pod \in Pods /\ phase[services[f].pod] = "up"
          /\ services[f].ip \in held[services[f].pod]
          /\ \E s \in Services : f = fqdn(s, services[f].pod)

\* The file, and every copy a writer has in its hands, is sound; a writer that
\* has cut the file does not have its own name in its copy.
HostsInv ==
    /\ hosts \in Seq(Lines) /\ Sound(hosts)
    /\ DOMAIN writer = Pods
    /\ \A p \in Pods :
          /\ writer[p] \in Calls(p)
          /\ writer[p] # NoCall => Sound(writer[p].lines)
          /\ writer[p] # NoCall /\ writer[p].at = "truncated" =>
                \A i \in DOMAIN writer[p].lines : writer[p].lines[i].host # writer[p].host

DiscoveryInvariant == Inv /\ RegistryInv /\ HostsInv
=============================================================================
