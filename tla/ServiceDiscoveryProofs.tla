----------------------- MODULE ServiceDiscoveryProofs ------------------------
(***************************************************************************)
(* The inductive invariant of IpAllocator, for a pool of any size and any    *)
(* set of pods; that pods which register services use the allocator as       *)
(* IpAllocator allows, so that what is proved of the allocator holds under   *)
(* service discovery; and what that makes of the names.                      *)
(***************************************************************************)
EXTENDS ServiceDiscovery, SequenceTheorems, TLAPS

-----------------------------------------------------------------------------
(* The allocator *)


\* An address of the pool is a pair of numbers within the bounds of the cursor.
LEMMA AddressParts ==
    ASSUME NEW a \in Address
    PROVE  /\ a[1] \in Int /\ FirstSubnet <= a[1] /\ a[1] < EndSubnet
           /\ a[2] \in Int /\ FirstHost <= a[2] /\ a[2] < EndHost
  BY IpAssumption DEF Address

\* A new allocator satisfies the invariant.
LEMMA InvInit == Init => Inv
  BY IpAssumption DEF Init, Inv, TypeOK, Visited, Earlier

\* allocate moves the cursor past the address it returns and past no address
\* it has not looked at.
LEMMA AllocateStep ==
    ASSUME Inv, NEW p \in Pods, NEW ip \in Address, Stops(ip),
           next_subnet' = ip[1], next_host' = ip[2] + 1,
           allocated' = allocated \cup {ip}, result' = "Ok",
           held' = [held EXCEPT ![p] = @ \cup {ip}],
           had' = [had EXCEPT ![p] = @ \cup {ip}]
    PROVE  Inv'
<1>1. /\ ip[1] \in Int /\ FirstSubnet <= ip[1] /\ ip[1] < EndSubnet
      /\ ip[2] \in Int /\ FirstHost <= ip[2] /\ ip[2] < EndHost
  BY AddressParts
<1>2. /\ next_subnet' \in FirstSubnet..EndSubnet /\ next_host' \in FirstHost..EndHost
      /\ next_subnet' \in 0..255 /\ next_host' \in 0..255
  BY <1>1, IpAssumption
<1>3. TypeOK'
  BY <1>2 DEF Inv, TypeOK
<1>4. next_subnet \in Int /\ next_host \in Int
  BY DEF Inv, TypeOK
<1>5. \A a \in Address : Visited(a) => Visited(a)'
  <2> SUFFICES ASSUME NEW a \in Address, Visited(a) PROVE Visited(a)'
    OBVIOUS
  <2>1. a[1] \in Int /\ a[2] \in Int
    BY AddressParts
  <2>2. ~Visited(ip)
    BY DEF Stops
  <2> QED
    BY <1>1, <1>4, <2>1, <2>2 DEF Visited, Earlier
<1>6. Visited(ip)'
  BY <1>1 DEF Visited, Earlier
<1>7. \A q \in Pods : ip \notin had[q]
  BY DEF Inv, Stops
<1>8. \A q \in Pods : \A a \in had'[q] : Visited(a)'
  BY <1>5, <1>6 DEF Inv, TypeOK
<1>9. \A q, r \in Pods : q # r => had'[q] \cap had'[r] = {}
  BY <1>7 DEF Inv, TypeOK
<1>10. \A q \in Pods : held'[q] \subseteq had'[q] \cap allocated'
  BY DEF Inv, TypeOK
<1> QED
  BY <1>2, <1>3, <1>8, <1>9, <1>10 DEF Inv

\* An exhausted allocator stays at the end of its pool.
LEMMA ExhaustedStep ==
    ASSUME Inv, Exhausted
    PROVE  Inv'
<1>1. /\ next_subnet' = EndSubnet /\ next_host' \in FirstHost..EndHost
      /\ UNCHANGED <<allocated, held, had>>
  BY IpAssumption DEF Exhausted, Inv
<1>2. \A a \in Address : Visited(a)'
  <2> SUFFICES ASSUME NEW a \in Address PROVE Visited(a)'
    OBVIOUS
  <2> QED
    BY <1>1, AddressParts, IpAssumption DEF Visited, Earlier
<1>3. TypeOK'
  BY <1>1, IpAssumption DEF Inv, TypeOK, Exhausted
<1> QED
  BY <1>1, <1>2, <1>3, IpAssumption DEF Inv, TypeOK

\* A release, early, late or repeated, only shrinks what is held.
LEMMA ReleaseStep ==
    ASSUME Inv, NEW p \in Pods, NEW ip \in had[p], Release(p, ip)
    PROVE  Inv'
<1>1. TypeOK'
  BY DEF Inv, TypeOK, Release
<1>2. \A q \in Pods : q # p => ip \notin held[q]
  BY DEF Inv
<1>3. \A q \in Pods : held'[q] \subseteq had'[q] \cap allocated'
  BY <1>2 DEF Inv, TypeOK, Release
<1> QED
  BY <1>1, <1>3 DEF Inv, Release, Visited

\* The induction step.
LEMMA InvInductive == Inv /\ [Next]_vars => Inv'
<1> SUFFICES ASSUME Inv, [Next]_vars PROVE Inv'
  OBVIOUS
<1>1. ASSUME NEW p \in Pods, Allocate(p) PROVE Inv'
  BY <1>1, AllocateStep, ExhaustedStep DEF Allocate
<1>2. ASSUME NEW p \in Pods, NEW ip \in had[p], Release(p, ip) PROVE Inv'
  BY <1>2, ReleaseStep
<1>3. CASE UNCHANGED vars
  BY <1>3 DEF vars, Inv, TypeOK, Visited
<1> QED
  BY <1>1, <1>2, <1>3 DEF Next

\* Whatever has been handed out lies behind the cursor of the allocator.
THEOREM InvCorrect == Spec => []Inv
  BY InvInit, InvInductive, PTL DEF Spec

\* No address is ever in the hands of two pods that share an allocator, however
\* late or often they release.
THEOREM AddressCorrect == Spec => []AddressHeldByOne
<1>1. Inv => AddressHeldByOne
  BY DEF Inv, AddressHeldByOne
<1> QED
  BY <1>1, InvCorrect, PTL

-----------------------------------------------------------------------------
(* The allocator under service discovery *)


\* The steps that allocate or release are the allocator's; the others leave it
\* alone.  That what a pod holds it has had is where Inv is needed.
LEMMA DiscoveryStep ==
    ASSUME Inv, [SNext]_allVars
    PROVE  [Next]_vars
<1>1. ASSUME NEW p \in Pods, StartPod(p) PROVE Next
  BY <1>1 DEF StartPod, Next
<1>2. ASSUME NEW p \in Pods, StopPod(p) PROVE Next
  <2>1. PICK ip \in held[p] : Release(p, ip)
    BY <1>2 DEF StopPod
  <2>2. ip \in had[p]
    BY DEF Inv
  <2> QED
    BY <2>1, <2>2 DEF Next
<1>3. ASSUME NEW p \in Pods, LateRelease(p) PROVE Next
  BY <1>3 DEF LateRelease, Next
<1>4. ASSUME NEW p \in Pods, NEW s \in Services, register_service(p, s) \/ ReadHosts(p, s)
      PROVE  UNCHANGED vars
  BY <1>4 DEF register_service, ReadHosts
<1>5. ASSUME NEW p \in Pods,
             unregister_pod_services(p) \/ TruncateHosts(p) \/ WriteHosts(p)
      PROVE  UNCHANGED vars
  BY <1>5 DEF unregister_pod_services, TruncateHosts, WriteHosts
<1>6. CASE UNCHANGED allVars
  BY <1>6 DEF allVars
<1> QED
  BY <1>1, <1>2, <1>3, <1>4, <1>5, <1>6 DEF SNext, PodStep

\* The allocator's invariant holds under service discovery.
LEMMA DiscoveryInv == ServiceSpec => []Inv
<1>1. SInit => Inv
  BY InvInit DEF SInit
<1>2. Inv /\ [SNext]_allVars => Inv'
  BY DiscoveryStep, InvInductive
<1> QED
  BY <1>1, <1>2, PTL DEF ServiceSpec

\* Service discovery (dns.rs) over an allocator (net.rs) implements the
\* allocator's specification.
THEOREM DiscoveryImplementsAllocator == ServiceSpec => Spec
<1>1. SInit => Init
  BY DEF SInit
<1>2. Inv /\ [SNext]_allVars => [Next]_vars
  BY DiscoveryStep
<1> QED
  BY <1>1, <1>2, DiscoveryInv, PTL DEF ServiceSpec, Spec

\* No address is ever held by two pods whose services are registered, however
\* they start, leave, and release late.
THEOREM DiscoveryAddressCorrect == ServiceSpec => []AddressHeldByOne
  BY DiscoveryImplementsAllocator, AddressCorrect, PTL

-----------------------------------------------------------------------------
(* Names *)

\* Names are sequences of strings, and so is what is put together from them.
LEMMA NameTypes ==
    ASSUME RegistryInv, NEW p \in Pods, NEW s \in Services
    PROVE  /\ s \in Seq(Pieces) /\ name[p] \in Seq(Pieces)
           /\ Suffix(p) \in Seq(Pieces) /\ fqdn(s, p) \in Seq(Pieces)
<1>1. s \in Seq(Pieces) /\ name[p] \in Seq(Pieces)
  BY DiscoveryAssumption DEF RegistryInv
<1>2. <<".">> \in Seq(Pieces) /\ <<".", "garden">> \in Seq(Pieces)
  BY DiscoveryAssumption
<1>3. Suffix(p) \in Seq(Pieces)
  BY <1>1, <1>2, ConcatProperties DEF Suffix, SuffixOf
<1> QED
  BY <1>1, <1>3, ConcatProperties DEF fqdn

\* A name put together from a service and a suffix ends in the suffix.
LEMMA ConcatEndsWith ==
    ASSUME NEW s \in Seq(Pieces), NEW t \in Seq(Pieces)
    PROVE  EndsWith(s \o t, t)
<1> DEFINE st == s \o t
           u == SubSeq(st, Len(st) - Len(t) + 1, Len(st))
<1>1. /\ st \in Seq(Pieces) /\ Len(st) = Len(s) + Len(t)
      /\ \A i \in 1..(Len(s) + Len(t)) : st[i] = IF i <= Len(s) THEN s[i] ELSE t[i - Len(s)]
  BY ConcatProperties
<1>2. Len(s) \in Nat /\ Len(t) \in Nat
  BY LenProperties
<1>3. /\ Len(st) - Len(t) + 1 = Len(s) + 1
      /\ Len(s) + 1 \in Int /\ Len(st) \in Int
      /\ \A i \in (Len(s) + 1)..Len(st) : st[i] \in Pieces
  BY <1>1, <1>2, ElementOfSeq
<1> HIDE DEF st
<1>4. /\ u \in Seq(Pieces) /\ Len(u) = IF Len(s) + 1 <= Len(st) THEN Len(st) - (Len(s) + 1) + 1 ELSE 0
      /\ \A i \in 1..(Len(st) - (Len(s) + 1) + 1) : u[i] = st[Len(s) + 1 + i - 1]
  BY <1>3, SubSeqProperties
<1>5. Len(u) = Len(t)
  BY <1>1, <1>2, <1>4
<1>6. \A i \in 1..Len(u) : u[i] = t[i]
  <2> SUFFICES ASSUME NEW i \in 1..Len(u) PROVE u[i] = t[i]
    OBVIOUS
  <2>1. /\ i \in 1..(Len(st) - (Len(s) + 1) + 1)
        /\ Len(s) + 1 + i - 1 = Len(s) + i /\ Len(s) + i \in 1..(Len(s) + Len(t))
        /\ ~(Len(s) + i <= Len(s)) /\ (Len(s) + i) - Len(s) = i
    BY <1>1, <1>2, <1>5
  <2>2. u[i] = st[Len(s) + i]
    BY <1>4, <2>1
  <2> QED
    BY <1>1, <2>1, <2>2
<1>7. u = t
  BY <1>4, <1>5, <1>6, SeqEqual
<1> QED
  BY <1>1, <1>2, <1>7 DEF EndsWith, st

\* Every name is part of itself.
LEMMA ContainsItself ==
    ASSUME NEW s \in Seq(Pieces)
    PROVE  Contains(s, s)
<1>1. Len(s) \in Nat /\ SubSeq(s, 1, Len(s)) = s
  BY LenProperties, SubSeqFull
<1>2. 0 \in 0..Len(s) /\ 0 + Len(s) <= Len(s) /\ SubSeq(s, 0 + 1, 0 + Len(s)) = s
  BY <1>1
<1> QED
  BY <1>2 DEF Contains

-----------------------------------------------------------------------------
(* The registry *)

\* A step leaves the pods' names alone.
LEMMA NamesStay == [SNext]_allVars => UNCHANGED name
BY DEF SNext, allVars

\* allocate gives the pod another address and takes none away.
LEMMA AllocateKeeps ==
    ASSUME Inv, NEW p \in Pods, Allocate(p)
    PROVE  \A q \in Pods : held[q] \subseteq held'[q] /\ had[q] \subseteq had'[q]
BY DEF Allocate, Exhausted, Inv, TypeOK

\* A release takes one address of one pod away.
LEMMA ReleaseKeeps ==
    ASSUME Inv, NEW p \in Pods, NEW ip, Release(p, ip)
    PROVE  /\ had' = had
           /\ \A q \in Pods : held'[q] = IF q = p THEN held[q] \ {ip} ELSE held[q]
BY DEF Release, Inv, TypeOK

\* Entries come with a pod that is up, and go before it gives its address back.
LEMMA RegistryInductive ==
    ASSUME Inv, RegistryInv, [SNext]_allVars
    PROVE  RegistryInv'
<1>0. name' = name /\ name' \in Namings
  BY NamesStay DEF RegistryInv
<1>1. ASSUME NEW p \in Pods, StartPod(p) PROVE RegistryInv'
  <2>1. services' = services /\ phase' = [phase EXCEPT ![p] = IF result' = "Ok" THEN "up" ELSE "idle"]
    BY <1>1 DEF StartPod, dnsVars
  <2>2. \A q \in Pods : phase[q] = "up" => phase'[q] = "up" /\ held[q] \subseteq held'[q]
    BY <1>1, <2>1, AllocateKeeps DEF StartPod, RegistryInv
  <2> QED
    BY <1>0, <2>1, <2>2 DEF RegistryInv, fqdn, Suffix
<1>2. ASSUME NEW p \in Pods, StopPod(p) PROVE RegistryInv'
  <2>1. PICK ip \in held[p] : Release(p, ip)
    BY <1>2 DEF StopPod
  <2>2. /\ services' = services /\ phase[p] = "leaving"
        /\ phase' = [phase EXCEPT ![p] = "idle"]
    BY <1>2 DEF StopPod, dnsVars
  <2>3. \A q \in Pods : phase[q] = "up" => phase'[q] = "up" /\ held[q] \subseteq held'[q]
    BY <2>1, <2>2, ReleaseKeeps DEF RegistryInv
  <2> QED
    BY <1>0, <2>2, <2>3 DEF RegistryInv, fqdn, Suffix
<1>3. ASSUME NEW p \in Pods, LateRelease(p) PROVE RegistryInv'
  <2>1. PICK ip \in had[p] \ held[p] : Release(p, ip)
    BY <1>3 DEF LateRelease
  <2>2. UNCHANGED <<services, phase>>
    BY <1>3 DEF LateRelease, dnsVars
  <2>3. \A q \in Pods : held'[q] = held[q]
    <3>1. \A q \in Pods : held'[q] = IF q = p THEN held[q] \ {ip} ELSE held[q]
      BY <2>1, ReleaseKeeps
    <3>2. held[p] \ {ip} = held[p]
      OBVIOUS
    <3> QED
      BY <3>1, <3>2
  <2> QED
    BY <1>0, <2>2, <2>3 DEF RegistryInv, fqdn, Suffix
<1>4. ASSUME NEW p \in Pods, NEW s \in Services, register_service(p, s) PROVE RegistryInv'
  <2>1. PICK ip \in held[p] :
          services' = [f \in DOMAIN services \cup {fqdn(s, p)} |->
                         IF f = fqdn(s, p) THEN [ip |-> ip, pod |-> p] ELSE services[f]]
    BY <1>4 DEF register_service
  <2>2. phase[p] = "up" /\ UNCHANGED <<held, phase>>
    BY <1>4 DEF register_service, vars
  <2>4. ASSUME NEW f \in DOMAIN services'
        PROVE  /\ services'[f].pod \in Pods /\ phase'[services'[f].pod] = "up"
               /\ services'[f].ip \in held'[services'[f].pod]
               /\ \E t \in Services : f = t \o SuffixOf(name'[services'[f].pod])
    <3>1. CASE f = fqdn(s, p)
      <4>1. services'[f] = [ip |-> ip, pod |-> p]
        BY <2>1, <3>1
      <4> QED
        <5>1. services'[f].pod = p /\ services'[f].ip = ip
          BY <4>1
        <5>2. f = s \o SuffixOf(name'[p])
          BY <1>0, <3>1 DEF fqdn, Suffix
        <5> QED
          BY <2>2, <5>1, <5>2
    <3>2. CASE f # fqdn(s, p)
      <4>1. f \in DOMAIN services /\ services'[f] = services[f]
        BY <2>1, <3>2
      <4> QED
        BY <1>0, <2>2, <4>1 DEF RegistryInv, fqdn, Suffix
    <3> QED
      BY <3>1, <3>2
  <2> QED
    BY <1>0, <2>2, <2>4 DEF RegistryInv, fqdn, Suffix
<1>5. ASSUME NEW p \in Pods, unregister_pod_services(p) PROVE RegistryInv'
  <2>1. /\ services' = [f \in {f \in DOMAIN services : ~EndsWith(f, Suffix(p))} |-> services[f]]
        /\ phase' = [phase EXCEPT ![p] = "leaving"] /\ held' = held
    BY <1>5 DEF unregister_pod_services, vars
  <2>3. ASSUME NEW f \in DOMAIN services' PROVE services'[f].pod # p
    <3>1. f \in DOMAIN services /\ ~EndsWith(f, Suffix(p)) /\ services'[f] = services[f]
      BY <2>1
    <3>2. ASSUME services[f].pod = p PROVE FALSE
      <4>1. PICK t \in Services : f = fqdn(t, p)
        BY <3>1, <3>2 DEF RegistryInv
      <4> QED
        BY <3>1, <4>1, NameTypes, ConcatEndsWith DEF fqdn
    <3> QED
      BY <3>1, <3>2
  <2>4. ASSUME NEW f \in DOMAIN services'
        PROVE  /\ f \in DOMAIN services /\ services'[f] = services[f]
    BY <2>1
  <2> QED
    BY <1>0, <2>1, <2>3, <2>4 DEF RegistryInv, fqdn, Suffix
<1>6. ASSUME NEW p \in Pods, NEW s \in Services,
             ReadHosts(p, s) \/ TruncateHosts(p) \/ WriteHosts(p)
      PROVE  RegistryInv'
  <2>1. UNCHANGED <<services, phase, held>>
    BY <1>6 DEF ReadHosts, TruncateHosts, WriteHosts, vars
  <2> QED
    BY <1>0, <2>1 DEF RegistryInv, fqdn, Suffix
<1>7. CASE UNCHANGED allVars
  BY <1>0, <1>7 DEF RegistryInv, allVars, dnsVars, vars, fqdn, Suffix
<1>8. ASSUME NEW p \in Pods, TruncateHosts(p) \/ WriteHosts(p) PROVE RegistryInv'
  <2>1. UNCHANGED <<services, phase, held>>
    BY <1>8 DEF TruncateHosts, WriteHosts, vars
  <2> QED
    BY <1>0, <2>1 DEF RegistryInv, fqdn, Suffix
<1> QED
  BY <1>1, <1>2, <1>3, <1>4, <1>5, <1>6, <1>7, <1>8 DEF SNext, PodStep

-----------------------------------------------------------------------------
(* The hosts file *)

\* What is sound stays so when pods get more addresses, and loses nothing when
\* they give some back.
LEMMA SoundMonotonic ==
    ASSUME NEW lines \in Seq(Lines), Sound(lines),
           \A q \in Pods : had[q] \subseteq had'[q]
    PROVE  Sound(lines)'
<1>1. \A i \in DOMAIN lines : lines[i] \in Lines
  BY LenProperties, ElementOfSeq
<1> QED
  BY <1>1 DEF Sound, Lines

\* A line with an address its pod has had and a name that is not there yet keeps
\* the file sound.
LEMMA SoundAppend ==
    ASSUME NEW lines \in Seq(Lines), Sound(lines), NEW l \in Lines, l.ip \in had[l.pod],
           \A i \in DOMAIN lines : lines[i].host # l.host
    PROVE  Append(lines, l) \in Seq(Lines) /\ Sound(Append(lines, l))
<1> DEFINE new == Append(lines, l)
<1>1. /\ new \in Seq(Lines) /\ Len(lines) \in Nat
      /\ DOMAIN lines = 1..Len(lines) /\ DOMAIN new = 1..(Len(lines) + 1)
      /\ \A i \in 1..Len(lines) : new[i] = lines[i]
      /\ new[Len(lines) + 1] = l
  BY LenProperties
<1> HIDE DEF new
<1>2. \A i \in DOMAIN new : \/ i \in DOMAIN lines /\ new[i] = lines[i]
                            \/ i = Len(lines) + 1 /\ new[i] = l
  BY <1>1
<1>3. \A i \in DOMAIN new : new[i].ip \in had[new[i].pod]
  BY <1>2 DEF Sound
<1>4. \A i, j \in DOMAIN new : new[i].host = new[j].host => i = j
  BY <1>2 DEF Sound
<1> QED
  BY <1>1, <1>3, <1>4 DEF Sound, new

\* A pod that is given no new address, or one more, still has had what it had.
LEMMA HadGrows ==
    ASSUME Inv, [SNext]_allVars
    PROVE  \A q \in Pods : had[q] \subseteq had'[q]
<1>1. ASSUME NEW p \in Pods, Allocate(p) PROVE \A q \in Pods : had[q] \subseteq had'[q]
  BY <1>1, AllocateKeeps
<1>2. ASSUME NEW p \in Pods, NEW ip \in had[p], Release(p, ip)
      PROVE  \A q \in Pods : had[q] \subseteq had'[q]
  BY <1>2 DEF Release
<1>3. CASE UNCHANGED vars
  BY <1>3 DEF vars
<1>4. [Next]_vars
  BY DiscoveryStep
<1> QED
  BY <1>1, <1>2, <1>3, <1>4 DEF Next

\* Steps that leave the file and its writers alone.
LEMMA HostsUnchanged ==
    ASSUME HostsInv, UNCHANGED <<hosts, writer>>, \A q \in Pods : had[q] \subseteq had'[q]
    PROVE  HostsInv'
<1>1. hosts \in Seq(Lines) /\ Sound(hosts)'
  BY SoundMonotonic DEF HostsInv
<1>2. ASSUME NEW p \in Pods
      PROVE  /\ writer[p] \in Calls(p)'
             /\ writer[p] # NoCall => Sound(writer[p].lines)'
             /\ writer[p] # NoCall /\ writer[p].at = "truncated" =>
                   \A i \in DOMAIN writer[p].lines : writer[p].lines[i].host # writer[p].host
  <2>1. writer[p] \in Calls(p)
    BY DEF HostsInv
  <2>2. writer[p] \in Calls(p)'
    BY <2>1 DEF Calls
  <2>3. writer[p] # NoCall => writer[p].lines \in Seq(Lines)
    BY <2>1 DEF Calls
  <2>4. writer[p] # NoCall => Sound(writer[p].lines)'
    BY <2>3, SoundMonotonic DEF HostsInv
  <2> QED
    BY <2>2, <2>4 DEF HostsInv
<1> QED
  BY <1>1, <1>2 DEF HostsInv, Lines, Calls, Sound

\* A step of the writer p: the file it leaves and the copy it holds are what
\* matters, everyone else's copy is as before.
LEMMA WriterStep ==
    ASSUME HostsInv, NEW p \in Pods, had' = had, DOMAIN writer' = Pods,
           \A q \in Pods \ {p} : writer'[q] = writer[q],
           hosts' \in Seq(Lines), Sound(hosts'),
           writer'[p] \in Calls(p),
           writer'[p] # NoCall => Sound(writer'[p].lines),
           writer'[p] # NoCall /\ writer'[p].at = "truncated" =>
               \A i \in DOMAIN writer'[p].lines : writer'[p].lines[i].host # writer'[p].host
    PROVE  HostsInv'
<1>1. Sound(hosts)'
  BY DEF Sound
<1>2. ASSUME NEW q \in Pods
      PROVE  /\ (writer[q] \in Calls(q))'
             /\ (writer[q] # NoCall => Sound(writer[q].lines))'
             /\ writer'[q] # NoCall /\ writer'[q].at = "truncated" =>
                  \A i \in DOMAIN writer'[q].lines :
                      writer'[q].lines[i].host # writer'[q].host
  <2>1. /\ writer'[q] \in Calls(q)
        /\ writer'[q] # NoCall => Sound(writer'[q].lines)
        /\ writer'[q] # NoCall /\ writer'[q].at = "truncated" =>
             \A i \in DOMAIN writer'[q].lines : writer'[q].lines[i].host # writer'[q].host
    BY DEF HostsInv
  <2>2. (writer[q] \in Calls(q))'
    BY <2>1 DEF Calls
  <2>3. (writer[q] # NoCall => Sound(writer[q].lines))'
    BY <2>1 DEF Sound
  <2> QED
    BY <2>1, <2>2, <2>3
<1> QED
  BY <1>1, <1>2 DEF HostsInv

\* The three steps of write_hosts_entry: a writer takes a copy of a sound file,
\* cuts the file only when its name is not in the copy, and puts back the copy
\* with one line more.
LEMMA HostsInductive ==
    ASSUME Inv, RegistryInv, HostsInv, [SNext]_allVars
    PROVE  HostsInv'
<1>0. \A q \in Pods : had[q] \subseteq had'[q]
  BY HadGrows
<1>1. ASSUME NEW p \in Pods, StartPod(p) \/ unregister_pod_services(p) \/ StopPod(p)
                             \/ LateRelease(p)
      PROVE  HostsInv'
  <2>1. UNCHANGED <<hosts, writer>>
    BY <1>1 DEF StartPod, unregister_pod_services, StopPod, LateRelease, dnsVars
  <2> QED
    BY <1>0, <2>1, HostsUnchanged
<1>2. ASSUME NEW p \in Pods, NEW s \in Services, register_service(p, s) PROVE HostsInv'
  <2>1. UNCHANGED <<hosts, writer>>
    BY <1>2 DEF register_service
  <2> QED
    BY <1>0, <2>1, HostsUnchanged
<1>3. ASSUME NEW p \in Pods, NEW s \in Services, ReadHosts(p, s) PROVE HostsInv'
  <2>1. PICK ip \in held[p] :
          writer' = [writer EXCEPT ![p] =
                       [at |-> "read", host |-> fqdn(s, p), ip |-> ip, lines |-> hosts]]
    BY <1>3 DEF ReadHosts
  <2>2. UNCHANGED <<hosts, had>>
    BY <1>3 DEF ReadHosts, vars
  <2>3. ip \in had[p] /\ fqdn(s, p) \in Seq(Pieces)
    BY NameTypes DEF Inv
  <2>4. writer'[p] = [at |-> "read", host |-> fqdn(s, p), ip |-> ip, lines |-> hosts]
    BY <2>1 DEF HostsInv
  <2>5. /\ writer'[p] \in Calls(p) /\ writer'[p].lines = hosts /\ writer'[p].at = "read"
    BY <2>3, <2>4 DEF Calls, HostsInv
  <2>6. \A q \in Pods \ {p} : writer'[q] = writer[q]
    BY <2>1 DEF HostsInv
  <2>7. DOMAIN writer' = Pods
    BY <2>1 DEF HostsInv
  <2> QED
    <3>1. hosts' \in Seq(Lines) /\ Sound(hosts') /\ Sound(writer'[p].lines)
      BY <2>2, <2>5 DEF HostsInv
    <3> QED
      BY <2>2, <2>5, <2>6, <2>7, <3>1, WriterStep
<1>4. ASSUME NEW p \in Pods, TruncateHosts(p) PROVE HostsInv'
  <2>1. writer[p].at = "read" /\ UNCHANGED had
    BY <1>4 DEF TruncateHosts, vars
  <2>2. writer[p] # NoCall
    BY <2>1 DEF NoCall
  <2>3. writer[p] \in [at : {"read", "truncated"}, host : Seq(Pieces), ip : had[p],
                       lines : Seq(Lines)]
    BY <2>2 DEF HostsInv, Calls
  <2>4. CASE /\ \E i \in DOMAIN writer[p].lines :
                   Contains(writer[p].lines[i].host, writer[p].host)
             /\ writer' = [writer EXCEPT ![p] = NoCall] /\ hosts' = hosts
    <3>1. /\ DOMAIN writer' = Pods /\ writer'[p] = NoCall
          /\ \A q \in Pods \ {p} : writer'[q] = writer[q]
      BY <2>4 DEF HostsInv
    <3> QED
      <4>1. hosts' \in Seq(Lines) /\ Sound(hosts') /\ NoCall \in Calls(p)
        BY <2>4 DEF HostsInv, Calls
      <4> QED
        BY <2>1, <3>1, <4>1, WriterStep
  <2>5. CASE /\ ~\E i \in DOMAIN writer[p].lines :
                   Contains(writer[p].lines[i].host, writer[p].host)
             /\ writer' = [writer EXCEPT ![p].at = "truncated"] /\ hosts' = <<>>
    <3>1. /\ DOMAIN writer' = Pods
          /\ writer'[p] = [writer[p] EXCEPT !.at = "truncated"]
          /\ \A q \in Pods \ {p} : writer'[q] = writer[q]
      BY <2>5 DEF HostsInv
    <3>2. /\ writer'[p] \in Calls(p) /\ writer'[p].at = "truncated"
          /\ writer'[p].lines = writer[p].lines /\ writer'[p].host = writer[p].host
      BY <2>3, <3>1 DEF Calls
    <3>3. ASSUME NEW i \in DOMAIN writer[p].lines
          PROVE  writer[p].lines[i].host # writer[p].host
      BY <2>3, <2>5, ContainsItself
    <3>4. hosts' \in Seq(Lines) /\ Sound(hosts')
      BY <2>5 DEF Sound
    <3> QED
      <4>1. Sound(writer'[p].lines)
        BY <2>2, <3>2 DEF HostsInv
      <4> QED
        BY <2>1, <3>1, <3>2, <3>3, <3>4, <4>1, WriterStep
  <2> QED
    BY <1>4, <2>4, <2>5 DEF TruncateHosts
<1>5. ASSUME NEW p \in Pods, WriteHosts(p) PROVE HostsInv'
  <2>1. /\ writer[p].at = "truncated" /\ UNCHANGED had
        /\ hosts' = Append(writer[p].lines,
                           [host |-> writer[p].host, ip |-> writer[p].ip, pod |-> p])
        /\ writer' = [writer EXCEPT ![p] = NoCall]
    BY <1>5 DEF WriteHosts, vars
  <2>2. writer[p] # NoCall
    BY <2>1 DEF NoCall
  <2>3. writer[p] \in [at : {"read", "truncated"}, host : Seq(Pieces), ip : had[p],
                       lines : Seq(Lines)]
    BY <2>2 DEF HostsInv, Calls
  <2> DEFINE l == [host |-> writer[p].host, ip |-> writer[p].ip, pod |-> p]
  <2>4. l \in Lines /\ l.ip \in had[l.pod] /\ l.host = writer[p].host
    BY <2>3 DEF Lines, Inv, TypeOK
  <2>5. /\ Sound(writer[p].lines)
        /\ \A i \in DOMAIN writer[p].lines : writer[p].lines[i].host # writer[p].host
    BY <2>1, <2>2 DEF HostsInv
  <2> HIDE DEF l
  <2>6. hosts' \in Seq(Lines) /\ Sound(hosts')
    BY <2>1, <2>3, <2>4, <2>5, SoundAppend DEF l
  <2>7. /\ DOMAIN writer' = Pods /\ writer'[p] = NoCall
        /\ \A q \in Pods \ {p} : writer'[q] = writer[q]
    BY <2>1 DEF HostsInv
  <2> QED
    BY <2>1, <2>6, <2>7, WriterStep DEF Calls
<1>6. CASE UNCHANGED allVars
  BY <1>0, <1>6, HostsUnchanged DEF allVars, dnsVars
<1> QED
  BY <1>1, <1>2, <1>3, <1>4, <1>5, <1>6 DEF SNext, PodStep

-----------------------------------------------------------------------------
(* Theorems *)

\* No pod has an entry or a line before it starts.
LEMMA DiscoveryStart == SInit => DiscoveryInvariant
<1> SUFFICES ASSUME SInit PROVE DiscoveryInvariant
  OBVIOUS
<1>1. Inv
  BY InvInit DEF SInit
<1>2. RegistryInv
  BY DEF SInit, RegistryInv
<1>3. hosts \in Seq(Lines) /\ DOMAIN hosts = {}
  BY DEF SInit
<1>4. HostsInv
  BY <1>3 DEF SInit, HostsInv, Sound, Calls, NoCall
<1> QED
  BY <1>1, <1>2, <1>4 DEF DiscoveryInvariant

\* The registry and the hosts file stay sound through every interleaving of pods
\* that start, register, write, leave and release late.
THEOREM DiscoveryInvariantCorrect == ServiceSpec => []DiscoveryInvariant
<1>1. DiscoveryInvariant /\ [SNext]_allVars => DiscoveryInvariant'
  BY DiscoveryStep, InvInductive, RegistryInductive, HostsInductive DEF DiscoveryInvariant
<1> QED
  BY <1>1, DiscoveryStart, PTL DEF ServiceSpec

\* resolve and /etc/hosts never lead to another pod's container.
THEOREM NamesCorrect == ServiceSpec => []NamesNeverMisdirect
<1>1. DiscoveryInvariant => NamesNeverMisdirect
  <2> SUFFICES ASSUME DiscoveryInvariant PROVE NamesNeverMisdirect
    OBVIOUS
  <2>1. \A f \in DOMAIN services : services[f].ip \in held[services[f].pod]
    BY DEF DiscoveryInvariant, RegistryInv
  <2>2. ASSUME NEW i \in DOMAIN hosts, NEW p \in Pods \ {hosts[i].pod}
        PROVE  hosts[i].ip \notin held[p]
    <3>1. hosts \in Seq(Lines)
      BY DEF DiscoveryInvariant, HostsInv
    <3>2. hosts[i] \in Lines
      BY <3>1, LenProperties, ElementOfSeq
    <3>3. hosts[i].pod \in Pods
      BY <3>2 DEF Lines
    <3>4. hosts[i].ip \in had[hosts[i].pod]
      BY DEF DiscoveryInvariant, HostsInv, Sound
    <3> QED
      BY <3>3, <3>4 DEF DiscoveryInvariant, Inv
  <2> QED
    BY <2>1, <2>2 DEF NamesNeverMisdirect
<1> QED
  BY <1>1, DiscoveryInvariantCorrect, PTL

\* Concurrent calls of write_hosts_entry may lose lines but never double one.
THEOREM HostsCorrect == ServiceSpec => []OneHostsLinePerName
<1>1. DiscoveryInvariant => OneHostsLinePerName
  BY DEF DiscoveryInvariant, HostsInv, Sound, OneHostsLinePerName
<1> QED
  BY <1>1, DiscoveryInvariantCorrect, PTL

-----------------------------------------------------------------------------
(* Leaving *)

\* Where a name ends in another, the two agree piece by piece.
LEMMA EndsWithAt ==
    ASSUME NEW s \in Seq(Pieces), NEW t \in Seq(Pieces)
    PROVE  EndsWith(s, t) <=> /\ Len(s) >= Len(t)
                              /\ \A i \in 1..Len(t) : s[Len(s) - Len(t) + i] = t[i]
<1> DEFINE m == Len(s) - Len(t) + 1
           u == SubSeq(s, m, Len(s))
<1>1. Len(s) \in Nat /\ Len(t) \in Nat
  BY LenProperties
<1>2. SUFFICES ASSUME Len(s) >= Len(t)
               PROVE  u = t <=> \A i \in 1..Len(t) : s[Len(s) - Len(t) + i] = t[i]
  BY DEF EndsWith
<1>3. m \in Int /\ Len(s) \in Int /\ \A i \in m..Len(s) : s[i] \in Pieces
  BY <1>1, <1>2, ElementOfSeq
<1>4. /\ u \in Seq(Pieces) /\ Len(u) = IF m <= Len(s) THEN Len(s) - m + 1 ELSE 0
      /\ \A i \in 1..(Len(s) - m + 1) : u[i] = s[m + i - 1]
  BY <1>3, SubSeqProperties
<1>5. Len(u) = Len(t) /\ Len(s) - m + 1 = Len(t)
  BY <1>1, <1>2, <1>4
<1>6. \A i \in 1..Len(t) : u[i] = s[Len(s) - Len(t) + i]
  <2> SUFFICES ASSUME NEW i \in 1..Len(t) PROVE u[i] = s[Len(s) - Len(t) + i]
    OBVIOUS
  <2>1. m + i - 1 = Len(s) - Len(t) + i
    BY <1>1
  <2> QED
    BY <1>4, <1>5, <2>1
<1>7. (\A i \in 1..Len(t) : u[i] = t[i]) => u = t
  BY <1>4, <1>5, SeqEqual
<1> HIDE DEF u, m
<1> QED
  BY <1>6, <1>7

\* The suffix of a pod's names is a dot, the pod's name and two pieces more.
LEMMA SuffixParts ==
    ASSUME NEW n \in Seq(Pieces)
    PROVE  /\ <<".">> \o n \in Seq(Pieces) /\ Len(<<".">> \o n) = Len(n) + 1
           /\ SuffixOf(n) \in Seq(Pieces) /\ Len(SuffixOf(n)) = Len(n) + 3
           /\ SuffixOf(n)[1] = "."
           /\ \A i \in 1..(Len(n) + 1) : SuffixOf(n)[i] = (<<".">> \o n)[i]
<1> DEFINE d == <<".">> \o n
           e == <<".", "garden">>
<1>1. /\ <<".">> \in Seq(Pieces) /\ e \in Seq(Pieces) /\ Len(n) \in Nat
      /\ Len(<<".">>) = 1 /\ <<".">>[1] = "." /\ Len(e) = 2
  BY DiscoveryAssumption, LenProperties
<1>2. /\ d \in Seq(Pieces) /\ Len(d) = 1 + Len(n)
      /\ \A i \in 1..(1 + Len(n)) : d[i] = IF i <= 1 THEN <<".">>[i] ELSE n[i - 1]
  BY <1>1, ConcatProperties
<1>3. d[1] = "."
  BY <1>1, <1>2
<1> HIDE DEF d, e
<1>4. /\ d \o e \in Seq(Pieces) /\ Len(d \o e) = Len(d) + Len(e)
      /\ \A i \in 1..(Len(d) + Len(e)) : (d \o e)[i] = IF i <= Len(d) THEN d[i] ELSE e[i - Len(d)]
  BY <1>1, <1>2, ConcatProperties
<1>5. SuffixOf(n) = d \o e
  BY DEF SuffixOf, d, e
<1>6. \A i \in 1..(Len(n) + 1) : (d \o e)[i] = d[i]
  BY <1>1, <1>2, <1>4
<1> QED
  BY <1>1, <1>2, <1>3, <1>4, <1>5, <1>6 DEF d

\* A name that ends in another pod's suffix has a dot of its own in front, or
\* its pod's name ends in the other's.
LEMMA SuffixOfAnother ==
    ASSUME NEW s \in Seq(Pieces), NEW np \in Seq(Pieces), NEW nq \in Seq(Pieces),
           EndsWith(s \o SuffixOf(nq), SuffixOf(np))
    PROVE  \/ EndsWith(<<".">> \o nq, <<".">> \o np)
           \/ \E i \in 1..(Len(s \o SuffixOf(nq)) - Len(SuffixOf(nq))) :
                 (s \o SuffixOf(nq))[i] = "."
<1> DEFINE sp == SuffixOf(np)
           sq == SuffixOf(nq)
           dp == <<".">> \o np
           dq == <<".">> \o nq
           f == s \o sq
<1>1. /\ dp \in Seq(Pieces) /\ Len(dp) = Len(np) + 1
      /\ sp \in Seq(Pieces) /\ Len(sp) = Len(np) + 3 /\ sp[1] = "."
      /\ \A i \in 1..(Len(np) + 1) : sp[i] = dp[i]
  BY SuffixParts
<1>2. /\ dq \in Seq(Pieces) /\ Len(dq) = Len(nq) + 1
      /\ sq \in Seq(Pieces) /\ Len(sq) = Len(nq) + 3
      /\ \A i \in 1..(Len(nq) + 1) : sq[i] = dq[i]
  BY SuffixParts
<1> HIDE DEF sp, sq, dp, dq
<1>3. /\ f \in Seq(Pieces) /\ Len(f) = Len(s) + Len(sq)
      /\ \A i \in 1..(Len(s) + Len(sq)) : f[i] = IF i <= Len(s) THEN s[i] ELSE sq[i - Len(s)]
  BY <1>2, ConcatProperties
<1>4. Len(s) \in Nat /\ Len(np) \in Nat /\ Len(nq) \in Nat
  BY LenProperties
<1>5. EndsWith(f, sp)
  BY DEF f, sp, sq
<1> HIDE DEF f
<1>6. Len(f) >= Len(sp) /\ \A i \in 1..Len(sp) : f[Len(f) - Len(sp) + i] = sp[i]
  BY <1>1, <1>3, <1>5, EndsWithAt
<1>7. CASE Len(np) > Len(nq)
  <2> DEFINE i == Len(f) - Len(sp) + 1
  <2>1. i \in 1..(Len(f) - Len(sq)) /\ 1 \in 1..Len(sp)
    BY <1>1, <1>2, <1>3, <1>4, <1>6, <1>7
  <2>2. f[i] = "."
    BY <1>1, <1>6, <2>1
  <2> QED
    BY <2>1, <2>2 DEF f, sq
<1>8. CASE Len(np) <= Len(nq)
  <2>1. ASSUME NEW i \in 1..Len(dp) PROVE dq[Len(dq) - Len(dp) + i] = dp[i]
    <3> DEFINE j == Len(dq) - Len(dp) + i
               k == Len(f) - Len(sp) + i
    <3>1. /\ i \in 1..Len(sp) /\ i \in 1..(Len(np) + 1)
          /\ j \in 1..(Len(nq) + 1) /\ k = Len(s) + j
          /\ k \in 1..(Len(s) + Len(sq)) /\ ~(k <= Len(s)) /\ k - Len(s) = j
      BY <1>1, <1>2, <1>3, <1>4, <1>8, <2>1
    <3>2. f[k] = sp[i] /\ sp[i] = dp[i]
      BY <1>1, <1>6, <3>1
    <3> HIDE DEF j, k
    <3>3. f[k] = sq[j] /\ sq[j] = dq[j]
      BY <1>2, <1>3, <3>1
    <3> QED
      BY <3>2, <3>3 DEF j
  <2>2. EndsWith(dq, dp)
    <3>1. Len(dq) >= Len(dp)
      BY <1>1, <1>2, <1>4, <1>8
    <3>2. \A i \in 1..Len(dp) : dq[Len(dq) - Len(dp) + i] = dp[i]
      BY <2>1
    <3>3. dp \in Seq(Pieces) /\ dq \in Seq(Pieces)
      BY <1>1, <1>2
    <3> QED
      BY <3>1, <3>2, <3>3, EndsWithAt
  <2> QED
    BY <2>2 DEF dq, dp
<1> QED
  BY <1>4, <1>7, <1>8

\* unregister_pod_services takes every entry of the pod, and one of another pod
\* only where the names themselves are to blame.
THEOREM UnregisterCorrect == ServiceSpec => UnregisterIsExact
<1> DEFINE Exact(p) ==
      /\ \A f \in DOMAIN services' : services'[f].pod # p
      /\ \A f \in DOMAIN services \ DOMAIN services' :
            LET q == services[f].pod IN q = p \/ Nested(p, q) \/ Dotted(f, q)
<1>1. ASSUME DiscoveryInvariant, NEW p \in Pods, unregister_pod_services(p)
      PROVE  Exact(p)
  <2>1. services' = [f \in {f \in DOMAIN services : ~EndsWith(f, Suffix(p))} |-> services[f]]
    BY <1>1 DEF unregister_pod_services
  <2>2. RegistryInv
    BY <1>1 DEF DiscoveryInvariant
  <2>3. ASSUME NEW f \in DOMAIN services'
        PROVE  services'[f].pod # p
    <3>1. f \in DOMAIN services /\ ~EndsWith(f, Suffix(p)) /\ services'[f] = services[f]
      BY <2>1
    <3>2. ASSUME services[f].pod = p PROVE FALSE
      <4>1. PICK t \in Services : f = fqdn(t, p)
        BY <2>2, <3>1, <3>2 DEF RegistryInv
      <4> QED
        BY <2>2, <3>1, <4>1, NameTypes, ConcatEndsWith DEF fqdn
    <3> QED
      BY <3>1, <3>2
  <2>4. ASSUME NEW f \in DOMAIN services \ DOMAIN services', services[f].pod # p
        PROVE  Nested(p, services[f].pod) \/ Dotted(f, services[f].pod)
    <3> DEFINE q == services[f].pod
    <3>1. f \in DOMAIN services /\ EndsWith(f, SuffixOf(name[p]))
      BY <2>1 DEF Suffix
    <3>2. q \in Pods /\ \E s \in Services : f = fqdn(s, q)
      BY <2>2, <3>1 DEF RegistryInv
    <3> HIDE DEF q
    <3>3. PICK s \in Services : f = s \o SuffixOf(name[q])
      BY <3>2 DEF fqdn, Suffix
    <3>4. s \in Seq(Pieces) /\ name[p] \in Seq(Pieces) /\ name[q] \in Seq(Pieces)
      BY <2>2, <3>2, NameTypes
    <3>5. \/ EndsWith(<<".">> \o name[q], <<".">> \o name[p])
          \/ \E i \in 1..(Len(f) - Len(SuffixOf(name[q]))) : f[i] = "."
      BY <3>1, <3>3, <3>4, SuffixOfAnother
    <3>6. q # p
      BY <2>4 DEF q
    <3>7. Nested(p, q) \/ Dotted(f, q)
      BY <3>5, <3>6 DEF Nested, Dotted, Suffix
    <3> QED
      BY <3>7 DEF q
  <2> QED
    BY <2>3, <2>4
<1>2. DiscoveryInvariant /\ [SNext]_allVars =>
         [\A p \in Pods : unregister_pod_services(p) => Exact(p)]_allVars
  BY <1>1
<1> QED
  BY <1>2, DiscoveryInvariantCorrect, PTL DEF ServiceSpec, UnregisterIsExact
=============================================================================
