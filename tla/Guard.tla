-------------------------------- MODULE Guard --------------------------------
(***************************************************************************)
(* src/sitesift/net/guard.py: which resolved addresses a fetch may connect  *)
(* to.  An address is known by how it is written (plain IPv4 or IPv6, or an *)
(* IPv6 form that carries an IPv4 address) and by the kind of the address   *)
(* it is or carries; the networks of the code are sets of such addresses.   *)
(***************************************************************************)
EXTENDS Integers, SequencesExt

CONSTANTS
    AllowedPorts,   \* settings: the ports a URL may name
    AllowPrivate,   \* the test-only escape hatch
    None            \* no port in the URL, or nothing embedded

Plain == {"v4", "v6"}
Carriers == {"mapped", "sixtofour", "nat64", "teredo"}
Kinds == {"public", "private", "cgnat", "wireserver", "multicast"}
Addresses == [form : {"v4"} \cup Carriers, kind : Kinds]
             \cup [form : {"v6"}, kind : {"public", "private", "multicast"}]

ASSUME GuardAssumption ==
    /\ AllowedPorts \subseteq Nat
    /\ AllowPrivate \in BOOLEAN
    /\ None \notin Int \cup Addresses

\* _EXTRA_BLOCKED.  A network of one version contains no address of the other,
\* so a mapped CGNAT address is in none of them.
ExtraBlocked(ip) ==
    \/ ip.form = "v4" /\ ip.kind \in {"cgnat", "wireserver"}
    \/ ip.form \in {"nat64", "teredo", "sixtofour"}

\* ipaddress: is_global of a plain address; multicast and WireServer count as
\* global, which is why the code asks for them by name.
IsGlobal(ip) == ip.kind \in {"public", "wireserver", "multicast"}
IsMulticast(ip) == ip.kind = "multicast"

\* ip.ipv4_mapped or ip.sixtofour
Embedded(ip) ==
    IF ip.form \in {"mapped", "sixtofour"} THEN [form |-> "v4", kind |-> ip.kind] ELSE None

-----------------------------------------------------------------------------
\* Slip: the explicit ranges are not looked up again for an embedded address.
ValidateIpOnce(ip) ==
    \/ AllowPrivate
    \/ LET checkable == IF Embedded(ip) # None THEN Embedded(ip) ELSE ip
       IN  ~ExtraBlocked(ip) /\ IsGlobal(checkable) /\ ~IsMulticast(checkable)

\* validate_ip, TRUE where it returns.
ValidateIp(ip) ==
    \/ AllowPrivate
    \/ LET checkable == IF Embedded(ip) # None THEN Embedded(ip) ELSE ip
       IN  /\ ~ExtraBlocked(ip)
           /\ Embedded(ip) # None => ~ExtraBlocked(checkable)
           /\ IsGlobal(checkable)
           /\ ~IsMulticast(checkable)

ValidatePort(port) == port = None \/ port \in AllowedPorts

\* Slip: every address is kept as often as it is answered.
DedupeNever(infos) == [i \in DOMAIN infos |-> infos[i].ip]

\* getaddrinfo answers with addresses that may carry a zone; the zone goes and
\* each address stays where it first appears.
Dedupe(infos) ==
    LET kept[k \in 0..Len(infos)] ==
            IF k = 0 THEN <<>>
            ELSE IF Contains(kept[k - 1], infos[k].ip) THEN kept[k - 1]
            ELSE Append(kept[k - 1], infos[k].ip)
    IN  kept[Len(infos)]

\* resolve_and_validate: the addresses the caller may pin, none if it raises.
\* A failed resolution is an empty answer: both end in SSRFBlocked.
ResolveAndValidate(port, infos) ==
    LET ips == Dedupe(infos)
    IN  IF ValidatePort(port) /\ \A ip \in ToSet(ips) : ValidateIp(ip) THEN ips ELSE <<>>

-----------------------------------------------------------------------------
\* The reference: an address and every address it can lead to.
Targets(ip) ==
    {ip} \cup IF ip.form \in Carriers THEN {[form |-> "v4", kind |-> ip.kind]} ELSE {}

Public(ip) == ip.kind = "public"
=============================================================================
