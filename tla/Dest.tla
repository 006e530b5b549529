-------------------------------- MODULE Dest --------------------------------
(***************************************************************************)
(* The attempts of one real destination (internal/client/tests_dest.go):   *)
(* dest.dns, dest.tcp, the three handshakes of dest.tls, dest.proto and    *)
(* dest.http, over all rounds, beside the controls of the family.  They    *)
(* run in any order and at the same time and share one thing, the cached   *)
(* resolution: every layer must be on one address or the comparison of the *)
(* handshakes says nothing.  The host may lose its network for a while,    *)
(* the path may lose or delay anything, and where the world is not honest  *)
(* the system resolver lies and the path resets, answers and intercepts.   *)
(* Cancelled attempts are ScanRun's.                                       *)
(***************************************************************************)
EXTENDS DestNames, FiniteSets, FiniteSetsExt

CONSTANTS
    Scans,          \* the scans explored: a dest.Target [fixed, skipDNS, skipTLS, httpCheck, proto]
                    \* and the tests wanted
    Rounds,
    Genuine,        \* the addresses that serve the site
    ResolverCount,
    TrustedA,       \* the A records resolver i gives for the site, and the AAAA records
    TrustedAAAA,
    SystemHonest,   \* what an honest system resolver may answer (geo-DNS), and a lying one
    SystemLies,
    Refusals,       \* the failures of a connect, and of a handshake, an interfering path causes
    Breaks,
    Worlds,         \* the worlds explored, see below
    ReresolveAfter, \* destReresolveAfter
    NoAddr,
    MaxTime         \* model bound: ticks explored

ASSUME DestConstants ==
    /\ Genuine \subseteq Addresses \ Bogons
    /\ ResolverCount \in Nat \ {0}
    /\ {TrustedA, TrustedAAAA} \subseteq [1..ResolverCount -> Seq(Genuine)]
    /\ Worlds \subseteq [exists : BOOLEAN, honest : BOOLEAN, roots : BOOLEAN,
                         usable : {V4, Addresses}]
    /\ SystemHonest \subseteq Seq(Genuine)
    /\ Refusals \subseteq {"connect_reset", "connect_refused"}
    /\ Breaks \subseteq {"midstream_reset", "tls_spoof", "tls_parse_failure", "unexpected_response"}
    /\ {ReresolveAfter, MaxTime} \subseteq Nat
    /\ NoAddr \notin Addresses

VARIABLES
    scan,     \* one of Scans
    world,    \* one of Worlds: [exists, honest, roots, usable], the site, the resolver and the
              \* path, the host's root store and the addresses it has a route to
    outage,   \* "before", "now" or "over"
    clock,
    resolved, \* destState.resolved of the site
    att       \* the attempts

destVars == <<scan, world, outage, clock, resolved, att>>

TestOf(layer) ==
    CASE layer = "anycast" -> "dest.tcp"
      [] layer \in {"real", "decoy", "absent"} -> "dest.tls"
      [] OTHER -> "dest." \o layer

\* The two controls of the family and the layers of the site, of the tests that are wanted.
destPlans(target, wanted) ==
    LET layers == {"nxdomain", "anycast", "tcp"}
                  \cup (IF target.skipDNS THEN {} ELSE {"dns"})
                  \cup (IF target.proto THEN {"proto"}
                        ELSE IF target.skipTLS THEN {}
                        ELSE {"real", "decoy", "absent"}
                             \cup (IF target.httpCheck THEN {"http"} ELSE {}))
    IN {l \in layers : TestOf(l) \in wanted}

Target == scan.target

Attempts == DOMAIN att

LayerOf(a) == a[1]

Controls == {"nxdomain", "anycast"}

\* The layers that put a name, or a protocol, to the site's first address.
OnFirstAddress == {"real", "decoy", "absent", "proto", "http"}

NoResolution == [ips |-> <<>>, source |-> "unset", at |-> 0]

\* ipv6Usable is found out once and holds for the scan.
Init ==
    /\ scan \in Scans
    /\ world \in Worlds
    /\ outage = "before"
    /\ clock = 0
    /\ resolved = NoResolution
    /\ att = [a \in destPlans(Target, scan.wanted) \X Rounds |->
                [pc |-> "todo", res |-> NoResolution, ip |-> NoAddr, out |-> ""]]

----------------------------------------------------------------------------
(* The world: what resolvers and addresses do when asked. *)

\* What a query of resolver i, over either endpoint, may yield for records of one type.
Responses(i, records, exists) ==
    {Failed, Response("OTHER", <<>>)}
    \cup {IF exists THEN Response("NOERROR", records[i]) ELSE Response("NXDOMAIN", <<>>)}

\* ResolveTrusted: every resolver in parallel, an HTTPS endpoint and then the JSON API.
DoHAnswers(i, exists) ==
    LET Endpoint(api) == [api : {api}, A : Responses(i, TrustedA, exists),
                          AAAA : Responses(i, TrustedAAAA, exists)]
    IN {QueryDoH(<<https, json>>) : https \in Endpoint("https"), json \in Endpoint("json")}

TrustedViews ==
    [exists \in BOOLEAN |->
        {TrustedConsensus(answers) :
            answers \in {f \in [1..ResolverCount -> UNION {DoHAnswers(i, exists) : i \in 1..ResolverCount}] :
                           \A i \in 1..ResolverCount : f[i] \in DoHAnswers(i, exists)}}]

ResolverDown == {Failed, Response("TIMEOUT", <<>>)}

\* systemLookup of the site's name.
SystemViews ==
    ResolverDown
    \cup (IF ~ world.honest THEN {Response("NOERROR", ips) : ips \in SystemLies} ELSE {})
    \cup (IF world.exists THEN {Response("NOERROR", ips) : ips \in SystemHonest} ELSE {})
    \cup (IF world.exists /\ world.honest THEN {} ELSE {Response("NXDOMAIN", <<>>)})

\* The answers a resolution may get now: the system's and the consensus.
Views ==
    IF outage = "now" THEN ResolverDown \X {Failed}
    ELSE SystemViews \X TrustedViews[world.exists]

\* The outcomes of destConnectAttempt.
Connects(ip) ==
    IF ip \notin world.usable THEN {"server_error"}
    ELSE {"connect_timeout", "server_error"}
         \cup (IF outage = "now" THEN {} ELSE {"ok"})
         \cup (IF world.honest THEN {} ELSE Refusals)

\* The outcomes of destHandshakeOn and destProtoOn after the connect.  An alert is an answer
\* to the hello and counts as one; the alert to a hello that arrived broken does not.
Handshakes(ip) ==
    {"ok", "payload_timeout", "server_error"}
    \cup (IF world.honest THEN {} ELSE Breaks)

\* The chain presented for the site's name verifies.
Verifies(ip) == ip \in Genuine /\ world.roots

\* destServes: the checks of an address that may come back.  A target without web TLS has no
\* chain to verify.
Serves(ip) ==
    LET Failing(outs) == {ServeResult(FALSE, FALSE, out) : out \in outs \ {"ok"}}
    IN Failing(Connects(ip))
       \cup (IF "ok" \notin Connects(ip) THEN {}
             ELSE Failing(IF Target.skipTLS THEN {} ELSE Handshakes(ip))
                  \cup {ServeResult(TRUE, Target.skipTLS \/ Target.proto \/ Verifies(ip), "")})

----------------------------------------------------------------------------
(* The DNS layer. *)

\* resolveTarget: what is cached.
Resolution(sys, trusted) ==
    LET probe == ProbeAddrs(sys, trusted, world.usable)
        fixed == Prioritize(Target.fixed)
    IN IF Target.skipDNS THEN [ips |-> fixed, source |-> "fixed", at |-> clock]
       ELSE [ips    |-> IF fixed = <<>> THEN probe.ips ELSE Prioritize(fixed \o probe.ips),
             source |-> IF fixed # <<>> /\ probe.source = "none" THEN "fixed" ELSE probe.source,
             at     |-> clock]

\* verifyDisagreement: connect to the system's address, of the trusted one's family if
\* there is one, and to the trusted address.
Verified(sys, trusted) ==
    LET sysIPs     == Usable(Prioritize(sys.ips), world.usable)
        trustedIPs == Usable(Prioritize(trusted.ips), world.usable)
        alike      == Kept(sysIPs, IF Head(trustedIPs) \in V4 THEN V4 ELSE V6)
        sysIP      == Head(IF alike = <<>> THEN sysIPs ELSE alike)
        verdicts   == {judgeDisagreement(s, t) : s \in Serves(sysIP), t \in Serves(Head(trustedIPs))}
    IN IF sysIPs = <<>> \/ trustedIPs = <<>> THEN {"inconclusive"}
       ELSE {CASE v = "poisoned"   -> "dns_answer_mismatch"
               [] v = "unverified" -> "inconclusive"
               [] OTHER            -> "ok" : v \in verdicts}

\* resolveTarget: the outcomes of a dest.dns attempt.
DNSOutcomes(sys, trusted) ==
    IF Tampered(sys, trusted) THEN {"dns_answer_mismatch"}
    ELSE IF trusted.rcode \in {"ERROR", "OTHER"} /\ trusted.ips = <<>> THEN {"inconclusive"}
    ELSE IF sys.rcode = "TIMEOUT" THEN {"dns_timeout"}
    ELSE IF sys.rcode = "ERROR" THEN {"inconclusive"}
    ELSE IF trusted.rcode = "NXDOMAIN" /\ sys.ips = <<>> THEN {"dns_rcode"}
    ELSE IF Disagree(sys, trusted) THEN Verified(sys, trusted)
    ELSE {"ok"}

\* Mutant: the latest resolution that produced addresses is in force.
destStoreLast(r) == IF r.ips # <<>> THEN r ELSE resolved

\* The resolution in force once r is stored: the first that produced addresses.
destStore(r) == IF resolved.ips # <<>> THEN resolved ELSE r

\* Mutant: a resolution is kept for good.
CachedForGood == resolved.source # "unset"

\* destResolve answers from the cache; a resolution without an address is not kept for good.
Cached == resolved.source # "unset"
          /\ (resolved.ips # <<>> \/ clock - resolved.at < ReresolveAfter)

\* What a layer does with the resolution it is given.
Take(a, r) ==
    att' = [att EXCEPT ![a] =
              IF r.ips = <<>> THEN [@ EXCEPT !.pc = "done", !.out = "skipped"]
              ELSE [@ EXCEPT !.pc = "probing", !.res = r, !.ip = Head(r.ips)]]

Start(a) ==
    /\ att[a].pc = "todo" /\ LayerOf(a) \notin Controls
    /\ IF LayerOf(a) # "dns" /\ Cached
       THEN Take(a, resolved)
       ELSE att' = [att EXCEPT ![a].pc = "resolving"]
    /\ UNCHANGED <<scan, world, outage, clock, resolved>>

Resolve(a) ==
    /\ att[a].pc = "resolving"
    /\ \E view \in Views :
       \E out \in IF LayerOf(a) = "dns" THEN DNSOutcomes(view[1], view[2]) ELSE {""} :
          att' = [att EXCEPT ![a].pc = "storing", ![a].out = out,
                             ![a].res = Resolution(view[1], view[2])]
    /\ UNCHANGED <<scan, world, outage, clock, resolved>>

Store(a) ==
    /\ att[a].pc = "storing"
    /\ resolved' = destStore(att[a].res)
    /\ IF LayerOf(a) = "dns"
       THEN att' = [att EXCEPT ![a].pc = "done", ![a].res = NoResolution]
       ELSE Take(a, resolved')
    /\ UNCHANGED <<scan, world, outage, clock>>

----------------------------------------------------------------------------
(* The transport layers and the controls. *)

End(a, out) ==
    /\ att' = [att EXCEPT ![a].pc = "done", ![a].out = out, ![a].res = NoResolution]
    /\ UNCHANGED <<scan, world, outage, clock, resolved>>

\* destTCP: the first four addresses until one connects.  An address the host itself
\* failed to dial is no evidence: the path's outcome of another one goes first.
destTCP(a) ==
    LET tried == SubSeq(att[a].res.ips, 1, Min({4, Len(att[a].res.ips)})) IN
    /\ LayerOf(a) = "tcp" /\ att[a].pc = "probing"
    /\ \/ \E ip \in ToSet(tried) : "ok" \in Connects(ip) /\ End(a, "ok")
       \/ \E ip \in ToSet(tried) : \E out \in Connects(ip) \ {"ok", "server_error"} : End(a, out)
       \/ (\A ip \in ToSet(tried) : "server_error" \in Connects(ip)) /\ End(a, "server_error")

\* destTLS: connect, then the handshake.
destTLS(a) ==
    /\ LayerOf(a) \in {"real", "decoy", "absent"} /\ att[a].pc = "probing"
    /\ \/ \E out \in Connects(att[a].ip) \ {"ok"} : End(a, out)
       \/ "ok" \in Connects(att[a].ip) /\ \E out \in Handshakes(att[a].ip) : End(a, out)

\* destProto: the same with the opening exchange of the target's own protocol.
destProto(a) ==
    /\ LayerOf(a) = "proto" /\ att[a].pc = "probing"
    /\ \/ \E out \in Connects(att[a].ip) \ {"ok"} : End(a, out)
       \/ /\ "ok" \in Connects(att[a].ip)
          /\ \E out \in Handshakes(att[a].ip) \ {"tls_spoof", "tls_parse_failure"} : End(a, out)

\* destHTTPCheck: connect and handshake with real verification, then the status of the service.
destHTTPCheck(a) ==
    /\ LayerOf(a) = "http" /\ att[a].pc = "probing"
    /\ \/ \E out \in (Connects(att[a].ip) \cup Handshakes(att[a].ip)) \ {"ok"} : End(a, out)
       \/ /\ "ok" \in Connects(att[a].ip)
          /\ \/ ~ Verifies(att[a].ip) /\ End(a, "cert_mismatch")
             \/ \E status \in {200, 403, 451} :
                   End(a, IF ClassifyHTTP(status) THEN "http_legal_block" ELSE "ok")

\* A fresh name under .invalid: nobody has an address for it, the trusted resolvers, asked
\* over verified TLS, included.
destNXDomain(a) ==
    /\ LayerOf(a) = "nxdomain" /\ att[a].pc = "todo"
    /\ \E sys \in ResolverDown \cup {Response("NXDOMAIN", <<>>)}
                  \cup (IF world.honest THEN {} ELSE {Response("NOERROR", ips) : ips \in SystemLies}) :
          End(a, IF sys.ips # <<>> THEN "dns_answer_mismatch"
                 ELSE IF sys.rcode = "TIMEOUT" THEN "dns_timeout"
                 ELSE IF sys.rcode = "ERROR" THEN "inconclusive" ELSE "ok")

\* The first of the anycast addresses that connects, else the last one's failure.
destTCPControl(a) ==
    /\ LayerOf(a) = "anycast" /\ att[a].pc = "todo"
    /\ \E ip \in V4 : \E out \in Connects(ip) : End(a, out)

----------------------------------------------------------------------------
Tick ==
    /\ clock < MaxTime
    /\ clock' = clock + 1
    /\ UNCHANGED <<scan, world, outage, resolved, att>>

Outage ==
    /\ outage' = CASE outage = "before" -> "now" [] OTHER -> "over"
    /\ outage # "over"
    /\ UNCHANGED <<scan, world, clock, resolved, att>>

Finished == (\A a \in Attempts : att[a].pc = "done") /\ UNCHANGED destVars

Next ==
    \/ Tick
    \/ Outage
    \/ \E a \in Attempts :
          \/ Start(a)
          \/ Resolve(a)
          \/ Store(a)
          \/ destTCP(a)
          \/ destTLS(a)
          \/ destProto(a)
          \/ destHTTPCheck(a)
          \/ destNXDomain(a)
          \/ destTCPControl(a)
    \/ Finished

Spec == Init /\ [][Next]_destVars

----------------------------------------------------------------------------
(* Properties *)

\* The handshakes of a site with its name, a decoy and none, and its HTTP check, all go to
\* one address, whatever the order in which attempts resolve, store and find the cache
\* (destStore: "the SNI differential needs every layer on one address").
OneAddress ==
    \A a, b \in Attempts :
        /\ LayerOf(a) \in OnFirstAddress /\ att[a].ip # NoAddr
        /\ LayerOf(b) \in OnFirstAddress /\ att[b].ip # NoAddr
        => att[a].ip = att[b].ip

\* An honest resolver is never called poisoned, or hijacked, by answers that are lost, come
\* late or come from another region of a CDN, by a host off the network, without IPv6 or
\* with a broken root store (verifyDisagreement: "A check that could not finish verifies
\* nothing: the attempt is inconclusive, never poisoning").
HonestNeverPoisoned ==
    world.honest => \A a \in Attempts : att[a].out # "dns_answer_mismatch"

\* No attempt is skipped for want of an address once any attempt of the site has had one,
\* nor on a cached failure as old as destReresolveAfter (destResolve: "one taken during an
\* outage would otherwise leave every later layer of the site skipped").
SkipJustified ==
    [][\A a \in Attempts :
          att[a].out # "skipped" /\ att'[a].out = "skipped" =>
             /\ \A b \in Attempts : att[b].ip = NoAddr
             /\ att[a].pc = "storing" \/ clock - resolved.at < ReresolveAfter]_destVars
=============================================================================
