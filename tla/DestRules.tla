------------------------------ MODULE DestRules ------------------------------
(***************************************************************************)
(* The verdicts on real destinations and the summary of a site             *)
(* (internal/classify/dest.go).  There is no server half: a layer of a     *)
(* site is compared with the anycast address, with a site that resolves,   *)
(* and with other names on the same address.                               *)
(***************************************************************************)
EXTENDS Rules

resolverMinSites == 2

destFailed(c) == fail(c) /\ dominant(c) \notin {"skipped", "inconclusive", "server_error"}

\* The failure happened before any payload was written: the address is what failed.
connectStage(c) == dominant(c) \in {"connect_timeout", "connect_reset", "connect_refused"}

\* The measured failures are all handshakes that ran out of time.
timedOutOnly(c) ==
    /\ Outcomes(c, "payload_timeout") > 0
    /\ \A a \in c.attempts : a.outcome \in {"ok", "payload_timeout"} \cup unmeasuredMerged

rttMaxConnect == 1000

UsableRTT(rtt) == rtt > 0 /\ rtt < rttMaxConnect

\* rttEarlyShare is four fifths.
ResetBeforeRTT(reset, rtt) == UsableRTT(rtt) /\ reset * 5 < rtt * 4

\* The shortest dial to the address that measured the round trip, 0 if none did.
minRTT(plan, attempts, transient, ip) ==
    LET rtts == {a.connect : a \in {b \in attempts \ transient :
                    /\ IsDestTest(plan[b.cell].test) /\ b.ip = ip /\ ip # ""
                    /\ ~ b.cancelled /\ UsableRTT(b.connect)}}
    IN IF rtts = {} THEN 0 ELSE Min(rtts)

\* How many of the cell's measured attempts were reset sooner than a round trip.
earlyResets(plan, attempts, transient, c) ==
    LET RTT(a) == LET best == minRTT(plan, attempts, transient, a.ip)
                  IN IF best > 0 /\ (best < a.connect \/ ~ UsableRTT(a.connect)) THEN best ELSE a.connect
    IN Cardinality({a \in c.measured : /\ a.outcome = "midstream_reset" /\ a.connect > 0
                                        /\ ResetBeforeRTT(a.reset, RTT(a))})

nxdomainVerdict(nx) ==
    IF destFailed(nx) /\ dominant(nx) = "dns_answer_mismatch"
    THEN {Verdict("nxdomain_hijack_suspected", Key(nx),
                   IF nx.Measured >= mediumMinAttempts THEN "medium" ELSE "low", <<>>)}
    ELSE {}

----------------------------------------------------------------------------
\* What the family says of all sites: its controls, and a resolver that fails for most.
FamilyControls(cells) ==
    LET dns == {i \in DOMAIN cells : cells[i].test = "dest.dns"}
        Failing(out) == Cardinality({i \in dns : destFailed(cells[i]) /\ dominant(cells[i]) = out})
        passing  == {i \in dns : pass(cells[i])}
        baseline == {i \in passing : cells[i].role = "baseline"}
        control  == FirstOf(cells, IF baseline # {} THEN baseline ELSE passing)
        anycast  == find(cells, "dest.tcp", "tcp", 443, "anycast")
    IN [dnsControl  |-> control,
        anycast     |-> anycast,
        transportOK |-> pass(anycast),
        timeouts    |-> Failing("dns_timeout"),
        systemDown  |-> dns # {} /\ Failing("dns_timeout") * 2 >= Cardinality(dns),
        systemUnreliable |-> /\ ~ found(control)
                             /\ Failing("dns_answer_mismatch") >= resolverMinSites
                             /\ Failing("dns_answer_mismatch") * 2 >= Cardinality(dns)]

FamilyVerdicts(fam) ==
    (IF fam.anycast.Measured > 0 /\ ~ pass(fam.anycast)
     THEN {Verdict("control_failed_inconclusive", Key(fam.anycast), "low", <<>>)} ELSE {})
    \cup (IF fam.systemDown
        THEN {Verdict("system_resolver_unreachable_suspected", <<"dest.dns", "udp", 53>>,
                       IF fam.transportOK /\ fam.timeouts >= resolverMinSites THEN "medium" ELSE "low",
                       Key(fam.anycast))} ELSE {})
    \cup (IF fam.systemUnreliable
        THEN {Verdict("system_resolver_unreliable_suspected", <<"dest.dns", "udp", 53>>, "low", <<>>)}
        ELSE {})

DNSVerdict(dns, fam) ==
    LET Poisoned(conf, control) ==
            {Verdict("dest_dns_poisoning_suspected", Key(dns), conf, Key(control))}
    IN IF ~ destFailed(dns) THEN {}
       ELSE IF dominant(dns) = "dns_answer_mismatch"
       THEN IF found(fam.dnsControl)
            THEN Poisoned(Capped(confidence(dns, fam.dnsControl)), fam.dnsControl)
            ELSE IF ~ fam.systemUnreliable THEN Poisoned("low", NoCell) ELSE {}
       ELSE IF dominant(dns) = "dns_timeout" /\ ~ fam.systemDown /\ fam.transportOK
       THEN Poisoned("low", fam.anycast)
       ELSE {}

TCPVerdict(tcp, fam) ==
    IF destFailed(tcp) /\ fam.transportOK
    THEN {Verdict(CASE dominant(tcp) = "connect_timeout" -> "dest_tcp_blackhole_suspected"
                     [] dominant(tcp) \in {"connect_reset", "connect_refused"} -> "dest_tcp_reset_suspected"
                     [] OTHER -> "dest_tcp_blocking_suspected",
                   Key(tcp), Capped(confidence(tcp, fam.anycast)), Key(fam.anycast))}
    ELSE {}

\* The handshake is judged: TCP passed, or measured nothing and the handshakes connected.
PastTCP(tcp, c) == pass(tcp) \/ (tcp.Measured = 0 /\ ~ connectStage(c))

\* The site's first address does not accept, another one does.
FirstAddress(c, fam) ==
    IF fam.transportOK
    THEN {Verdict("dest_tcp_blackhole_suspected", Key(c), "low", Key(fam.anycast))}
    ELSE {}

\* Mutant: a handshake that never left the host blames the name.
TLSVerdictAny(real, decoy, absent, tcp, early, fam) ==
    IF destFailed(real) /\ PastTCP(tcp, real) /\ pass(decoy)
    THEN {Verdict("dest_sni_blocking_suspected", Key(real), Capped(confidence(real, decoy)), Key(decoy))}
    ELSE {}

\* The handshake with the site's name, beside a decoy name and none on the same address.
TLSVerdict(real, decoy, absent, tcp, early, fam) ==
    IF ~ (destFailed(real) /\ PastTCP(tcp, real)) THEN {}
    ELSE IF connectStage(real) THEN FirstAddress(real, fam)
    ELSE IF pass(decoy)
    THEN {Verdict("dest_sni_blocking_suspected", Key(real), Capped(confidence(real, decoy)), Key(decoy))}
    ELSE IF /\ dominant(real) = "midstream_reset" /\ destFailed(decoy) /\ timedOutOnly(decoy)
            /\ ~ found(absent) \/ timedOutOnly(absent) \/ pass(absent)
    THEN {Verdict("dest_sni_blocking_suspected", Key(real),
                   IF early = real.Measured /\ early >= mediumMinAttempts THEN "medium" ELSE "low", Key(decoy))}
    ELSE IF destFailed(decoy)
    THEN {Verdict("dest_tls_blocking_suspected", Key(real), Capped(confidence(real, tcp)), Key(tcp))}
    ELSE {Verdict("dest_tls_blocking_suspected", Key(real), "low", Key(tcp))}

\* A target with its own protocol has no decoy: the control is TCP to the address.
ProtoVerdict(proto, tcp, fam) ==
    IF ~ (destFailed(proto) /\ PastTCP(tcp, proto)) THEN {}
    ELSE IF connectStage(proto) THEN FirstAddress(proto, fam)
    ELSE {Verdict("dest_proto_blocking_suspected", Key(proto), Capped(confidence(proto, tcp)), Key(tcp))}

HTTPVerdict(http, real) ==
    IF ~ (destFailed(http) /\ pass(real)) THEN {}
    ELSE IF dominant(http) = "http_legal_block"
    THEN {Verdict("dest_legal_block_suspected", Key(http),
                   IF http.Measured >= mediumMinAttempts THEN "medium" ELSE "low", Key(real))}
    ELSE IF dominant(http) = "cert_mismatch"
    THEN {Verdict("dest_tls_interception_suspected", Key(http), "low", Key(real))}
    ELSE {}

\* A layer of a site, not a control of the family.
OfSite(c) == IsDestTest(c.test) /\ c.test # "dest.nxdomain" /\ c.variant # "anycast"

Domains(cells) == {c.domain : c \in {e \in ToSet(cells) : OfSite(e)}}

SiteCell(cells, domain, test, variant) ==
    FirstOf(cells, {i \in DOMAIN cells : cells[i].domain = domain /\ cells[i].test = test /\ cells[i].variant = variant})

\* The layers of a site, from the name down.
SiteVerdicts(plan, attempts, transient, cells, d, fam) ==
    LET Layer(test) == SiteCell(cells, d, test, "site")
        tcp  == Layer("dest.tcp")
        real == Layer("dest.tls")
    IN DNSVerdict(Layer("dest.dns"), fam)
       \cup TCPVerdict(tcp, fam)
       \cup TLSVerdict(real, SiteCell(cells, d, "dest.tls", "decoy"), SiteCell(cells, d, "dest.tls", "absent"), tcp,
                       earlyResets(plan, attempts, transient, real), fam)
       \cup ProtoVerdict(Layer("dest.proto"), tcp, fam)
       \cup HTTPVerdict(Layer("dest.http"), real)

AllSites(plan, attempts, transient, cells, fam) ==
    FamilyVerdicts(fam) \cup UNION {SiteVerdicts(plan, attempts, transient, cells, d, fam) : d \in Domains(cells)}

destVerdicts(plan, attempts, transient, cells) ==
    nxdomainVerdict(SiteCell(cells, "", "dest.nxdomain", "invalid"))
    \cup (IF Domains(cells) = {} THEN {}
          ELSE AllSites(plan, attempts, transient, cells, FamilyControls(cells)))

----------------------------------------------------------------------------
(* The summary of a site. *)

destOrder ==
    <<"dest_dns_poisoning_suspected", "dest_tcp_blackhole_suspected", "dest_tcp_reset_suspected",
      "dest_tcp_blocking_suspected", "dest_sni_blocking_suspected", "dest_tls_blocking_suspected",
      "dest_proto_blocking_suspected", "dest_legal_block_suspected", "dest_tls_interception_suspected">>

layerOf(test, variant) ==
    CASE test = "dest.dns"   -> "dns"
      [] test = "dest.tcp"   -> "tcp"
      [] test = "dest.http"  -> "http"
      [] test = "dest.proto" -> "proto"
      [] OTHER               -> IF variant = "site" THEN "tls" ELSE variant

layerValue(c) ==
    CASE c.Measured = 0     -> dominant(c)
      [] c.OK = c.Measured -> "ok"
      [] c.OK = 0           -> dominant(c)
      [] OTHER               -> "mixed"

\* Mutant: a layer that measured nothing is no reason for doubt.
siteVerdictLenient(layers, hasTLS) ==
    IF \A l \in DOMAIN layers : layers[l] \in {"ok", "skipped"} THEN "clear" ELSE "degraded"

\* A site no verdict kind covers.  A control that fails on its own is not its problem, and
\* what was not measured is not clear.
siteVerdict(layers, hasTLS) ==
    LET Is(l, v) == l \in DOMAIN layers /\ layers[l] = v
        own        == {l \in DOMAIN layers : l \notin {"decoy", "absent"} /\ layers[l] # "ok"}
        unassessed == {l \in own : layers[l] \in unmeasuredMerged}
        reached    == IF hasTLS THEN Is("tls", "ok") \/ Is("http", "ok")
                      ELSE IF "proto" \in DOMAIN layers THEN Is("proto", "ok") ELSE Is("tcp", "ok")
    IN IF Is("dns", "dns_rcode") THEN "nxdomain"
       ELSE IF own \ unassessed # {} THEN "degraded"
       ELSE IF unassessed \cap {"dns", "http"} # {} \/ ~ reached THEN "inconclusive"
       ELSE "clear"

\* What the layers of a site read.  A layer whose every attempt is left out of the cells for
\* an outage reads "skipped".
Layers(plan, attempts, transient, d) ==
    LET Layer(i)  == layerOf(plan[i].test, plan[i].variant)
        Result(i) == CellAt(plan, attempts, transient, i)
        mine  == {i \in DOMAIN plan : OfSite(plan[i]) /\ plan[i].domain = d /\ found(Result(i))}
        shown == {Layer(i) : i \in mine}
        lost  == {Layer(a.cell) : a \in {b \in attempts \cap transient : plan[b.cell].domain = d}}
    IN [l \in shown \cup lost |->
          IF l \in shown THEN layerValue(Result(CHOOSE i \in mine : Layer(i) = l)) ELSE "skipped"]

\* Per site of the attempts: the first of destOrder that a verdict on it names, else its
\* summary.
Destinations(plan, attempts, transient, verdicts) ==
    LET sites == {plan[a.cell].domain : a \in attempts} \ {""}
        Kinds(d) == {i \in DOMAIN destOrder : \E v \in verdicts : v.kind = destOrder[i] /\ v.subject[5] = d}
        HasTLS(d) == \E a \in attempts : /\ plan[a.cell].domain = d /\ plan[a.cell].test = "dest.tls"
                                         /\ plan[a.cell].variant = "site"
    IN [d \in sites |-> IF Kinds(d) # {} THEN destOrder[Min(Kinds(d))]
                        ELSE siteVerdict(Layers(plan, attempts, transient, d), HasTLS(d))]
=============================================================================
