-------------------------------- MODULE Rules --------------------------------
(***************************************************************************)
(* The differential rules of the classifier for the tests that run against *)
(* the server (internal/classify: rules*.go).  Every rule reads the cells  *)
(* and is the set of the verdicts it adds; the wording of the evidence is  *)
(* left out but for two things: the control cell a verdict names, and the  *)
(* mechanisms rule 7 attaches to verdicts of the rules before it.          *)
(***************************************************************************)
EXTENDS Cells

Verdict(kind, subject, conf, control) ==
    [kind |-> kind, subject |-> subject, confidence |-> conf, control |-> control, mechanisms |-> {}]

\* The first and the last of the cells at these places, NoCell if there is none.
FirstOf(cells, places) == IF places = {} THEN NoCell ELSE cells[Min(places)]

LastOf(cells, places) == IF places = {} THEN NoCell ELSE cells[Max(places)]

\* The first cell of a test on a port; the variant "any" matches every one.
find(cells, test, transport, port, variant) ==
    FirstOf(cells, {i \in DOMAIN cells : /\ cells[i].test = test /\ cells[i].transport = transport
                                         /\ cells[i].port = port /\ variant \in {"any", cells[i].variant}})

----------------------------------------------------------------------------
(* The families. *)

handshakeTestOf(test) ==
    CASE test = "wireguard.session" -> "wireguard.init"
      [] test = "openvpn.session"   -> "openvpn.reset"
      [] test = "ikev2.session"     -> "ikev2.init"
      [] test = "l2tp.session"      -> "l2tp.init"
      [] test = "socks5.session"    -> "socks5.connect"
      [] test = "vless.session"     -> "vless.reality"
      [] test = "tor.link"          -> "tor.handshake"
      [] test = "obfs4.session"     -> "obfs4.handshake"
      [] OTHER                      -> ""

\* A session variant is the handshake variant of the same signature and a suffix.
handshakeVariantOf(variant) ==
    CASE variant = "noise-ik+data"             -> "noise-ik"
      [] variant = "udp+control+data"          -> "udp"
      [] variant = "udp+tls-auth+control+data" -> "udp+tls-auth"
      [] OTHER                                 -> variant

plainTestFor(transport, name) ==
    LET Of(udp, tcp) == IF transport = "udp" THEN udp ELSE tcp
    IN CASE name = "echo"           -> Of("udp.echo", "tcp.echo")
         [] name = "packets"        -> Of("udp.packets", "tcp.packets")
         [] name = "payload.random" -> Of("udp.payload.random", "tcp.payload.random")

echoTestFor(transport) == plainTestFor(transport, "echo")

DNSTests == {"dns.udp", "dns.tcp", "dns.dot", "dns.doh", "dns.system"}

isAppProtocol(test) ==
    test \in DNSTests \cup {"http.host", "tor.dir", "tls.sni", "tls.version", "tls.alpn",
                            "tls.fingerprint", "tls.burst"}

nativeTests ==
    {"tcp.bulk", "openvpn.reset", "wireguard.init", "openvpn.session", "wireguard.session", "ikev2.init",
     "ikev2.session", "l2tp.init", "l2tp.session", "socks5.connect", "socks5.session", "vless.reality",
     "vless.session", "quic.v1", "tls.sni", "tls.version", "tls.alpn", "tls.fingerprint", "http.host",
     "dns.udp", "dns.tcp", "dns.dot", "tor.handshake", "tor.link", "tor.dir", "obfs4.handshake",
     "obfs4.session", "dtls.hello", "stun.binding"}

IsDestTest(test) ==
    test \in {"dest.dns", "dest.tcp", "dest.tls", "dest.http", "dest.proto", "dest.nxdomain"}

\* The handshake-only control of a session cell: of the same signature, of the same name, any.
handshakeCell(cells, c) ==
    LET hs == handshakeTestOf(c.test)
        Of(variant) == find(cells, hs, c.transport, c.port, variant)
    IN IF hs = "" THEN NoCell
       ELSE IF found(Of(handshakeVariantOf(c.variant))) THEN Of(handshakeVariantOf(c.variant))
       ELSE IF found(Of(c.variant)) THEN Of(c.variant)
       ELSE Of("any")

\* The places of the baselines.
baselines(cells) == {i \in DOMAIN cells : cells[i].test \in {"tcp.echo", "udp.echo"}}

----------------------------------------------------------------------------
(* Rules 1-3: the baselines. *)

\* Every baseline on every port fails.
ruleEndpoint(cells) ==
    IF baselines(cells) # {} /\ \A i \in baselines(cells) : fail(cells[i])
    THEN {Verdict("endpoint_blocking_suspected", <<"all baseline echo tests">>, "medium", <<>>)}
    ELSE {}

\* The echo fails on a port and passes on another: the port is blocked, or relays only what
\* it can parse when an application protocol passes on it.
rulePortOrProxy(cells) ==
    LET Passing(tr) == FirstOf(cells, {i \in baselines(cells) : cells[i].transport = tr /\ pass(cells[i])})
        Finding(f) ==
            LET other == FirstOf(cells, {i \in DOMAIN cells :
                                           /\ cells[i].transport = f.transport /\ cells[i].port = f.port
                                           /\ pass(cells[i]) /\ isAppProtocol(cells[i].test)})
            IN IF found(other)
               THEN Verdict("transparent_proxy_suspected", portKey(f.transport, f.port), confidence(f, other), Key(other))
               ELSE Verdict("port_blocking_suspected", portKey(f.transport, f.port),
                            confidence(f, Passing(f.transport)), Key(Passing(f.transport)))
    IN {Finding(cells[i]) : i \in {j \in baselines(cells) : fail(cells[j]) /\ found(Passing(cells[j].transport))}}

\* Every UDP baseline fails while a TCP one passes.
ruleUDP(cells) ==
    LET Of(tr)  == {i \in baselines(cells) : cells[i].transport = tr}
        tcpPass == FirstOf(cells, {i \in Of("tcp") : pass(cells[i])})
    IN IF found(tcpPass) /\ Of("udp") # {} /\ \A i \in Of("udp") : fail(cells[i])
       THEN {Verdict("udp_blocking_suspected", <<"all udp ports">>, "medium", Key(tcpPass))}
       ELSE {}

----------------------------------------------------------------------------
(* Rules 4-5: a protocol, a variant of it. *)

\* The places of the cells of c's family.
sameFamily(cells, c) == {i \in DOMAIN cells : familyKey(cells[i]) = familyKey(c)}

\* A cell that measured nothing does not count either way.
familyFails(cells, c) == \A i \in sameFamily(cells, c) : cells[i].Measured > 0 => fail(cells[i])

natDetected(attempts) == \E a \in attempts : a.nat

\* A native handshake fails on a port while echo and random payloads pass: one verdict for its
\* family.  A session whose handshake passes is rule 5c's, one whose handshake fails is covered
\* by the handshake.
ruleProtocol(cells, attempts) ==
    LET Echo(c)    == find(cells, echoTestFor(c.transport), c.transport, c.port, "any")
        Random(c)  == find(cells, plainTestFor(c.transport, "payload.random"), c.transport, c.port, "any")
        failing == {i \in DOMAIN cells : /\ cells[i].test \in nativeTests /\ fail(cells[i])
                                         /\ ~ pass(handshakeCell(cells, cells[i]))
                                         /\ ~ fail(handshakeCell(cells, cells[i]))
                                         /\ pass(Echo(cells[i])) /\ cells[i].role # "control"}
        blocked == {i \in failing : /\ ~ found(Random(cells[i])) \/ pass(Random(cells[i]))
                                    /\ familyFails(cells, cells[i])}
        Conf(c) == IF /\ c.test \in {"ikev2.init", "ikev2.session", "l2tp.init", "l2tp.session"}
                      /\ natDetected(attempts)
                   THEN Capped(confidence(c, Echo(c))) ELSE confidence(c, Echo(c))
    IN {Verdict("control_failed_inconclusive", Key(cells[i]), "low", Key(Echo(cells[i]))) :
           i \in {j \in failing : fail(Random(cells[j]))}}
       \cup {Verdict("protocol_blocking_suspected", familyKey(cells[i]), Conf(cells[i]), Key(Echo(cells[i]))) :
               i \in {j \in blocked : \A k \in blocked \cap sameFamily(cells, cells[j]) : j <= k}}

\* The passing cell the variants of a family on a port are compared with: the baseline (the
\* last; for vless the control), else any other that passes.
variantBaseline(cells, v) ==
    LET family  == sameFamily(cells, v)
        base    == LastOf(cells, {i \in family : cells[i].role = "baseline"})
        control == FirstOf(cells, {i \in family : /\ cells[i].role = "control"
                                                  /\ v.test \in {"vless.reality", "vless.session"}})
        nominal == IF found(base) THEN base ELSE control
    IN IF pass(nominal) THEN nominal
       ELSE FirstOf(cells, {i \in family : pass(cells[i]) /\ cells[i].role # "control"})

variantKind(test, variant) ==
    CASE test \in {"tls.sni", "http.host"} ->
            IF variant = "trigger" THEN "sni_or_host_blocking_suspected" ELSE "sni_or_host_policy_suspected"
      [] test = "tls.fingerprint" -> "fingerprint_blocking_suspected"
      [] test \in {"vless.reality", "vless.session"} /\ variant = "reality" ->
            "sni_ip_mismatch_blocking_suspected"
      [] test = "tls.alpn"        -> "alpn_policy_suspected"
      [] test = "tls.version"     -> "tls_version_policy_suspected"
      [] test = "dns.udp"         -> "dns_qtype_policy_suspected"
      [] test = "socks5.connect"  -> "socks5_auth_policy_suspected"
      [] test = "tor.handshake"   -> "tor_handshake_blocking_suspected"
      [] test = "dtls.hello"      -> "dtls_fingerprint_blocking_suspected"
      [] OTHER                    -> "variant_blocking_suspected"

ruleVariant(cells) ==
    LET Base(v) == variantBaseline(cells, v)
        failing == {v \in ToSet(cells) : /\ ~ IsDestTest(v.test) /\ found(Base(v))
                                         /\ v.role # "baseline" /\ fail(v) /\ Key(v) # Key(Base(v))
                                         /\ ~ pass(handshakeCell(cells, v))}
    IN {Verdict(variantKind(v.test, v.variant), Key(v), confidence(v, Base(v)), Key(Base(v))) : v \in failing}

----------------------------------------------------------------------------
(* Rules 5b-5c: flows that start and then stop. *)

\* A long transfer stops while short exchanges on the port pass.
ruleBulkCut(cells) ==
    LET Short(c) == find(cells, "tcp.echo", c.transport, c.port, "any")
    IN {Verdict(IF c.variant \in {"trigger", "list"} THEN "sni_bulk_cut_suspected" ELSE "bulk_transfer_cut_suspected",
                Key(c), confidence(c, Short(c)), Key(Short(c))) :
          c \in {b \in ToSet(cells) : b.test = "tcp.bulk" /\ fail(b) /\ pass(Short(b))}}

\* A run of small packets stops while the one-packet echo passes.
rulePacketCut(cells) ==
    LET Echo(c) == find(cells, echoTestFor(c.transport), c.transport, c.port, "any")
    IN {Verdict("packet_count_cut_suspected", Key(c), confidence(c, Echo(c)), Key(Echo(c))) :
          c \in {b \in ToSet(cells) : b.test \in {"tcp.packets", "udp.packets"} /\ fail(b) /\ pass(Echo(b))}}

\* Parallel handshakes to one name freeze; each attempt carries a control of its own.
ruleBurstFreeze(cells) ==
    LET Outer(c)  == find(cells, "tls.sni", "tcp", c.port, "benign")
        Frozen(c) == Outcomes(c, "burst_freeze")
        Conf(c)   == IF pass(Outer(c)) THEN confidence(c, Outer(c))
                     ELSE IF c.Measured >= mediumMinAttempts /\ Frozen(c) * 2 > c.Measured THEN "medium" ELSE "low"
    IN {Verdict("tls_burst_freeze_suspected", Key(c), Conf(c), Key(c)) :
          c \in {b \in ToSet(cells) : b.test = "tls.burst" /\ Frozen(b) > 0 /\ ~ pass(b)}}

sessionCutRepeatNum == 2

sessionCutRepeatDen == 3

\* Mutant: the handshake need not have passed.
ruleSessionCutAny(cells) ==
    {Verdict("session_cut_suspected", Key(c), "low", Key(handshakeCell(cells, c))) :
        c \in {b \in ToSet(cells) : handshakeTestOf(b.test) # "" /\ ~ pass(b) /\ b.Measured > 0}}

\* The handshake is answered on a port and the data that follows is not.
ruleSessionCut(cells) ==
    LET Handshake(c) == handshakeCell(cells, c)
        Passes(c, name) == pass(find(cells, plainTestFor(c.transport, name), c.transport, c.port, "any"))
        Repeats(c) == /\ Outcomes(c, "session_cut") * sessionCutRepeatDen >= c.Measured * sessionCutRepeatNum
                      /\ c.Measured >= highMinAttempts
        Conf(c) == IF Repeats(c) /\ (Passes(c, "echo") \/ Passes(c, "packets")) THEN "high"
                   ELSE IF c.OK > 0 THEN Capped(confidence(c, Handshake(c))) ELSE confidence(c, Handshake(c))
    IN {Verdict("session_cut_suspected", Key(c), Conf(c), Key(Handshake(c))) :
          c \in {b \in ToSet(cells) : /\ handshakeTestOf(b.test) # "" /\ ~ pass(b) /\ b.Measured > 0
                                      /\ pass(Handshake(b))}}

----------------------------------------------------------------------------
(* Rule 6: DNS. *)

\* An answer came back and was not the authoritative one.
dnsManipulation(cells) ==
    {Verdict(IF c.test = "dns.system" THEN "system_resolver_manipulation_suspected" ELSE "dns_manipulation_suspected",
             Key(c), "medium", <<>>) :
        c \in {b \in ToSet(cells) : /\ b.test \in DNSTests
                                    /\ Outcomes(b, "dns_answer_mismatch") + Outcomes(b, "dns_injected_race") > 0}}

\* The cells of DNS over UDP and over TCP that are compared; found as the last.
dnsUDP(cells) == LastOf(cells, {i \in DOMAIN cells : cells[i].test = "dns.udp" /\ cells[i].variant = "TXT"})

dnsTCP(cells) == LastOf(cells, {i \in DOMAIN cells : cells[i].test = "dns.tcp"})

udpOnly(cells) == found(dnsUDP(cells)) /\ pass(dnsTCP(cells))

\* DNS fails over UDP and passes over TCP.
dnsUDPBlocking(cells) ==
    IF udpOnly(cells) /\ fail(dnsUDP(cells))
    THEN {Verdict("dns_udp_blocking_suspected", Key(dnsUDP(cells)), confidence(dnsUDP(cells), dnsTCP(cells)),
                  Key(dnsTCP(cells)))}
    ELSE {}

\* A DNS port carries no echo: any passing echo of the transport is the control.
dnsPortBlocking(cells) ==
    LET Control(c) == FirstOf(cells, {i \in DOMAIN cells : cells[i].test = echoTestFor(c.transport) /\ pass(cells[i])})
        failing == {c \in ToSet(cells) : /\ c.test \in DNSTests \ {"dns.system", "dns.doh"} /\ fail(c)
                                         /\ ~ found(find(cells, "tcp.echo", c.transport, c.port, "any"))
                                         /\ ~ found(find(cells, "udp.echo", c.transport, c.port, "any"))
                                         /\ ~ (udpOnly(cells) /\ c.test = "dns.udp")
                                         /\ found(Control(c))}
    IN {Verdict("dns_port_blocking_suspected", Key(c), confidence(c, Control(c)), Key(Control(c))) : c \in failing}

----------------------------------------------------------------------------
(* Rules 7-8: modification, and the timing of the SYN-ACK. *)

modificationMerges ==
    {"uplink_modified", "downlink_modified", "injected", "rst_injected_or_path_reset",
     "rst_injected_bidirectional", "tls_mitm_or_wrong_server"}

\* Traffic was changed or forged: a mechanism of the last verdict that names the cell, or a
\* finding of its own.  before is the verdicts of each rule so far.
ruleModification(cells, before) ==
    LET Merged(c, m) == Cardinality({a \in c.attempts : a.merged = m})
        mine  == {c \in ToSet(cells) : /\ c.test \notin {"tcp.bulk", "tcp.packets", "udp.packets", "tls.burst"}
                                       /\ handshakeTestOf(c.test) = ""}
        Mechanisms(key) == {m \in modificationMerges : \E c \in mine : Key(c) = key /\ Merged(c, m) > 0}
        Named(key) == {i \in DOMAIN before : \E v \in before[i] : v.subject = key}
        Explained(i) == {IF \E j \in Named(v.subject) : j > i THEN v
                         ELSE [v EXCEPT !.mechanisms = Mechanisms(v.subject)] : v \in before[i]}
        Alone(c) == {Verdict(m, Key(c), IF Merged(c, m) >= mediumMinAttempts THEN "medium" ELSE "low", <<>>) :
                       m \in Mechanisms(Key(c))}
    IN (UNION {Explained(i) : i \in DOMAIN before})
       \cup UNION {Alone(c) : c \in {b \in mine : Named(Key(b)) = {}}}

\* median: the middle of a sorted sequence.
MedianOf(values) == values[Len(values) \div 2 + 1]

connectMinSamples == 2

fastConnectMinPorts == 3

fastConnectMinRefMs == 20

fastConnectRatio == 4   \* the reciprocal

fastConnectMinGapMs == 20

\* The median dial of a port, over every dial that completed; 0 when there are too few.
medianConnect(plan, attempts, port) ==
    LET dials == {a \in attempts : /\ plan[a.cell].transport = "tcp" /\ plan[a.cell].port = port
                                   /\ plan[a.cell].test # "tcp.rtt" /\ a.connect > 0}
    IN IF Cardinality(dials) < connectMinSamples THEN 0
       ELSE MedianOf(SetToSortSeq(dials, LAMBDA a, b : a.connect < b.connect)).connect

\* The ports whose median dial is a small fraction of the median over the ports.
fastConnectPorts(plan, attempts) ==
    LET ports == {plan[a.cell].port : a \in {b \in attempts : plan[b.cell].transport = "tcp"}}
        timed == {p \in ports : medianConnect(plan, attempts, p) > 0}
        M(p)  == medianConnect(plan, attempts, p)
        ref   == M(MedianOf(SetToSortSeq(timed, LAMBDA p, q : M(p) < M(q))))
    IN IF Cardinality(timed) < fastConnectMinPorts THEN {}
       ELSE IF ref < fastConnectMinRefMs THEN {}
       ELSE {p \in timed : M(p) * fastConnectRatio < ref /\ ref - M(p) > fastConnectMinGapMs}

\* Something closer than the server answers the SYN on a port: from the dials of all ports,
\* or from tcp.rtt on the port alone.
ruleSynAck(plan, attempts, verdicts) ==
    LET rttSuspect == {plan[a.cell].port : a \in {b \in attempts : plan[b.cell].test = "tcp.rtt" /\ b.suspect}}
        fast == fastConnectPorts(plan, attempts)
        Proxied(p) == \E v \in verdicts : v.kind = "transparent_proxy_suspected" /\ v.subject = portKey("tcp", p)
    IN {Verdict("synack_local_termination_suspected", portKey("tcp", p),
                IF p \in rttSuspect \/ Proxied(p) THEN "medium" ELSE "low", <<>>) : p \in fast}
       \cup {Verdict("synack_spoof_signal", portKey("tcp", p), "low", <<>>) : p \in rttSuspect \ fast}

\* The verdicts of the differential rules, in the order of the rules.
Differential(attempts, cells) ==
    <<ruleEndpoint(cells), rulePortOrProxy(cells), ruleUDP(cells), ruleProtocol(cells, attempts), ruleVariant(cells),
      ruleBulkCut(cells), rulePacketCut(cells), ruleBurstFreeze(cells), ruleSessionCut(cells),
      dnsManipulation(cells), dnsUDPBlocking(cells), dnsPortBlocking(cells)>>

RuleVerdicts(plan, attempts, cells) ==
    LET verdicts == ruleModification(cells, Differential(attempts, cells))
    IN verdicts \cup ruleSynAck(plan, attempts, verdicts)
=============================================================================
