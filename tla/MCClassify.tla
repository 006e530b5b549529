----------------------------- MODULE MCClassify -----------------------------
(* Classify on one small scan per group of rules. *)
EXTENDS Classify

Planned(test, transport, port, variant, domain, role) ==
    [test |-> test, transport |-> transport, port |-> port, variant |-> variant, domain |-> domain, role |-> role]

Echo(transport, port) == Planned(echoTestFor(transport), transport, port, "echo", "", "baseline")

Site(test, variant, domain) ==
    Planned(test, IF test = "dest.dns" THEN "udp" ELSE "tcp", IF test = "dest.dns" THEN 53 ELSE 443,
         variant, domain, "variant")

R(outcome, merged) ==
    [cell |-> 0, outcome |-> outcome, merged |-> merged, local |-> "", start |-> 0, reserve |-> 0, done |-> 0,
     ip |-> "", connect |-> 0, reset |-> 0, suspect |-> FALSE, nat |-> FALSE, cancelled |-> FALSE, n |-> 0]

Ok == R("ok", "ok")
Lost == R("payload_timeout", "uplink_drop_or_route_failure")
Refused == R("server_error", "server_error")
Host == [R("server_error", "server_error") EXCEPT !.local = "eperm"]
Stopped == [R("skipped", "inconclusive") EXCEPT !.cancelled = TRUE]
Dest(outcome) == R(outcome, outcome)
At(r, t) == [r EXCEPT !.start = t]

Scan(plan, results, rounds) ==
    [plan |-> plan, results |-> results, rounds |-> rounds, reachable |-> TRUE, standalone |-> FALSE]

Ports ==
    Scan(<<Planned("http.host", "tcp", 80, "benign", "", "baseline"), Echo("tcp", 443), Echo("tcp", 80), Echo("udp", 443)>>,
         <<{Ok, Lost}, {Ok, Lost, Refused}, {Ok, Lost}, {Ok, Lost}>>, <<1, 3, 3, 2>>)

Sessions ==
    Scan(<<Planned("openvpn.reset", "udp", 1194, "udp", "", "baseline"),
           Planned("openvpn.session", "udp", 1194, "udp+control+data", "", "baseline"),
           Planned("openvpn.session", "udp", 1194, "udp+tls-auth+control+data", "", "variant"),
           Echo("udp", 1194)>>,
         <<{Ok, Lost}, {Ok, R("session_cut", "downlink_drop"), Refused}, {Ok, Lost}, {Ok, Lost}>>, <<3, 3, 2, 1>>)

Natives ==
    Scan(<<Planned("ikev2.init", "udp", 500, "natt", "", "baseline"), Planned("ikev2.session", "udp", 500, "natt", "", "baseline"),
           Echo("udp", 500), Planned("udp.payload.random", "udp", 500, "random", "", "control")>>,
         <<{Ok, Lost, [Lost EXCEPT !.nat = TRUE]},
           {Lost, [R("session_cut", "uplink_drop_or_route_failure") EXCEPT !.local = "eperm"]},
           {Ok, Lost}, {Ok, Lost}>>, <<3, 2, 3, 1>>)

Variants ==
    Scan(<<Echo("tcp", 443), Planned("tls.fingerprint", "tcp", 443, "chrome", "", "baseline"),
           Planned("tls.fingerprint", "tcp", 443, "edge", "", "variant"), Planned("tls.sni", "tcp", 443, "trigger", "", "variant"),
           Planned("vless.reality", "tcp", 443, "benign", "", "control"), Planned("vless.reality", "tcp", 443, "reality", "", "variant")>>,
         <<{Ok}, {Ok, Lost}, {Ok, R("midstream_reset", "rst_injected_or_path_reset"), Refused},
           {R("tls_spoof", "injected")}, {Ok, Lost}, {Ok, Lost}>>, <<1, 2, 2, 1, 1, 1>>)

Flows ==
    Scan(<<Planned("tcp.bulk", "tcp", 443, "trigger", "", "variant"), Echo("tcp", 443),
           Planned("tcp.packets", "tcp", 443, "chunks", "", "variant"),
           Planned("tls.burst", "tcp", 443, "chrome", "", "variant"), Planned("tls.sni", "tcp", 443, "benign", "", "baseline")>>,
         <<{Ok, R("bulk_stall", "downlink_drop")}, {Ok, Lost}, {Ok, R("packets_cut", "downlink_drop")},
           {Ok, R("burst_freeze", "downlink_drop"), Refused}, {Ok, Lost}>>, <<1, 2, 1, 3, 1>>)

Names ==
    Scan(<<Planned("dns.system", "udp", 53, "A", "", "variant"), Planned("dns.tcp", "tcp", 53, "TXT", "", "variant"),
           Planned("dns.udp", "udp", 53, "A", "", "variant"), Planned("dns.udp", "udp", 53, "TXT", "", "baseline"),
           Echo("tcp", 443), Echo("udp", 443)>>,
         <<{Ok, Dest("dns_answer_mismatch")}, {Ok, Lost}, {Ok, Lost}, {Ok, Lost, R("dns_injected_race", "injected")},
           {Ok, Lost}, {Ok, Lost}>>, <<1, 1, 1, 2, 1, 2>>)

\* The dials of three ports, and tcp.rtt on one of them.
Dials ==
    LET Dial(ms) == [Ok EXCEPT !.connect = ms]
    IN Scan(<<Planned("http.host", "tcp", 80, "benign", "", "baseline"), Echo("tcp", 443), Echo("tcp", 80),
              Echo("tcp", 8080), Planned("tcp.rtt", "tcp", 80, "x5", "", "baseline")>>,
            <<{Dial(5)}, {Dial(100)}, {[Lost EXCEPT !.connect = 5], Dial(100)}, {Dial(5), Dial(100)},
              {[Ok EXCEPT !.suspect = TRUE]}>>, <<1, 2, 2, 2, 1>>)

\* The same failures at two times, on three ports, with failures of the host among them.
Outages ==
    Scan(<<Echo("tcp", 443), Echo("tcp", 80), Echo("udp", 443)>>,
         <<{Ok, Lost, At(Lost, 9)}, {Ok, Lost, At(Host, 9)},
           {Ok, [Lost EXCEPT !.done = 7], [Host EXCEPT !.start = 6, !.reserve = 3, !.done = 1], Stopped}>>,
         <<2, 3, 2>>)

\* The same, where every port passes otherwise: an outage of the path.
Hiccup ==
    Scan(<<Echo("tcp", 443), Echo("tcp", 80), Echo("udp", 443)>>,
         <<{Ok, Lost}, {Ok, Lost}, {Ok, At(Lost, 1)}>>, <<3, 3, 3>>)

Anycast == Planned("dest.tcp", "tcp", 443, "anycast", "", "control")

Handshakes ==
    LET Reset(ms) == [Dest("midstream_reset") EXCEPT !.ip = "ip", !.connect = 100, !.reset = ms]
    IN [Scan(<<Anycast, Site("dest.tcp", "site", "d"), Site("dest.tls", "absent", "d"),
               Site("dest.tls", "decoy", "d"), Site("dest.tls", "site", "d")>>,
             <<{Ok, Dest("connect_timeout")}, {Ok, Dest("connect_timeout"), Dest("skipped")},
               {Ok, Dest("payload_timeout")}, {Ok, Dest("payload_timeout"), Reset(40)},
               {Ok, Dest("connect_timeout"), Dest("skipped"), Reset(40), Reset(90)}>>,
             <<1, 2, 1, 1, 3>>) EXCEPT !.standalone = TRUE, !.reachable = FALSE]

Resolvers ==
    Scan(<<Site("dest.dns", "site", "d"), Site("dest.dns", "site", "e"), Site("dest.http", "site", "d"),
           Planned("dest.nxdomain", "udp", 53, "invalid", "", "control"), Anycast, Site("dest.tls", "site", "d")>>,
         <<{Ok, Dest("dns_answer_mismatch"), Dest("dns_timeout"), Dest("dns_rcode"), Dest("inconclusive")},
           {Ok, Dest("dns_answer_mismatch"), Dest("dns_timeout")},
           {Ok, Dest("http_legal_block"), Dest("cert_mismatch"), Dest("skipped")},
           {Ok, Dest("dns_answer_mismatch")}, {Ok, Dest("connect_timeout")}, {Ok}>>,
         <<2, 1, 1, 1, 1, 1>>)

Protocols ==
    Scan(<<Site("dest.proto", "site", "d"), Anycast, Site("dest.tcp", "site", "d")>>,
         <<{Ok, Dest("unexpected_response"), Dest("connect_reset"), Dest("server_error"), [Dest("skipped") EXCEPT !.cancelled = TRUE]},
           {Ok, Dest("connect_timeout")},
           {Ok, Dest("connect_refused"), Dest("server_error"), [Dest("skipped") EXCEPT !.cancelled = TRUE]}>>,
         <<3, 2, 2>>)

Policies ==
    Scan(<<Echo("tcp", 443), Planned("tls.alpn", "tcp", 443, "h2", "", "baseline"),
           Planned("tls.alpn", "tcp", 443, "none", "", "variant"), Planned("tls.sni", "tcp", 443, "benign", "", "baseline"),
           Planned("tls.sni", "tcp", 443, "trigger", "", "variant"), Planned("tcp.bulk", "tcp", 443, "plain", "", "variant")>>,
         <<{Ok, Lost}, {Ok, Lost}, {Ok, Lost}, {Ok, Lost}, {Ok, Lost}, {Ok, R("bulk_stall", "downlink_drop")}>>,
         <<1, 1, 2, 1, 1, 1>>)

Unreachable == [Scan(<<Echo("tcp", 443)>>, <<{Lost}>>, <<1>>) EXCEPT !.reachable = FALSE]

MCScenarios == {Ports, Sessions, Natives, Variants, Flows, Names, Dials, Outages, Hiccup, Handshakes,
                Resolvers, Protocols, Policies, Unreachable}
=============================================================================
