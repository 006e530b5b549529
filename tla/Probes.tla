------------------------------- MODULE Probes -------------------------------
(***************************************************************************)
(* The client's half of an attempt against the probe server                *)
(* (internal/client/tests_*.go): every test is a script of rounds, a       *)
(* message written and a reply awaited, and a way to read what went wrong  *)
(* in a round.  Payloads are their kinds; sizes and timings are left out.  *)
(***************************************************************************)
EXTENDS Integers, Sequences

CONSTANTS
    SessionPackets,      \* data packets of a *.session test
    ovpnControlPackets,
    Chunks,              \* requests of a bulk upload, windows of a download
    Pieces,              \* segments of a tcp.packets envelope
    Datagrams,           \* of udp.packets
    sessionCutAfter      \* losses in a row that end a data phase

ASSUME ProbesConstants ==
    /\ {SessionPackets, ovpnControlPackets, Chunks, Pieces, Datagrams, sessionCutAfter} \subseteq Nat \ {0}
    /\ Pieces > 2

None == "none"

Round(by, send, want) == [by |-> by, send |-> send, want |-> want]

Times(n, r) == [i \in 1..n |-> r]

ask(send, want) == <<Round("ask", send, want)>>

(* tls.Client.HandshakeContext: the Finished message leaves with the answer. *)
handshake == <<Round("tls", "client_hello", "server_hello"), Round("flight", "finished", None)>>

(* echoOnConn, alone and inside TLS. *)
tcpEcho == ask("envelope", "echo")

tlsEcho == handshake \o tcpEcho

tcpRandom == ask("random", "hash_ack")

httpHost == ask("get", "http_200")

(* vpnDataLoop's rounds. *)
dataLoop(send, want) == Times(SessionPackets, Round("data", send, want))

tcpMirrorLoop == dataLoop("frame", "frame")

socks5Connect == ask("greeting", "method") \o ask("userpass", "auth") \o ask("connect", "connected")

vlessReality ==
    handshake \o ask("vless_request", "vless_response") \o <<Round("inner", None, "frame")>>

torHandshake == handshake \o ask("versions", "netinfo") \o <<Round("flight", "client_netinfo", None)>>

torDir == ask("get_tor", "http_200")

obfs4Handshake == ask("obfs4_request", "obfs4_response")

openvpnTCP == ask("client_reset", "server_reset")

openvpnSession ==
    Times(ovpnControlPackets, Round("ctl", "control", "control")) \o dataLoop("data", "data")

bulkTransfer(dir) ==
    IF dir = "up" THEN Times(Chunks, Round("bulk", "post", "ack"))
    ELSE <<Round("bulk", "get_bulk", "header")>> \o Times(Chunks, Round("bulk", None, "window"))

tcpPackets == Times(Pieces - 1, Round("piece", "piece", None)) \o <<Round("piece", "last_piece", "echo")>>

udpEcho == ask("envelope", "echo")

udpRandom == ask("random", "hash_ack")

udpPackets == Times(Datagrams, Round("datagram", "envelope", "echo"))

wireguardSession == ask("wg_init", "wg_response") \o dataLoop("data", "data")

(* The rows of the catalog that these functions run, by test and variant. *)
Script == [
    tcp_echo |-> tcpEcho,                 tls_echo |-> tlsEcho,
    tcp_random |-> tcpRandom,             http_host |-> httpHost,
    openvpn_reset |-> openvpnTCP,         openvpn_session |-> openvpnTCP \o openvpnSession,
    socks5_connect |-> socks5Connect,     socks5_session |-> socks5Connect \o tcpMirrorLoop,
    vless_reality |-> vlessReality,       vless_session |-> vlessReality \o tcpMirrorLoop,
    tor_handshake |-> torHandshake,       tor_link |-> torHandshake \o dataLoop("create_fast", "created_fast"),
    tor_dir |-> torDir,
    obfs4_handshake |-> obfs4Handshake,   obfs4_session |-> obfs4Handshake \o tcpMirrorLoop,
    bulk_up |-> bulkTransfer("up"),       bulk_up_tls |-> handshake \o bulkTransfer("up"),
    bulk_down |-> bulkTransfer("down"),   bulk_down_tls |-> handshake \o bulkTransfer("down"),
    tcp_packets |-> tcpPackets,           tcp_packets_tls |-> handshake \o tcpPackets,
    udp_echo |-> udpEcho,                 udp_random |-> udpRandom,
    udp_packets |-> udpPackets,           wireguard_session |-> wireguardSession]

Tests == DOMAIN Script

UDPTests == {"udp_echo", "udp_random", "udp_packets", "wireguard_session"}

transport(t) == IF t \in UDPTests THEN "udp" ELSE "tcp"

(* The kind a test reserves; the others identify themselves by nonce. *)
reserve == [t \in Tests |->
    CASE t \in {"tcp_random", "udp_random"} -> "unknown"
      [] t \in {"tls_echo", "tor_handshake", "tor_link", "tcp_packets_tls"} -> "tls"
      [] t \in {"openvpn_reset", "openvpn_session"} -> "openvpn"
      [] t \in {"socks5_connect", "socks5_session"} -> "socks5"
      [] t \in {"vless_reality", "vless_session"} -> "vless"
      [] t = "tor_dir" -> "http"
      [] t \in {"obfs4_handshake", "obfs4_session"} -> "obfs4"
      [] t = "tcp_packets" -> "envelope"
      [] t = "wireguard_session" -> "wireguard"
      [] OTHER -> None]

(* A reply whose content the test never compares: only its length counts. *)
unchecked(r) == r.by \in {"data", "inner"} /\ r.want = "frame"

\* Mutant: a closed connection is taken for a reset one.
classifyNetErrClosed(e, afterWrite) ==
    CASE e = "alert" -> "tls_alert"
      [] e = "not_tls" -> "tls_spoof"
      [] e = "host" -> "server_error"
      [] e = "refused" -> "connect_refused"
      [] e \in {"reset", "eof"} -> IF afterWrite THEN "midstream_reset" ELSE "connect_reset"
      [] e = "timeout" -> IF afterWrite THEN "payload_timeout" ELSE "connect_timeout"
      [] e = "bad_tls" -> "tls_parse"

(***************************************************************************)
(* Errors: timeout, reset, eof, refused, host (the machine's own failure), *)
(* alert (sent by the peer), not_tls (bytes that are no record) and        *)
(* bad_tls (a record that does not verify).                                *)
(***************************************************************************)
classifyNetErr(e, afterWrite) ==
    CASE e = "alert" -> "tls_alert"
      [] e = "not_tls" -> "tls_spoof"
      [] e = "host" -> "server_error"
      [] e = "refused" -> "connect_refused"
      [] e = "reset" -> IF afterWrite THEN "midstream_reset" ELSE "connect_reset"
      [] e = "eof" -> IF afterWrite THEN "midstream_eof" ELSE "connect_reset"
      [] e = "timeout" -> IF afterWrite THEN "payload_timeout" ELSE "connect_timeout"
      [] e = "bad_tls" -> "tls_parse"

bulkOutcome(e) ==
    LET o == classifyNetErr(e, TRUE) IN
    CASE o = "payload_timeout" -> "bulk_stall"
      [] o \in {"midstream_reset", "midstream_eof"} -> "bulk_reset"
      [] OTHER -> o

packetsOutcome(e) ==
    LET o == classifyNetErr(e, TRUE) IN
    IF o \in {"payload_timeout", "midstream_reset", "midstream_eof"} THEN "packets_cut" ELSE o

(***************************************************************************)
(* The attempt: pc, the round it is in, and the counters of its phases.    *)
(***************************************************************************)
newAttempt(t) ==
    [pc |-> IF transport(t) = "tcp" THEN "dial" ELSE "send", at |-> 1, sent |-> 0, recvd |-> 0, lost |-> 0,
     ctlSent |-> 0, ctlRecv |-> 0, moved |-> 0, tls |-> FALSE, outcome |-> None]

fail(a, outcome) == [a EXCEPT !.pc = "done", !.outcome = outcome]

(* The end of vpnDataLoop: sporadic loss is not a cut. *)
endData(a) == fail(a, IF a.lost >= sessionCutAfter THEN "session_cut" ELSE "ok")

(* The end of udpPackets, by what ended it. *)
endDatagrams(a, e) ==
    fail(a, IF a.recvd = 0 /\ a.sent > 0 THEN classifyNetErr(e, TRUE)
            ELSE IF a.lost >= 3 \/ a.sent < Datagrams THEN "packets_cut" ELSE "ok")

(* The next round, or the end of the script. *)
advance(t, a) ==
    LET r == Script[t][a.at]
        next == [a EXCEPT !.at = @ + 1]
    IN IF a.at < Len(Script[t])
       THEN IF r.by = "ctl" /\ Script[t][a.at + 1].by = "data" /\ a.ctlRecv = 0
            THEN fail(a, "session_cut")
            ELSE [next EXCEPT !.pc = IF Script[t][a.at + 1].send = None THEN "wait" ELSE "send"]
       ELSE CASE r.by = "data" -> endData(a)
              [] r.by = "datagram" -> endDatagrams(a, "timeout")
              [] OTHER -> fail(a, "ok")

wrote(t, a) ==
    LET r == Script[t][a.at]
        b == [a EXCEPT !.sent = IF r.by \in {"data", "datagram", "piece"} THEN @ + 1 ELSE @,
                       !.ctlSent = IF r.by = "ctl" THEN @ + 1 ELSE @]
    IN IF r.want = None THEN advance(t, b) ELSE [b EXCEPT !.pc = "wait"]

answered(t, a) ==
    LET r == Script[t][a.at] IN
    advance(t, [a EXCEPT !.recvd = IF r.by \in {"data", "datagram"} THEN @ + 1 ELSE @,
                         !.lost = IF r.by \in {"data", "datagram"} THEN 0 ELSE @,
                         !.ctlRecv = IF r.by = "ctl" THEN @ + 1 ELSE @,
                         !.moved = IF r.by = "bulk" /\ r.want \in {"ack", "window"} THEN @ + 1 ELSE @,
                         !.tls = @ \/ r.by = "tls"])

\* Mutant: a lost control reply is waited for again.
failedAgain(t, a, e) ==
    LET r == Script[t][a.at]
        loss == [a EXCEPT !.lost = @ + 1]
    IN CASE r.by = "ctl" /\ e = "timeout" -> a
         [] r.by = "data" /\ e = "timeout" ->
                IF loss.lost >= sessionCutAfter THEN endData(loss) ELSE advance(t, loss)
         [] r.by = "data" /\ e # "timeout" /\ a.recvd = 0 -> fail(a, "session_cut")
         [] r.by = "datagram" -> IF loss.lost >= 3 THEN endDatagrams(loss, e) ELSE advance(t, loss)
         [] r.by = "inner" -> fail([a EXCEPT !.sent = 1], "session_cut")
         [] r.by = "bulk" -> fail(a, bulkOutcome(e))
         [] r.by = "piece" -> fail(a, packetsOutcome(e))
         [] OTHER -> fail(a, classifyNetErr(e, TRUE))

(* A round that failed to read its reply. *)
failed(t, a, e) ==
    LET r == Script[t][a.at]
        loss == [a EXCEPT !.lost = @ + 1]
    IN CASE r.by = "ctl" /\ e = "timeout" -> advance(t, a)
         [] r.by = "data" /\ e = "timeout" ->
                IF loss.lost >= sessionCutAfter THEN endData(loss) ELSE advance(t, loss)
         [] r.by = "data" /\ e # "timeout" /\ a.recvd = 0 -> fail(a, "session_cut")
         [] r.by = "datagram" -> IF loss.lost >= 3 THEN endDatagrams(loss, e) ELSE advance(t, loss)
         [] r.by = "inner" -> fail([a EXCEPT !.sent = 1], "session_cut")
         [] r.by = "bulk" -> fail(a, bulkOutcome(e))
         [] r.by = "piece" -> fail(a, packetsOutcome(e))
         [] OTHER -> fail(a, classifyNetErr(e, TRUE))

(* A round that failed to write; vpnDataLoop does not call that a cut. *)
writeFailed(t, a, e) ==
    LET r == Script[t][a.at] IN
    CASE r.by = "bulk" -> fail(a, bulkOutcome(e))
      [] r.by = "piece" -> fail(a, packetsOutcome(e))
      [] r.by = "datagram" -> endDatagrams(a, e)
      [] OTHER -> fail(a, classifyNetErr(e, TRUE))

(* A reply that is not the one awaited: altered on the way, or somebody    *)
(* else's.  udpPackets reads on.  (The tests word the one as modified or   *)
(* as unexpected; the merge treats the two alike.)                         *)
mismatched(t, a, forged) ==
    LET r == Script[t][a.at] IN
    CASE a.tls \/ r.by = "tls" -> failed(t, a, IF forged THEN "not_tls" ELSE "bad_tls")
      [] r.by = "datagram" -> a
      [] ~a.tls /\ r.by \in {"ctl", "data"} -> fail(a, "modified")
      [] OTHER -> fail(a, IF forged THEN "unexpected_response" ELSE "modified")
=============================================================================
