----------------------------- MODULE Responders -----------------------------
(***************************************************************************)
(* The server's half: the responders of internal/server/tcp.go, tcp_tor.go,*)
(* bulk.go and the stateless ones of udp.go.  A responder is the place     *)
(* where it waits (pc) and the observation it fills in; serve is what it   *)
(* does with one message, ended what it does when the flow ends under it.  *)
(*                                                                         *)
(* A message is its kind and whether it was altered on the way.  Of an     *)
(* observation only what the merge reads is kept; a response through TLS   *)
(* drops the prefix "server_hello+".                                       *)
(***************************************************************************)
EXTENDS Probes

CONSTANT vpnSessionMaxData

ASSUME RespondersConstants ==
    vpnSessionMaxData \in Nat /\ ovpnControlPackets + SessionPackets <= vpnSessionMaxData

msg(k) == [k |-> k, bad |-> FALSE]

(* handleTCP's observation before the first byte (udpFlow's has no pc). *)
newRow(pc) ==
    [pc |-> pc, parse |-> "empty", response |-> "silence", replied |-> FALSE, out |-> FALSE, close |-> "n/a",
     err |-> None, mac |-> FALSE, cookie |-> FALSE, partial |-> FALSE, nonce |-> FALSE, sni |-> TRUE,
     tls |-> FALSE, bulk |-> None, upBytes |-> 0, data |-> 0, ctl |-> 0, packets |-> 0, first |-> msg(None),
     late |-> FALSE]

Does(row, replies) == [row |-> row, replies |-> replies]

silent(row) == Does(row, <<>>)

said(row, what, pc) == [row EXCEPT !.response = what, !.replied = TRUE, !.out = TRUE, !.pc = pc]

(* The handler returns; handleTCP closes the connection behind it. *)
over(row, close) == [row EXCEPT !.close = close, !.pc = "gone"]

(* The parse kind of an outer flow; a flow inside TLS keeps the outer one. *)
parsed(row, kind) == [row EXCEPT !.parse = IF row.tls THEN @ ELSE kind]

tcpEnvelope(row, m, allowed) ==
    LET r == [parsed(row, "envelope") EXCEPT !.nonce = TRUE] IN
    IF m.bad THEN silent(over([r EXCEPT !.mac = TRUE, !.err = "own"], "server_error"))
    ELSE IF ~allowed THEN silent(over([r EXCEPT !.response = IF row.tls THEN @ ELSE "refused"], "normal"))
    ELSE Does([said(r, "echo", "envelope") EXCEPT !.close = "normal"], <<msg("echo")>>)

(* tcpEnvelope on a request that arrives in segments (the MAC covers all). *)
tcpEnvelopePart(row, m, allowed) ==
    LET altered == m.bad \/ row.first.bad IN
    IF m.k = "last_piece" THEN tcpEnvelope(row, [m EXCEPT !.bad = altered], allowed)
    ELSE silent([parsed(row, "envelope") EXCEPT !.pc = "pieces", !.packets = @ + 1,
                                                !.first = [k |-> "piece", bad |-> altered]])

(* tcpUnknown reads until the client has been quiet for a second. *)
tcpUnknown(row, m) == silent([row EXCEPT !.parse = "unknown", !.pc = "quiet", !.first = m])

(* The echo of a request altered on the way repeats the altered request. *)
tcpHTTP(row, m) ==
    Does(over(said([row EXCEPT !.parse = "http", !.nonce = TRUE], "http_200", "gone"), "normal"),
         <<[k |-> "http_200", bad |-> m.bad]>>)

tcpTorDir(row) ==
    Does(over(said([row EXCEPT !.parse = "http"], "http_200", "gone"), "normal"), <<msg("http_200")>>)

(* tcpBulk.  tcpTLS copies its details under other names (http_bulk,        *)
(* http_bulk_up_bytes), so the merge finds them on a plain flow only.       *)
tcpBulk(row, m, allowed) ==
    LET dir == IF m.k = "post" THEN "up" ELSE "down"
        r == [parsed(row, "http") EXCEPT !.nonce = TRUE, !.bulk = IF row.tls THEN @ ELSE dir]
    IN IF ~allowed THEN Does(over([r EXCEPT !.out = TRUE], "normal"), <<msg("http_413")>>)
       ELSE Does(said([r EXCEPT !.upBytes = IF dir = "up" /\ ~row.tls THEN @ + 1 ELSE @], "bulk", "bulk"),
                 IF dir = "up" THEN <<msg("ack")>>
                 ELSE <<[k |-> "header", bad |-> m.bad]>> \o Times(Chunks, msg("window")))

\* Mutant: the loop ends one packet early.
whileBelowMaxShort(row) == IF row.ctl + row.data + 1 < vpnSessionMaxData THEN row ELSE over(row, "normal")

(* The end of a session loop: the packet that fills it is still answered. *)
whileBelowMax(row) == IF row.ctl + row.data < vpnSessionMaxData THEN row ELSE over(row, "normal")

(* A frame is mirrored as it came, altered or not. *)
tcpEchoStream(row, m) ==
    Does(whileBelowMax([said(row, "echo", "mirror") EXCEPT !.data = @ + 1]), <<m>>)

(* The reset names the client's session: an altered one is answered in the *)
(* name of another.  Control payloads are not verified, data packets are.  *)
tcpOpenVPN(row, m) ==
    CASE m.k = "client_reset" ->
            Does(said([row EXCEPT !.parse = "openvpn"], "openvpn_reset", "openvpn"),
                 <<[k |-> "server_reset", bad |-> m.bad]>>)
      [] m.k = "control" ->
            Does(whileBelowMax([said(row, "openvpn_control", "openvpn") EXCEPT !.ctl = @ + 1]), <<msg("control")>>)
      [] m.k = "data" ->
            IF m.bad THEN silent(row)
            ELSE Does(whileBelowMax([said(row, "openvpn_data", "openvpn") EXCEPT !.data = @ + 1]), <<msg("data")>>)

(* Nothing but the offered methods is looked at. *)
tcpSOCKS5(row, m) ==
    CASE m.k = "greeting" ->
            LET r == said([row EXCEPT !.parse = "socks5"], "socks5_method", "socks_user") IN
            Does(IF m.bad THEN over(r, "normal") ELSE r, <<[k |-> "method", bad |-> m.bad]>>)
      [] m.k = "userpass" -> Does(said(row, "socks5_auth", "socks_request"), <<msg("auth")>>)
      [] m.k = "connect" -> Does(said(row, "socks5_connect", "mirror"), <<msg("connected")>>)

(* The handshake of tcpTLS.  A ClientHello altered on the way is answered,  *)
(* and neither side accepts the other's keys.                               *)
tcpTLS(row, m) ==
    CASE m.k = "client_hello" ->
            Does([row EXCEPT !.parse = "tls", !.out = TRUE, !.pc = "hello", !.sni = ~m.bad],
                 <<[k |-> "server_hello", bad |-> m.bad]>>)
      [] m.k = "finished" ->
            IF m.bad THEN Does(over([row EXCEPT !.response = "handshake_failed", !.err = "own"], "normal"),
                               <<msg("alert")>>)
            ELSE silent([said(row, "server_hello", "inner") EXCEPT !.tls = TRUE])

(* vless in TLS: the request carries the tunnel's first frame. *)
tcpVLESS(row) ==
    Does([said([row EXCEPT !.parse = "vless"], "echo", "mirror") EXCEPT !.data = 1],
         <<msg("vless_response"), msg("frame")>>)

tcpTorLink(row, m) ==
    CASE m.k = "versions" -> Does(said(row, "tor_versions", "torlink"), <<msg("netinfo")>>)
      [] m.k = "client_netinfo" -> silent(row)
      [] m.k = "create_fast" ->
            LET r == [row EXCEPT !.data = @ + 1] IN
            IF r.data > vpnSessionMaxData THEN silent([r EXCEPT !.response = "created_fast"])
            ELSE Does(said(r, "created_fast", "torlink"), <<msg("created_fast")>>)

(* The dispatch of handleTCP and of tcpTLS, then the handler's own loop.   *)
(* A TLS record that does not verify ends the flow with an alert.          *)
serve(row, m, allowed) ==
    IF row.tls /\ m.bad THEN Does(over(row, "server_error"), <<msg("alert")>>)
    ELSE CASE m.k = "envelope" -> tcpEnvelope(row, m, allowed)
           [] m.k \in {"piece", "last_piece"} -> tcpEnvelopePart(row, m, allowed)
           [] m.k \in {"random", "obfs4_request"} -> tcpUnknown(row, m)
           [] m.k = "get" -> tcpHTTP(row, m)
           [] m.k = "get_tor" -> tcpTorDir(row)
           [] m.k \in {"post", "get_bulk"} -> tcpBulk(row, m, allowed)
           [] m.k \in {"client_reset", "control", "data"} -> tcpOpenVPN(row, m)
           [] m.k \in {"greeting", "userpass", "connect"} -> tcpSOCKS5(row, m)
           [] m.k \in {"client_hello", "finished"} -> tcpTLS(row, m)
           [] m.k = "vless_request" -> tcpVLESS(row)
           [] m.k \in {"versions", "client_netinfo", "create_fast"} -> tcpTorLink(row, m)
           [] m.k = "frame" -> tcpEchoStream(row, m)

(* tcpUnknown after its second of quiet, or after the client's FIN: an     *)
(* obfs4 request is known by its mark and answered in both cases.          *)
quietOver(row, why) ==
    IF row.first.k = "obfs4_request" /\ ~row.first.bad /\ why # "client_reset"
    THEN LET r == said([row EXCEPT !.parse = "obfs4"], "obfs4_response", "mirror") IN
         Does(IF why = "timeout" THEN r ELSE over(r, why), <<msg("obfs4_response")>>)
    ELSE IF why = "timeout"
    THEN Does(over(said(row, "hash_ack", "gone"), "normal"), <<[k |-> "hash_ack", bad |-> row.first.bad]>>)
    ELSE silent(over(row, why))

(* A read that fails: a deadline, the client's FIN or a RST (closeReason).  *)
(* A loop that ran into its deadline ended normally; a cut envelope names   *)
(* its session, and its nonce from the second segment on.                   *)
ended(row, why) ==
    CASE row.pc = "quiet" -> quietOver(row, why)
      [] row.pc = "hello" -> silent(over([row EXCEPT !.response = "handshake_failed", !.err = "waited"], why))
      [] row.pc = "pieces" -> silent(over([row EXCEPT !.partial = TRUE, !.nonce = row.packets > 1], why))
      [] row.pc \in {"openvpn", "mirror", "torlink"} -> silent(over(row, IF why = "timeout" THEN "normal" ELSE why))
      [] OTHER -> silent(over(row, why))

(* One datagram (udpFlow.serve...): an observation each, joined here; the   *)
(* one the attempt is given is the first's.  moved: the source address is   *)
(* not the one the session and the reservation were made from.              *)
serveUDP(row, m, allowed, moved) ==
    LET first(r) == IF row.parse = "empty" THEN r ELSE [row EXCEPT !.packets = r.packets, !.data = r.data]
        seen == [row EXCEPT !.nonce = TRUE, !.packets = @ + 1]
    IN CASE m.k = "envelope" ->
                LET r == [seen EXCEPT !.parse = "envelope"] IN
                IF m.bad THEN silent(first([r EXCEPT !.mac = TRUE]))
                ELSE IF moved THEN silent(first([r EXCEPT !.cookie = TRUE]))
                ELSE IF ~allowed THEN silent(first([r EXCEPT !.response = "refused"]))
                ELSE Does(first(said(r, "echo", "udp")), <<msg("echo")>>)
         [] m.k = "random" ->
                IF moved THEN silent(row)
                ELSE Does(said([seen EXCEPT !.parse = "unknown"], "hash_ack", "udp"),
                          <<[k |-> "hash_ack", bad |-> m.bad]>>)
         [] m.k = "wg_init" ->
                IF moved THEN silent(row)
                ELSE IF m.bad THEN silent([seen EXCEPT !.parse = "wireguard"])
                ELSE Does(said([seen EXCEPT !.parse = "wireguard"], "wireguard_response", "udp"), <<msg("wg_response")>>)
         [] m.k = "data" ->
                IF moved \/ m.bad THEN silent(row)
                ELSE Does([row EXCEPT !.data = @ + 1], IF row.data < vpnSessionMaxData THEN <<msg("data")>> ELSE <<>>)
=============================================================================
