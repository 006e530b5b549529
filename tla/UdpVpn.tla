------------------------------- MODULE UdpVpn -------------------------------
(***************************************************************************)
(* A UDP listener of the server (internal/server/udp.go, udp_vpn.go,       *)
(* udp_dtls.go) after the handshakes: WireGuard, OpenVPN, IKE with ESP,    *)
(* L2TP, DTLS and QUIC flows that were answered under a reservation and go *)
(* on without one.  The listener serves one datagram at a time: a handler  *)
(* below does everything up to the row, which Record stores.  The control  *)
(* plane, the store's gc and time go on beside it.                         *)
(*                                                                         *)
(* Any peer may send any datagram at any time: lost, late, repeated and    *)
(* foreign packets are all in.  Sessions live in sess, one per handshake   *)
(* answered, never reused; the listener's maps hold indices into it.  Ids  *)
(* that are drawn from 32 bits or more (the WireGuard index, the responder *)
(* SPI and the ESP SPI derived from it) are that index; ids the peer       *)
(* chooses, and the 16-bit tunnel ids of L2TP, may repeat.                 *)
(***************************************************************************)
EXTENDS Store

CONSTANTS
    Peers,       \* socket addresses
    IpOf,        \* their IP addresses
    Keys,        \* wire ids that may repeat
    Port,
    Protocols,   \* protocols explored, one per behaviour
    NoAttempt,   \* a row that names no reservation
    vpnSessionTTL, vpnSessionMaxData,
    quicTTL,     \* how long a QUIC peer is remembered: 30 s
    quicQueue,   \* capacity of quicC
    SessionTTL, ResTTL,
    MaxReservations, MaxPackets, MaxTime  \* model bounds

ASSUME UdpVpnConstants ==
    /\ IpOf \in [Peers -> Addrs]
    /\ Protocols \subseteq {"wireguard", "openvpn", "ike", "l2tp", "dtls", "quic", "stun", "dns"}
    /\ Kinds = Protocols \cup {"unknown"}
    /\ NoAttempt \notin Nat
    /\ {vpnSessionTTL, vpnSessionMaxData, quicTTL, quicQueue, SessionTTL, ResTTL,
        MaxReservations, MaxPackets, MaxTime} \subseteq Nat

VARIABLES
    proto,      \* one of Protocols, the same throughout
    now,
    granted,    \* reservations granted so far
    packets,    \* datagrams read so far
    flow,       \* the datagram being served
    sess,       \* sessions ever opened, in order: vpnFlow with what the four protocols add to
                \* it; ready when data may be echoed (IKE_AUTH was answered, the tunnel has a
                \* session, the data keys are derived)
    table,      \* the listener's maps from wire ids and peers to sessions
    quicPeers,  \* peers whose Initial was matched, with the time they are forgotten
    quicC,      \* packets on their way to the QUIC endpoint
    initials    \* peer and time of every Initial matched

udpVars == <<storeVars, proto, now, granted, packets, flow, sess, table, quicPeers, quicC, initials>>

Tables == {"wgSess", "ovpnSess", "ovpnPeer", "ikeSess", "espSess", "l2tpSess", "dtlsFlows"}

NoFlow == [pc |-> "none"]

Empty == [x \in {} |-> x]

Put(f, k, v) == [x \in DOMAIN f \cup {k} |-> IF x = k THEN v ELSE f[x]]

Keep(f, S) == [x \in S |-> f[x]]

Init ==
    /\ \E client \in [Sids -> Addrs] :
          sessions = [s \in Sids |-> [expires |-> SessionTTL, ip |-> client[s], tests |-> Tests]]
    /\ obs = {}
    /\ obsCount = 0
    /\ drops = ZeroDrops
    /\ reservations = {}
    /\ sessRate = [k \in Addrs |-> <<>>]
    /\ attemptRate = [k \in Addrs |-> <<>>]
    /\ bulkUsed = [k \in Addrs \cup {Total} |-> NoUse]
    /\ freshId = 0
    /\ proto \in Protocols
    /\ now = 0
    /\ granted = 0
    /\ packets = 0
    /\ flow = NoFlow
    /\ sess = <<>>
    /\ table = [t \in Tables |-> Empty]
    /\ quicPeers = Empty
    /\ quicC = <<>>
    /\ initials = {}

----------------------------------------------------------------------------
(* What the handlers share. *)

\* handle, up to the handler: loop reads a datagram only when the last one is done.
Arrives == flow = NoFlow /\ packets < MaxPackets /\ packets' = packets + 1

Unmatched(peer, stage) ==
    [pc |-> "serving", peer |-> peer, stage |-> stage, first |-> now, replied |-> FALSE,
     att |-> NoAttempt, sid |-> NoSid]

\* applyReservation.
Reserved(peer, r, replied) ==
    [Unmatched(peer, "handshake") EXCEPT !.att = r.id, !.sid = r.sid, !.replied = replied]

\* attribute and dataObs.
Attributed(peer, s, replied) ==
    [Unmatched(peer, "followup") EXCEPT !.att = s.att, !.sid = s.sid, !.replied = replied]

correlate(peer, kind) == findReservation(IpOf[peer], Port, kind, now)

\* A lookup: the session of a wire id unless it has expired; 0 is nil.
Lookup(t, k) ==
    IF k \in DOMAIN table[t] /\ now <= sess[table[t][k]].expires THEN table[t][k] ELSE 0

samePeer(i, peer) == sess[i].peer = peer

\* Mutant: a session goes at the instant of its expiry, when it is still found.
gcVPNEarly(tab) ==
    [t \in Tables |->
        IF t = "dtlsFlows" THEN tab[t]
        ELSE Keep(tab[t], {k \in DOMAIN tab[t] : now < sess[tab[t][k]].expires})]

\* An ESP SPI goes with its session, which is what the expiry of its own entry does.
gcVPN(tab) ==
    [t \in Tables |->
        IF t = "dtlsFlows" THEN tab[t]
        ELSE Keep(tab[t], {k \in DOMAIN tab[t] : now <= sess[tab[t][k]].expires})]

\* vpnFlow() of the handshake that consumed r.
Opened(peer, r, key, ready) ==
    [att |-> r.id, sid |-> r.sid, peer |-> peer, key |-> key, expires |-> now + vpnSessionTTL,
     dataIn |-> 0, dataOut |-> 0, ctlIn |-> 0, ctlOut |-> 0, ready |-> ready]

\* The datagram is served without a session being opened or changed.
Passed(row) ==
    /\ flow' = row
    /\ UNCHANGED <<storeVars, sess, table>>

\* The index of the session a handshake opens.
Fresh == Len(sess) + 1

\* A handshake: silence without a reservation; a failed one is attributed all the same.
Handshake(peer, ok, key, ready, entered) ==
    LET r == correlate(peer, proto) IN
    /\ Arrives
    /\ consume(r)
    /\ flow' = IF r = NoRes THEN Unmatched(peer, "handshake") ELSE Reserved(peer, r, ok)
    /\ IF r # NoRes /\ ok
       THEN /\ sess' = Append(sess, Opened(peer, r, key, ready))
            /\ table' = entered
       ELSE UNCHANGED <<sess, table>>
    /\ UNCHANGED <<proto, now, granted, quicPeers, quicC, initials>>

\* serveUnknown: also what nothing else claims.
Unclaimed(peer) ==
    LET r == correlate(peer, "unknown") IN
    /\ consume(r)
    /\ flow' = IF r = NoRes THEN Unmatched(peer, "handshake") ELSE Reserved(peer, r, TRUE)
    /\ UNCHANGED <<sess, table>>

\* A follow-up on session i that makes it s.
Follows(peer, i, s, replied) ==
    /\ sess' = [sess EXCEPT ![i] = s]
    /\ flow' = Attributed(peer, s, replied)
    /\ UNCHANGED <<storeVars, table>>

\* dataIn++, then an echo if within the limit.
Data(s, within) == [s EXCEPT !.dataIn = @ + 1, !.dataOut = IF within THEN @ + 1 ELSE @]

----------------------------------------------------------------------------
(* The handlers of udpDispatch. *)

serveWGInitiation(peer, ok) ==
    /\ proto = "wireguard"
    /\ Handshake(peer, ok, peer, TRUE,
                 [gcVPN(table) EXCEPT !["wgSess"] = Put(@, Fresh, Fresh)])

serveWGTransport(peer, idx, authentic) ==
    LET i == Lookup("wgSess", idx)
        within == sess[i].dataIn + 1 <= vpnSessionMaxData
    IN
    /\ proto = "wireguard" /\ Arrives
    /\ IF i = 0 THEN Passed(Unmatched(peer, "followup"))
       ELSE IF ~samePeer(i, peer) THEN Passed(Unmatched(peer, "followup"))
       ELSE IF ~authentic THEN Passed(Attributed(peer, sess[i], FALSE))
       ELSE Follows(peer, i, Data(sess[i], within), within)
    /\ UNCHANGED <<proto, now, granted, quicPeers, quicC, initials>>

\* IKE_SA_INIT.
serveIKEInit(peer, spii) ==
    /\ proto = "ike"
    /\ Handshake(peer, TRUE, spii, FALSE,
                 [gcVPN(table) EXCEPT !["ikeSess"] = Put(@, spii, Fresh),
                                      !["espSess"] = Put(@, Fresh, Fresh)])

\* IKE_AUTH; any other exchange is unmatched like an unknown SPI.
serveIKEAuth(peer, spii, spir) ==
    LET i == Lookup("ikeSess", spii)
        within == sess[i].dataIn + 1 <= vpnSessionMaxData
    IN
    /\ proto = "ike" /\ Arrives
    /\ IF i = 0 \/ i # spir THEN Passed(Unmatched(peer, "followup"))
       ELSE IF ~samePeer(i, peer) THEN Passed(Unmatched(peer, "followup"))
       ELSE Follows(peer, i,
                    [Data(sess[i], within) EXCEPT !.ready = (@ \/ within)], within)
    /\ UNCHANGED <<proto, now, granted, quicPeers, quicC, initials>>

\* Mutant: the peer is not compared.
serveESPAnyPeer(peer, spi) ==
    LET i == Lookup("espSess", spi)
        within == sess[i].dataIn + 1 <= vpnSessionMaxData
    IN
    /\ proto = "ike" /\ Arrives
    /\ IF i = 0 THEN Unclaimed(peer)
       ELSE IF ~sess[i].ready THEN Passed(Unmatched(peer, "followup"))
       ELSE Follows(peer, i, Data(sess[i], within), within)
    /\ UNCHANGED <<proto, now, granted, quicPeers, quicC, initials>>

serveESP(peer, spi) ==
    LET i == Lookup("espSess", spi)
        within == sess[i].dataIn + 1 <= vpnSessionMaxData
    IN
    /\ proto = "ike" /\ Arrives
    /\ IF i = 0 THEN Unclaimed(peer)
       ELSE IF ~samePeer(i, peer) \/ ~sess[i].ready THEN Passed(Unmatched(peer, "followup"))
       ELSE Follows(peer, i, Data(sess[i], within), within)
    /\ UNCHANGED <<proto, now, granted, quicPeers, quicC, initials>>

\* SCCRQ; the tunnel id is drawn from 16 bits.
serveL2TPStart(peer, tunnel) ==
    /\ proto = "l2tp"
    /\ Handshake(peer, TRUE, tunnel, FALSE,
                 [gcVPN(table) EXCEPT !["l2tpSess"] = Put(@, tunnel, Fresh)])

\* The rest of the control connection: ICRQ gives the tunnel a session; it, SCCCN, ICCN
\* and StopCCN are answered (and counted in ns), an acknowledgement leaves no row.
serveL2TPControl(peer, tunnel, msg) ==
    LET i == Lookup("l2tpSess", tunnel)
        answered == [sess[i] EXCEPT !.ctlOut = @ + 1, !.ready = (@ \/ msg = "ICRQ")]
    IN
    /\ proto = "l2tp" /\ Arrives
    /\ IF i = 0 THEN Passed(Unmatched(peer, "followup"))
       ELSE IF ~samePeer(i, peer) THEN Passed(Unmatched(peer, "followup"))
       ELSE IF msg = "ZLB" THEN Passed(NoFlow)
       ELSE IF msg = "other" THEN Passed(Attributed(peer, sess[i], FALSE))
       ELSE Follows(peer, i, answered, TRUE)
    /\ UNCHANGED <<proto, now, granted, quicPeers, quicC, initials>>

serveL2TPData(peer, tunnel) ==
    LET i == Lookup("l2tpSess", tunnel)
        within == sess[i].dataIn + 1 <= vpnSessionMaxData /\ sess[i].ready
    IN
    /\ proto = "l2tp" /\ Arrives
    /\ IF i = 0 THEN Unclaimed(peer)
       ELSE IF ~samePeer(i, peer) THEN Passed(Unmatched(peer, "followup"))
       ELSE Follows(peer, i, Data(sess[i], within), within)
    /\ UNCHANGED <<proto, now, granted, quicPeers, quicC, initials>>

\* ok: the HMAC of a tls-auth reset verifies.  The data keys need the control session.
serveOVPNReset(peer, ok, csid) ==
    /\ proto = "openvpn"
    /\ Handshake(peer, ok, csid, Live(correlate(peer, proto).sid, now),
                 [gcVPN(table) EXCEPT !["ovpnSess"] = Put(@, csid, Fresh),
                                      !["ovpnPeer"] = Put(@, peer, Fresh)])

\* Mutant: control packets are held against a limit of their own.
serveOVPNControlApart(peer, csid, op) ==
    LET i == Lookup("ovpnSess", csid)
        within == sess[i].ctlIn + 1 <= vpnSessionMaxData
    IN
    /\ proto = "openvpn" /\ Arrives
    /\ IF i = 0 THEN Passed(Unmatched(peer, "followup"))
       ELSE IF ~samePeer(i, peer) THEN Passed(Unmatched(peer, "followup"))
       ELSE IF op = "broken" THEN Passed(Attributed(peer, sess[i], FALSE))
       ELSE IF op = "ack" THEN Passed(NoFlow)
       ELSE Follows(peer, i, [sess[i] EXCEPT !.ctlIn = @ + 1,
                                             !.ctlOut = IF within THEN @ + 1 ELSE @], within)
    /\ UNCHANGED <<proto, now, granted, quicPeers, quicC, initials>>

\* Control and data packets share one limit.
serveOVPNControl(peer, csid, op) ==
    LET i == Lookup("ovpnSess", csid)
        within == sess[i].ctlIn + 1 + sess[i].dataIn <= vpnSessionMaxData
    IN
    /\ proto = "openvpn" /\ Arrives
    /\ IF i = 0 THEN Passed(Unmatched(peer, "followup"))
       ELSE IF ~samePeer(i, peer) THEN Passed(Unmatched(peer, "followup"))
       ELSE IF op = "broken" THEN Passed(Attributed(peer, sess[i], FALSE))
       ELSE IF op = "ack" THEN Passed(NoFlow)
       ELSE Follows(peer, i, [sess[i] EXCEPT !.ctlIn = @ + 1,
                                             !.ctlOut = IF within THEN @ + 1 ELSE @], within)
    /\ UNCHANGED <<proto, now, granted, quicPeers, quicC, initials>>

\* No id on the wire: the peer is the key.
serveOVPNData(peer, authentic) ==
    LET i == Lookup("ovpnPeer", peer)
        within == sess[i].ctlIn + sess[i].dataIn + 1 <= vpnSessionMaxData
    IN
    /\ proto = "openvpn" /\ Arrives
    /\ IF i = 0 THEN Passed(Unmatched(peer, "followup"))
       ELSE IF ~sess[i].ready THEN Passed(Unmatched(peer, "followup"))
       ELSE IF ~authentic THEN Passed(Attributed(peer, sess[i], FALSE))
       ELSE Follows(peer, i, Data(sess[i], within), within)
    /\ UNCHANGED <<proto, now, granted, quicPeers, quicC, initials>>

\* A ClientHello without a cookie; rememberDTLS sweeps its own table.
serveDTLSHello(peer) ==
    LET kept == {p \in DOMAIN table["dtlsFlows"] :
                    now <= sess[table["dtlsFlows"][p]].expires}
    IN
    /\ proto = "dtls"
    /\ Handshake(peer, TRUE, peer, TRUE,
                 [table EXCEPT !["dtlsFlows"] = Put(Keep(@, kept), peer, Fresh)])

\* One with a cookie, which is an address' HMAC.
serveDTLSCookie(peer, cookie) ==
    LET i == Lookup("dtlsFlows", peer) IN
    /\ proto = "dtls" /\ Arrives
    /\ IF i = 0 THEN Passed(Unmatched(peer, "followup"))
       ELSE Passed(Attributed(peer, sess[i], cookie = peer))
    /\ UNCHANGED <<proto, now, granted, quicPeers, quicC, initials>>

\* The queue takes the packet or it is lost.
Forwarded(peer) ==
    quicC' = IF Len(quicC) < quicQueue THEN Append(quicC, [peer |-> peer, at |-> now]) ELSE quicC

knownPeer(peer) == peer \in DOMAIN quicPeers /\ now < quicPeers[peer]

\* Mutant: the peer is remembered and served whether or not it reserved.
serveQUICUnreserved(peer, long) ==
    LET r == correlate(peer, proto)
        forgotten == Keep(quicPeers, DOMAIN quicPeers \ {peer})
    IN
    /\ proto = "quic" /\ Arrives
    /\ IF knownPeer(peer)
       THEN /\ Forwarded(peer)
            /\ Passed(NoFlow)
            /\ UNCHANGED <<quicPeers, initials>>
       ELSE IF ~long
       THEN /\ Unclaimed(peer)
            /\ quicPeers' = forgotten
            /\ UNCHANGED <<quicC, initials>>
       ELSE /\ consume(r)
            /\ Forwarded(peer)
            /\ flow' = IF r = NoRes THEN Unmatched(peer, "handshake") ELSE Reserved(peer, r, FALSE)
            /\ quicPeers' = Put(quicPeers, peer, now + quicTTL)
            /\ initials' = IF r = NoRes THEN initials ELSE initials \cup {[peer |-> peer, at |-> now]}
            /\ UNCHANGED <<sess, table>>
    /\ UNCHANGED <<proto, now, granted>>

\* matchQUIC and serveQUIC: a known peer's packets are forwarded and leave no row; another
\* peer's Initial needs a reservation, its short packets are not QUIC.
serveQUIC(peer, long) ==
    LET r == correlate(peer, proto)
        forgotten == Keep(quicPeers, DOMAIN quicPeers \ {peer})
    IN
    /\ proto = "quic" /\ Arrives
    /\ IF knownPeer(peer)
       THEN /\ Forwarded(peer)
            /\ Passed(NoFlow)
            /\ UNCHANGED <<quicPeers, initials>>
       ELSE IF ~long
       THEN /\ Unclaimed(peer)
            /\ quicPeers' = forgotten
            /\ UNCHANGED <<quicC, initials>>
       ELSE IF r = NoRes
       THEN /\ Passed(Unmatched(peer, "handshake"))
            /\ quicPeers' = forgotten
            /\ UNCHANGED <<quicC, initials>>
       ELSE /\ consume(r)
            /\ Forwarded(peer)
            /\ flow' = Reserved(peer, r, FALSE)
            /\ quicPeers' = Put(Keep(quicPeers, {p \in DOMAIN quicPeers : now <= quicPeers[p]}),
                                peer, now + quicTTL)
            /\ initials' = initials \cup {[peer |-> peer, at |-> now]}
            /\ UNCHANGED <<sess, table>>
    /\ UNCHANGED <<proto, now, granted>>

\* A Binding Request: answered under a reservation, and that is all.
serveSTUN(peer) ==
    LET r == correlate(peer, proto) IN
    /\ proto = "stun" /\ Arrives
    /\ consume(r)
    /\ flow' = IF r = NoRes THEN Unmatched(peer, "handshake") ELSE Reserved(peer, r, TRUE)
    /\ UNCHANGED <<proto, now, granted, sess, table, quicPeers, quicC, initials>>

\* A DNS port answers every query; the name says the session, or a reservation does.
serveDNS(peer, named) ==
    LET r == IF named = NoSid THEN correlate(peer, proto) ELSE NoRes IN
    /\ proto = "dns" /\ Arrives
    /\ consume(r)
    /\ flow' = IF r = NoRes
               THEN [Unmatched(peer, "handshake") EXCEPT !.sid = named, !.replied = TRUE]
               ELSE Reserved(peer, r, TRUE)
    /\ UNCHANGED <<proto, now, granted, sess, table, quicPeers, quicC, initials>>

serveUnknown(peer) ==
    /\ Arrives
    /\ Unclaimed(peer)
    /\ UNCHANGED <<proto, now, granted, quicPeers, quicC, initials>>

\* What a handler cannot parse: a broken hello or reset, an exchange it does not know.
Malformed(peer) ==
    /\ Arrives
    /\ Passed(Unmatched(peer, "handshake"))
    /\ UNCHANGED <<proto, now, granted, quicPeers, quicC, initials>>

----------------------------------------------------------------------------
(* The end of handle, and what goes on beside it. *)

Record ==
    /\ flow # NoFlow
    /\ addObservationAt([id |-> freshId, sid |-> flow.sid, first |-> flow.first], now)
    /\ flow' = NoFlow
    /\ UNCHANGED <<proto, now, granted, packets, sess, table, quicPeers, quicC, initials>>

\* demuxConn.ReadFrom
ReadFrom ==
    /\ quicC # <<>>
    /\ quicC' = Tail(quicC)
    /\ UNCHANGED <<storeVars, proto, now, granted, packets, flow, sess, table, quicPeers, initials>>

\* handleAttempt grants a window to a live session's client; its rate limit is in Quotas.
Reserve(sid, kind) ==
    /\ Live(sid, now)
    /\ granted < MaxReservations
    /\ granted' = granted + 1
    /\ reserve([id |-> granted, expires |-> now + ResTTL, ip |-> sessions[sid].ip, ep |-> Port,
                kind |-> kind, used |-> FALSE, sid |-> sid])
    /\ UNCHANGED <<proto, now, packets, flow, sess, table, quicPeers, quicC, initials>>

\* The store's gc, beside the listener.
Collect ==
    /\ gc(now)
    /\ UNCHANGED <<proto, now, granted, packets, flow, sess, table, quicPeers, quicC, initials>>

Tick ==
    /\ now < MaxTime
    /\ now' = now + 1
    /\ UNCHANGED <<storeVars, proto, granted, packets, flow, sess, table, quicPeers, quicC, initials>>

Next ==
    \/ \E p \in Peers, ok \in BOOLEAN : serveWGInitiation(p, ok)
    \/ \E p \in Peers, idx \in 1..MaxPackets, ok \in BOOLEAN : serveWGTransport(p, idx, ok)
    \/ \E p \in Peers, k \in Keys : serveIKEInit(p, k)
    \/ \E p \in Peers, k \in Keys, spir \in 1..MaxPackets : serveIKEAuth(p, k, spir)
    \/ \E p \in Peers, spi \in 1..MaxPackets : serveESP(p, spi)
    \/ \E p \in Peers, k \in Keys : serveL2TPStart(p, k)
    \/ \E p \in Peers, k \in Keys, msg \in {"ICRQ", "SCCCN", "ZLB", "other"} :
          serveL2TPControl(p, k, msg)
    \/ \E p \in Peers, k \in Keys : serveL2TPData(p, k)
    \/ \E p \in Peers, ok \in BOOLEAN, k \in Keys : serveOVPNReset(p, ok, k)
    \/ \E p \in Peers, k \in Keys, op \in {"control", "ack", "broken"} : serveOVPNControl(p, k, op)
    \/ \E p \in Peers, ok \in BOOLEAN : serveOVPNData(p, ok)
    \/ \E p \in Peers : serveDTLSHello(p)
    \/ \E p, cookie \in Peers : serveDTLSCookie(p, cookie)
    \/ \E p \in Peers, long \in BOOLEAN : serveQUIC(p, long)
    \/ \E p \in Peers : serveSTUN(p)
    \/ \E p \in Peers, sid \in Sids \cup {NoSid} : serveDNS(p, sid)
    \/ \E p \in Peers : serveUnknown(p)
    \/ \E p \in Peers : Malformed(p)
    \/ Record
    \/ ReadFrom
    \/ \E sid \in Sids, kind \in {proto, "unknown"} : Reserve(sid, kind)
    \/ Collect
    \/ Tick

Spec == Init /\ [][Next]_udpVars

----------------------------------------------------------------------------
(* Properties. *)

Rows == {flow} \ {NoFlow}

\* The handshake that opened a session came from the row's peer, consumed the reservation
\* the row names and is at most vpnSessionTTL old.
ServedFor(o) ==
    \E i \in DOMAIN sess : /\ sess[i].att = o.att /\ sess[i].sid = o.sid
                           /\ sess[i].peer = o.peer
                           /\ o.first <= sess[i].expires

\* dataObs and attribute: a follow-up packet is attributed to the attempt of a handshake
\* of its own peer, however wire ids repeat and entries are overwritten.
FollowUpsAttributed ==
    \A o \in Rows : (o.stage = "followup" /\ o.att # NoAttempt) => ServedFor(o)

\* "Without one the datagram is unmatched, and every handler stays silent": a peer gets an
\* answer, or the QUIC endpoint its packets, only for a reservation it has consumed.  A
\* DNS port alone answers whoever asks.
AnsweredReserved ==
    /\ \A o \in Rows : (o.replied /\ proto # "dns") => o.att # NoAttempt
    /\ \A n \in DOMAIN quicC : \E i \in initials :
          /\ i.peer = quicC[n].peer
          /\ i.at <= quicC[n].at /\ quicC[n].at <= i.at + quicTTL

\* vpnSessionMaxData bounds what one handshake can have echoed: one reservation opens one
\* session, and that one echoes no more packets, OpenVPN control and data taken together.
\* The replies on an L2TP control connection are not counted against it.
EchoesBounded ==
    /\ \A i, j \in DOMAIN sess : sess[i].att = sess[j].att => i = j
    /\ \A i \in DOMAIN sess :
          sess[i].dataOut + (IF proto = "l2tp" THEN 0 ELSE sess[i].ctlOut) <= vpnSessionMaxData

NewestBy(i, same(_)) == \A j \in DOMAIN sess : j > i => ~same(j)

\* Until it expires a session is found by the ids its peer puts on the wire, unless a
\* later handshake took the id: no sweep of gcVPN or rememberDTLS takes a live one.
LastHandshakeWins ==
    \A i \in DOMAIN sess :
        LET byKey == NewestBy(i, LAMBDA j : sess[j].key = sess[i].key)
            byPeer == NewestBy(i, LAMBDA j : samePeer(j, sess[i].peer))
        IN  now <= sess[i].expires =>
                /\ proto = "wireguard" => Lookup("wgSess", i) = i
                /\ proto = "ike" => Lookup("espSess", i) = i
                /\ (proto = "ike" /\ byKey) => Lookup("ikeSess", sess[i].key) = i
                /\ (proto = "l2tp" /\ byKey) => Lookup("l2tpSess", sess[i].key) = i
                /\ (proto = "openvpn" /\ byKey) => Lookup("ovpnSess", sess[i].key) = i
                /\ (proto = "openvpn" /\ byPeer) => Lookup("ovpnPeer", sess[i].peer) = i
                /\ (proto = "dtls" /\ byPeer) => Lookup("dtlsFlows", sess[i].peer) = i
=============================================================================
