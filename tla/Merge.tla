-------------------------------- MODULE Merge --------------------------------
(***************************************************************************)
(* internal/client/merge.go: which observation an attempt is given, and    *)
(* the verdict read from the two halves.                                   *)
(***************************************************************************)
EXTENDS Responders

(* handshakeTestOf(test) is set: the tests whose data packets are compared. *)
SessionTests == {"openvpn_session", "socks5_session", "vless_session", "tor_link", "obfs4_session",
                 "wireguard_session"}

(* The observation reaches the attempt: by its nonce, by the reservation of *)
(* its kind, or as the empty flow of a reserved window (mergeObservations,  *)
(* the server's finish).                                                    *)
attach(t, s) ==
    \/ s.nonce
    \/ /\ transport(t) = "tcp" /\ s.pc # "none"
       /\ reserve[t] # None /\ s.parse \in {reserve[t], "empty"}

serverWaitedForClient(s) == s.err = "waited" \/ s.close \in {"timeout", "client_eof", "client_reset"}

\* Mutant: only a finished exchange counts as a reply.
mergeTimeoutFinished(t, a, s, seen) ==
    IF ~seen THEN "uplink_drop_or_route_failure"
    ELSE IF a.outcome = "connect_timeout" /\ transport(t) = "tcp"
         THEN "connect_diverged_middlebox_or_misattributed"
    ELSE IF s.cookie THEN "cookie_mismatch_nat_or_multipath"
    ELSE IF s.mac THEN "uplink_modified"
    ELSE IF s.late THEN "uplink_delayed_past_deadline"
    ELSE IF s.replied THEN "downlink_drop"
    ELSE IF s.err # None
         THEN IF serverWaitedForClient(s) THEN "uplink_drop_or_route_failure" ELSE "server_error"
    ELSE IF s.response \in {"silence", "refused"} THEN "server_silent" ELSE "downlink_drop"

(* mergeVerdict of the timeout class. *)
mergeTimeout(t, a, s, seen) ==
    IF ~seen THEN "uplink_drop_or_route_failure"
    ELSE IF a.outcome = "connect_timeout" /\ transport(t) = "tcp"
         THEN "connect_diverged_middlebox_or_misattributed"
    ELSE IF s.cookie THEN "cookie_mismatch_nat_or_multipath"
    ELSE IF s.mac THEN "uplink_modified"
    ELSE IF s.late THEN "uplink_delayed_past_deadline"
    ELSE IF s.replied \/ s.out THEN "downlink_drop"
    ELSE IF transport(t) = "tcp" /\ s.parse = "empty" THEN "uplink_drop_or_route_failure"
    ELSE IF s.err # None
         THEN IF serverWaitedForClient(s) THEN "uplink_drop_or_route_failure" ELSE "server_error"
    ELSE IF s.response \in {"silence", "refused"} THEN "server_silent" ELSE "downlink_drop"

(* session_cut: server_data_seen is set for the session tests only. *)
mergeSessionCut(t, a, s, seen) ==
    LET control == a.sent = 0 /\ a.ctlSent > 0
        sent == IF control THEN a.ctlSent ELSE a.sent
        saw == IF t \notin SessionTests THEN 0 ELSE IF control THEN s.ctl ELSE s.data
    IN IF ~seen \/ saw < sent THEN "uplink_drop_after_handshake" ELSE "downlink_drop_after_handshake"

mergePacketsCut(t, a, s, seen) ==
    IF ~seen THEN "uplink_drop_or_route_failure"
    ELSE IF transport(t) = "udp"
         THEN IF s.packets < a.sent THEN "uplink_drop_or_route_failure" ELSE "downlink_drop"
    ELSE IF s.partial \/ s.response # "echo" THEN "uplink_drop_or_route_failure" ELSE "downlink_drop"

mergeBulk(a, s, seen) ==
    IF ~seen THEN "uplink_drop_or_route_failure"
    ELSE IF a.outcome = "bulk_reset"
         THEN IF s.close = "client_reset" THEN "rst_injected_bidirectional" ELSE "rst_injected_or_path_reset"
    ELSE IF s.bulk = "down" \/ (a.moved > 0 /\ s.upBytes >= a.moved) THEN "downlink_drop"
    ELSE "uplink_drop_or_route_failure"

mergeVerdict(t, a, s, seen) ==
    LET o == a.outcome IN
    CASE o = "ok" -> IF seen /\ s.mac THEN "uplink_modified" ELSE "ok"
      [] o \in {"connect_timeout", "payload_timeout"} -> mergeTimeout(t, a, s, seen)
      [] o \in {"connect_reset", "midstream_reset"} ->
            IF seen /\ s.close = "client_reset" THEN "rst_injected_bidirectional" ELSE "rst_injected_or_path_reset"
      [] o = "midstream_eof" ->
            IF ~seen THEN "path_closed_before_server"
            ELSE IF s.close = "client_reset" THEN "rst_injected_or_path_reset" ELSE "server_closed"
      [] o = "connect_refused" ->
            IF seen THEN "refused_after_server_saw_it" ELSE "refused_by_path_or_port_closed"
      [] o = "tls_spoof" ->
            IF ~seen THEN "injected"
            ELSE IF s.response = "handshake_failed" THEN "server_rejected_handshake" ELSE "downlink_modified"
      [] o = "session_cut" -> mergeSessionCut(t, a, s, seen)
      [] o = "packets_cut" -> mergePacketsCut(t, a, s, seen)
      [] o \in {"bulk_stall", "bulk_reset"} -> mergeBulk(a, s, seen)
      [] o \in {"tls_alert", "tls_parse"} ->
            IF ~seen THEN "injected"
            ELSE IF s.response # "handshake_failed" THEN "downlink_modified"
            ELSE IF ~s.sni THEN "uplink_modified" ELSE "server_rejected_handshake"
      [] o \in {"unexpected_response", "modified"} ->
            IF ~seen THEN "injected"
            ELSE IF s.mac THEN "uplink_modified"
            ELSE IF s.replied \/ s.out THEN "downlink_modified" ELSE "injected"
      [] o = "server_error" -> "server_error"
      [] OTHER -> "inconclusive"
=============================================================================
