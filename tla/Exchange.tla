------------------------------ MODULE Exchange ------------------------------
(***************************************************************************)
(* One attempt of a test: the client's half (Probes), the server's         *)
(* (Responders), the path between them, and what the merge of the two      *)
(* halves says of the path (Merge).  up and down are what is in flight.    *)
(* The path may drop a direction from some point on, lose or hold a        *)
(* datagram, alter a message, answer in the server's place, tear the       *)
(* connection down or move the client to another address; the host itself  *)
(* may fail.                                                               *)
(***************************************************************************)
EXTENDS Merge, FiniteSets

CONSTANTS
    CheckedTests,   \* the tests a run looks at
    ReadOutlasts,   \* where the server reads on for longer than the client waits for one packet
    FaultKinds,     \* what may happen on the way
    MaxFaults       \* bound on how many things do to one attempt

ASSUME ExchangeConstants == CheckedTests \subseteq Tests /\ MaxFaults \in Nat

VARIABLES
    test,      \* the attempt's test
    allowed,   \* the server's quotas still admit the client's address
    client, row,
    up, down,  \* messages in flight
    held,      \* a datagram the path keeps back
    dropped,   \* the directions nothing passes any more
    faults     \* what the path did: a set of <<kind, direction>>

vars == <<test, allowed, client, row, up, down, held, dropped, faults>>

Init ==
    /\ test \in CheckedTests
    /\ allowed \in BOOLEAN
    /\ client = newAttempt(test)
    /\ row = newRow(IF transport(test) = "tcp" THEN "none" ELSE "udp")
    /\ up = <<>> /\ down = <<>> /\ held = <<>>
    /\ dropped = {} /\ faults = {}

TCP == transport(test) = "tcp"

Current == Script[test][client.at]

pass(queue, d, ms) == IF d \in dropped THEN queue ELSE queue \o ms

(* The client's attempt becomes a; a finished one closes its connection, if any. *)
Attempt(a, ms) ==
    /\ client' = a
    /\ up' = pass(up, "up", IF a.pc = "done" /\ TCP /\ row.pc # "none" THEN Append(ms, msg("eof")) ELSE ms)

(* The responder did d; the end of a handler closes the connection. *)
Respond(d) ==
    /\ row' = d.row
    /\ down' = pass(down, "down", IF d.row.pc = "gone" THEN Append(d.replies, msg("eof")) ELSE d.replies)

(* dialTCP: the three-way handshake needs both directions. *)
Dial ==
    /\ client.pc = "dial"
    /\ IF dropped = {}
       THEN client' = [client EXCEPT !.pc = "send"] /\ row' = newRow("accepted")
       ELSE client' = fail(client, classifyNetErr("timeout", FALSE)) /\ UNCHANGED row
    /\ UNCHANGED <<test, allowed, up, down, held, dropped, faults>>

Send ==
    /\ client.pc = "send"
    /\ Attempt(wrote(test, client), <<msg(Current.send)>>)
    /\ UNCHANGED <<test, allowed, row, down, held, dropped, faults>>

(* A write after a RST came in. *)
SendFails ==
    /\ client.pc = "send" /\ \E i \in DOMAIN down : down[i].k = "rst"
    /\ client' = writeFailed(test, client, "reset")
    /\ UNCHANGED <<test, allowed, row, up, down, held, dropped, faults>>

Receive ==
    /\ client.pc = "wait" /\ down # <<>>
    /\ down' = Tail(down)
    /\ LET m == Head(down) IN
       IF m.k = "rst" THEN client' = failed(test, client, "reset") /\ UNCHANGED up
       ELSE Attempt(IF m.k \in {"eof", "alert"} THEN failed(test, client, m.k)
                    ELSE IF m.k # Current.want THEN fail(client, "unexpected_response")
                    ELSE IF m.bad /\ (client.tls \/ ~unchecked(Current)) THEN mismatched(test, client, FALSE)
                    ELSE answered(test, client), <<>>)
    /\ UNCHANGED <<test, allowed, row, held, dropped, faults>>

(* The deadline: nothing is on its way (the client waits longer than the   *)
(* server's second of quiet).                                              *)
ClientTimeout ==
    /\ client.pc = "wait" /\ up = <<>> /\ down = <<>> /\ row.pc # "quiet"
    /\ Attempt(failed(test, client, "timeout"), <<>>)
    /\ UNCHANGED <<test, allowed, row, down, held, dropped, faults>>

(* The server takes the next message; a closed connection answers a RST. *)
ServeTCP ==
    /\ TCP /\ up # <<>> /\ row.pc # "none"
    /\ up' = Tail(up)
    /\ LET m == Head(up) IN
       IF row.pc = "gone"
       THEN /\ down' = IF m.k \in {"eof", "rst"} THEN down ELSE pass(down, "down", <<msg("rst")>>)
            /\ UNCHANGED row
       ELSE Respond(CASE m.k = "eof" -> ended(row, "client_eof")
                      [] m.k = "rst" -> ended(row, "client_reset")
                      [] OTHER -> serve(row, m, allowed))
    /\ UNCHANGED <<test, allowed, client, held, dropped, faults>>

(* One datagram; FirstSeenAt is the time of the first. *)
ServeDatagram ==
    /\ ~TCP /\ up # <<>>
    /\ up' = Tail(up)
    /\ LET d == serveUDP(row, Head(up), allowed, \E f \in faults : f[1] = "rebind")
           late == row.parse = "empty" /\ client.pc = "done"
       IN Respond([d EXCEPT !.row.late = @ \/ late])
    /\ UNCHANGED <<test, allowed, client, held, dropped, faults>>

(* A read deadline of the server, and the second of quiet.  In a data      *)
(* phase the client's next packet comes before the deadlines of            *)
(* ReadOutlasts, if it comes through at all.                               *)
ServerTimeout ==
    /\ TCP /\ row.pc \notin {"none", "gone"} /\ up = <<>>
    /\ row.pc = "quiet" \/ (client.pc \notin {"dial", "send"} /\ (down = <<>> \/ client.pc = "done"))
    /\ row.pc \in ReadOutlasts /\ client.pc = "wait" => "up" \in dropped
    /\ Respond(ended(row, "timeout"))
    /\ UNCHANGED <<test, allowed, client, up, held, dropped, faults>>

-----------------------------------------------------------------------------
(* The path and the host.  What was done once may be done again. *)
Fault(kind, d) ==
    /\ kind \in FaultKinds
    /\ client.pc # "done"
    /\ faults' = faults \union {<<kind, d>>}
    /\ Cardinality(faults') <= MaxFaults

Without(d) == IF d = "up" THEN up' = Tail(up) /\ UNCHANGED down ELSE down' = Tail(down) /\ UNCHANGED up

InFlight(d) == IF d = "up" THEN up ELSE down

Drop(d) ==
    /\ Fault("drop", d) /\ d \notin dropped
    /\ dropped' = dropped \union {d}
    /\ IF d = "up" THEN up' = <<>> /\ UNCHANGED down ELSE down' = <<>> /\ UNCHANGED up
    /\ UNCHANGED <<test, allowed, client, row, held>>

Lose(d) ==
    /\ Fault("lose", d) /\ ~TCP /\ InFlight(d) # <<>>
    /\ Without(d)
    /\ UNCHANGED <<test, allowed, client, row, held, dropped>>

Alter(d) ==
    /\ Fault("alter", d) /\ InFlight(d) # <<>> /\ Head(InFlight(d)).k \notin {"eof", "rst", "alert"}
    /\ IF d = "up" THEN up' = [up EXCEPT ![1].bad = TRUE] /\ UNCHANGED down
                   ELSE down' = [down EXCEPT ![1].bad = TRUE] /\ UNCHANGED up
    /\ UNCHANGED <<test, allowed, client, row, held, dropped>>

Forge ==
    /\ Fault("forge", "down") /\ client.pc = "wait" /\ (client.tls \/ ~unchecked(Current))
    /\ Attempt(mismatched(test, client, TRUE), <<>>)
    /\ UNCHANGED <<test, allowed, row, down, held, dropped>>

(* A RST to either end or to both; one that meets the SYN is a refusal. *)
Reset(ends) ==
    /\ Fault("reset", "both") /\ TCP
    /\ IF client.pc = "dial"
       THEN client' = fail(client, classifyNetErr("refused", FALSE)) /\ UNCHANGED <<up, down>>
       ELSE /\ up' = IF "server" \in ends /\ row.pc # "gone" THEN <<msg("rst")>> ELSE up
            /\ down' = IF "client" \in ends THEN <<msg("rst")>> ELSE down
            /\ UNCHANGED client
    /\ UNCHANGED <<test, allowed, row, held, dropped>>

Hold ==
    /\ Fault("hold", "up") /\ ~TCP /\ up # <<>>
    /\ held' = <<Head(up)>> /\ up' = Tail(up)
    /\ UNCHANGED <<test, allowed, client, row, down, dropped>>

Release ==
    /\ held # <<>> /\ client.pc = "done"
    /\ held' = <<>> /\ up' = up \o held
    /\ UNCHANGED <<test, allowed, client, row, down, dropped, faults>>

(* The NAT gives the client another address. *)
Rebind ==
    /\ Fault("rebind", "up") /\ ~TCP
    /\ UNCHANGED <<test, allowed, client, row, up, down, held, dropped>>

(* The machine itself fails the next call: no route, no buffers. *)
HostFails ==
    /\ Fault("host", "none")
    /\ Attempt(CASE client.pc = "dial" -> fail(client, classifyNetErr("host", FALSE))
                 [] client.pc = "send" -> writeFailed(test, client, "host")
                 [] client.pc = "wait" -> failed(test, client, "host"), <<>>)
    /\ UNCHANGED <<test, allowed, row, down, held, dropped>>

(* Both halves are written down. *)
Settled == client.pc = "done" /\ row.pc \in {"none", "gone", "udp"} /\ up = <<>> /\ held = <<>>

Done == Settled /\ UNCHANGED vars

Next ==
    \/ Dial \/ Send \/ SendFails \/ Receive \/ ClientTimeout
    \/ ServeTCP \/ ServeDatagram \/ ServerTimeout
    \/ \E d \in {"up", "down"} : Drop(d) \/ Lose(d) \/ Alter(d)
    \/ Forge \/ Hold \/ Release \/ Rebind \/ HostFails
    \/ \E ends \in {{"client"}, {"server"}, {"client", "server"}} : Reset(ends)
    \/ Done

Spec == Init /\ [][Next]_vars

(* Both ends run and their deadlines fire; what the path holds it lets go.   *)
Fairness ==
    /\ WF_vars(Dial \/ Send \/ Receive \/ ClientTimeout)
    /\ WF_vars(ServeTCP \/ ServeDatagram \/ ServerTimeout)
    /\ WF_vars(Release)

FairSpec == Spec /\ Fairness

-----------------------------------------------------------------------------
merged == mergeVerdict(test, client, row, attach(test, row))

Touched(d) == \E f \in faults : f[2] \in {d, "both"}

Happened(kinds) == \E f \in faults : f[1] \in kinds

(* Nothing happened to it and the server had quota for it: the attempt     *)
(* merges as ok, whichever test it is.                                     *)
HealthyIsOk == Settled /\ faults = {} /\ allowed => merged = "ok"

(* Whatever the path does, the attempt ends and so does its flow at the     *)
(* server: every wait of either side has a deadline.                        *)
AttemptEnds == <>Settled

(* Attempts whose direction the merge does not tell:                        *)
(* - a TLS handshake of vless.* or of a bulk transfer in TLS has no nonce   *)
(*   yet and no reservation of its kind, so no observation is attached;     *)
(* - bulk_bytes of an upload counts acknowledged chunks, which the server   *)
(*   always saw (UploadDirection);                                          *)
(* - a tcp.packets envelope the server refused counts as cut on the way;    *)
(* - a datagram of udp.packets the server rejected counts as seen;          *)
(* - a failure of the host in a data phase counts as a cut (HostNotBlamed). *)
Undirected ==
    \/ test \in {"vless_reality", "vless_session", "bulk_up_tls", "bulk_down_tls", "bulk_up"}
    \/ Current.by = "piece" /\ ~allowed
    \/ Current.by = "datagram" /\ Happened({"alter", "rebind"})
    \/ Happened({"host"})

(* The client timed out on its first reply. *)
Unheard == client.at = 1 \/ Current.by = "datagram"

(* A drop is blamed on the direction the path touched: uplink when the     *)
(* server's half shows that the request, or a packet of the session, did   *)
(* not arrive; downlink when it shows that it did.  A timeout in the later *)
(* rounds of a handshake counts as downlink by decision (the server had    *)
(* answered), and a failed dial as uplink (a lost SYN and a lost SYN-ACK   *)
(* look the same).                                                         *)
DirectionTrue ==
    Settled /\ ~Undirected =>
    /\ /\ merged \in {"uplink_drop_or_route_failure", "uplink_drop_after_handshake",
                      "uplink_delayed_past_deadline"}
       /\ client.outcome # "connect_timeout"
       => Touched("up")
    /\ /\ merged \in {"downlink_drop", "downlink_drop_after_handshake"}
       /\ client.outcome = "payload_timeout" => Unheard
       => Touched("down")

(* A torn down, forged or altered flow is reported only where the path did  *)
(* that to it.  Two readings are the code's own: an upload or download the  *)
(* server closed for being idle counts as reset, and a bulk request it      *)
(* refused (413) as altered.                                                *)
InterferenceTrue ==
    Settled =>
    /\ /\ merged \in {"rst_injected_or_path_reset", "rst_injected_bidirectional"}
       /\ client.outcome # "bulk_reset"
       => Happened({"reset"})
    /\ /\ merged \in {"injected", "uplink_modified", "downlink_modified"}
       /\ allowed \/ Current.by # "bulk"
       => Happened({"forge", "alter"})

(* A stalled upload is blamed on the downlink only when the path touched    *)
(* the downlink: "Everything the client sent arrived and the                *)
(* acknowledgement was lost" (mergeVerdict).                                *)
UploadDirection ==
    Settled /\ test = "bulk_up" /\ client.outcome = "bulk_stall" /\ merged = "downlink_drop" => Touched("down")

(* What the machine itself failed at is never put down to the path: "Local  *)
(* socket failures are the host's problem, not the path's: never a          *)
(* censorship outcome" (classifyNetErr).                                    *)
HostNotBlamed ==
    Settled /\ faults # {} /\ (\A f \in faults : f[1] = "host") /\ allowed => merged \in {"ok", "server_error"}
=============================================================================
