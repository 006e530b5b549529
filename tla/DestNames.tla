------------------------------ MODULE DestNames ------------------------------
(***************************************************************************)
(* What the real-destinations family makes of names and addresses          *)
(* (internal/dest): the DNS-over-HTTPS resolvers and their consensus, the  *)
(* comparison with the system resolver, the choice of the addresses to     *)
(* probe, and the judgement of a disagreement from two connection checks   *)
(* (internal/client/tests_dest.go).  Lists of addresses are sequences      *)
(* without duplicates: their order decides which address a scan uses.      *)
(***************************************************************************)
EXTENDS Integers, Sequences, SequencesExt

CONSTANTS
    V4, V6,   \* the addresses, by family
    Bogons    \* those that cannot be a public web endpoint

ASSUME AddressFamilies == V4 \cap V6 = {} /\ Bogons \subseteq V4 \cup V6

Addresses == V4 \cup V6

IsBogon(ip) == ip \in Bogons

\* The elements of a list that are in a set, in order.
Kept(list, set) ==
    LET out[i \in 0..Len(list)] ==
            IF i = 0 THEN <<>>
            ELSE IF list[i] \in set THEN Append(out[i - 1], list[i]) ELSE out[i - 1]
    IN out[Len(list)]

Unique(ips) ==
    LET out[i \in 0..Len(ips)] ==
            IF i = 0 THEN <<>>
            ELSE IF ips[i] \in ToSet(out[i - 1]) THEN out[i - 1] ELSE Append(out[i - 1], ips[i])
    IN out[Len(ips)]

PublicIn(ips) == ToSet(ips) \ Bogons

\* Public IPv4 first, in input order, then IPv6.
Prioritize(ips) ==
    LET Public(family) == Kept(Unique(ips), {ip \in family : ~ IsBogon(ip)})
    IN Public(V4) \o Public(V6)

Usable(ips, usable) == Kept(ips, usable)

----------------------------------------------------------------------------
(* The trusted resolvers.  A query yields Failed or a response of a DNS    *)
(* server; an endpoint is asked for A and for AAAA.                        *)

Response(rcode, ips) == [rcode |-> rcode, ips |-> ips]

Failed == Response("ERROR", <<>>)

\* An HTTPS endpoint fails when both queries do, the JSON API when its A query does.
EndpointFails(ep) == ep.A = Failed /\ (ep.api = "json" \/ ep.AAAA = Failed)

combine(a, aaaa) ==
    LET ips    == Unique(a.ips \o aaaa.ips)
        rcodes == {a.rcode, aaaa.rcode}
    IN Response(IF ips # <<>> THEN "NOERROR"
                ELSE IF rcodes = {"ERROR"} THEN "ERROR"
                ELSE IF "NXDOMAIN" \in rcodes /\ rcodes \subseteq {"NXDOMAIN", "ERROR"}
                     THEN "NXDOMAIN"
                ELSE IF "OTHER" \in rcodes THEN "OTHER" ELSE "NOERROR", ips)

\* One resolver: the first of its endpoints that answers.
QueryDoH(endpoints) ==
    LET answering == Kept(endpoints, {ep \in ToSet(endpoints) : ~ EndpointFails(ep)})
    IN IF answering = <<>> THEN Failed ELSE combine(Head(answering).A, Head(answering).AAAA)

\* The addresses of the answers, one answer after the other.
Joined(answers) ==
    LET all[i \in 0..Len(answers)] ==
            IF i = 0 THEN <<>> ELSE all[i - 1] \o answers[i].ips
    IN all[Len(answers)]

TrustedConsensus(answers) ==
    LET ok  == Kept(answers, {a \in ToSet(answers) : a.rcode # "ERROR"})
        ips == Unique(Joined(ok))
    IN IF ok = <<>> THEN Failed
       ELSE IF \A i \in DOMAIN ok : ok[i].rcode = "NXDOMAIN" THEN Response("NXDOMAIN", <<>>)
       ELSE IF ips # <<>> THEN Response("NOERROR", ips)
       ELSE Response("OTHER", <<>>)

----------------------------------------------------------------------------
(* The system resolver's answer next to the consensus (Compare). *)

\* The early returns: there is nothing to compare.
Comparable(sys, trusted) ==
    /\ ~ (trusted.rcode \in {"ERROR", "OTHER"} /\ trusted.ips = <<>>)
    /\ sys.rcode # "TIMEOUT"
    /\ ~ (trusted.rcode = "NXDOMAIN" /\ sys.ips = <<>>)

\* nxdomain, bogon, hijack.
Tampered(sys, trusted) ==
    /\ Comparable(sys, trusted)
    /\ \/ sys.rcode = "NXDOMAIN" /\ PublicIn(trusted.ips) # {}
       \/ ToSet(sys.ips) \cap Bogons # {} /\ PublicIn(trusted.ips) # {}
       \/ trusted.rcode = "NXDOMAIN" /\ sys.ips # <<>>

sharesFamily(a, b) ==
    \E family \in {V4, V6} : PublicIn(a) \cap family # {} /\ PublicIn(b) \cap family # {}

Disagree(sys, trusted) ==
    /\ Comparable(sys, trusted) /\ ~ Tampered(sys, trusted)
    /\ sharesFamily(sys.ips, trusted.ips)
    /\ ToSet(sys.ips) \cap ToSet(trusted.ips) = {}

\* What the transport layers probe, and where it comes from.
ProbeAddrs(sys, trusted, usable) ==
    LET t == Usable(Prioritize(trusted.ips), usable)
        s == Usable(Prioritize(sys.ips), usable)
    IN IF t # <<>> THEN [ips |-> t, source |-> "trusted"]
       ELSE IF s # <<>> THEN [ips |-> s, source |-> "system"]
       ELSE [ips |-> <<>>, source |-> "none"]

\* Only "unavailable for legal reasons" is a region block.
ClassifyHTTP(status) == status = 451

----------------------------------------------------------------------------
(* Connection checks: how far destServes got on one address. *)

ServeResult(handshake, verifies, outcome) ==
    [handshake |-> handshake, verifies |-> verifies, outcome |-> outcome]

unfinished(r) == r.outcome \in {"connect_timeout", "payload_timeout", "server_error",
                                "skipped", "inconclusive"}

\* Mutant: a check of the system's address that did not finish counts against it.
judgeUnanswered(sys, tr) ==
    IF sys.handshake THEN "geo_dns" ELSE IF tr.handshake THEN "poisoned" ELSE "neither_serves"

\* What the checks of the system's address and of the trusted one say of a disagreement.
judgeDisagreement(sys, tr) ==
    LET sysServes == sys.handshake /\ (sys.verifies \/ (tr.handshake /\ ~ tr.verifies))
        trServes  == tr.handshake /\ (tr.verifies \/ ~ sys.handshake)
    IN IF sysServes THEN "geo_dns"
       ELSE IF unfinished(sys) \/ (~ trServes /\ unfinished(tr)) THEN "unverified"
       ELSE IF trServes THEN "poisoned" ELSE "neither_serves"
=============================================================================
