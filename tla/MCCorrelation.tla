---------------------------- MODULE MCCorrelation ----------------------------
(* Correlation on small instances: x and y share a pool, z is on the same port. *)
EXTENDS Correlation, TLC

CONSTANTS a1, s1, s2, x, y, z, tls, vless, port

MCRateKeyOf == [a \in {a1} |-> a]

MCAddrOf == [s \in Sids |-> a1]

MCSidOf == [a \in Attempts |-> s1]

MCEpOf == [a \in Attempts |-> <<"tcp", port>>]

MCKindOf == [a \in Attempts |-> IF a = z THEN vless ELSE tls]

\* A VLESS flow that breaks before its request is a TLS flow to the server; likewise
\* an OpenVPN reset that breaks is an unknown payload.
MCBrokenKind == [a \in Attempts |-> {tls, MCKindOf[a]}]

\* A pool of connections correlated at their end beside one correlated early, and a pool
\* of datagrams.
MCModes == {[a \in Attempts |-> IF a = z THEN "early" ELSE "late"],
            [a \in Attempts |-> IF a = z THEN "absent" ELSE "datagram"]}

\* x and y are interchangeable.
MCSymmetry == Permutations({x, y})
=============================================================================
