------------------------------- MODULE MCDest -------------------------------
(* Dest on a site with three IPv4 addresses and one IPv6 address. *)
EXTENDS Dest

CONSTANTS a1, a2, a3, six, sink, bogon

Site == [fixed |-> <<>>, skipDNS |-> FALSE, skipTLS |-> FALSE, httpCheck |-> TRUE, proto |-> FALSE]

\* The handshakes of a site, its DNS layer beside its page, a target with its own protocol
\* and a fixed address, and a TCP-only one without a name.
MCScans ==
    {[target |-> Site, wanted |-> {"dest.tls"}],
     [target |-> Site, wanted |-> {"dest.dns", "dest.http", "dest.nxdomain"}],
     [target |-> [Site EXCEPT !.proto = TRUE, !.fixed = <<six, a2>>], wanted |-> {"dest.dns", "dest.proto"}],
     [target |-> [Site EXCEPT !.skipDNS = TRUE, !.skipTLS = TRUE, !.fixed = <<a1, bogon>>],
      wanted |-> {"dest.tcp", "dest.tls"}]}

\* The second resolver knows the name and has no records, or fails.
MCTrustedA == <<<<a1>>, <<>>>>

MCTrustedAAAA == <<<<six>>, <<>>>>

MCWorlds ==
    [exists : {TRUE}, honest : {TRUE}, roots : {TRUE}, usable : {V4}]
    \cup [exists : {TRUE}, honest : {TRUE}, roots : {FALSE}, usable : {Addresses}]
    \cup [exists : BOOLEAN, honest : {FALSE}, roots : {TRUE}, usable : {V4}]
    \cup [exists : {FALSE}, honest : {TRUE}, roots : {TRUE}, usable : {V4}]

\* An honest resolver gives one of the trusted addresses, another region's, or both families.
MCSystemHonest == {<<a1>>, <<a3>>, <<six, a3>>}

MCSystemLies == {<<sink>>, <<bogon>>}
=============================================================================
