------------------------------ MODULE MCUdpVpn ------------------------------
(* A listener with two peers behind one address. *)
EXTENDS UdpVpn, TLC

CONSTANTS a1, s1, p1, p2, k1, k2, port

MCRateKeyOf == [a \in {a1} |-> a]

MCIpOf == [p \in Peers |-> a1]

MCKinds == Protocols \cup {"unknown"}

MCSymmetry == Permutations(Peers) \cup Permutations(Keys)
=============================================================================
