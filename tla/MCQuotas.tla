------------------------------ MODULE MCQuotas ------------------------------
(* Quotas on a small instance: a1 and a2 are two addresses of one IPv6 /64. *)
EXTENDS Quotas, TLC

CONSTANTS a1, a2, b1, c1, c2

MCRateKeyOf == [a \in {a1, a2, b1} |-> IF a = a2 THEN a1 ELSE a]

\* Rate windows, and bulk requests around midnight: they share no state.
MCLoads == {[calls |-> {"session", "attempt"}, addrs |-> {a1, a2}, boot |-> 0],
            [calls |-> {"up", "down"}, addrs |-> {a1, b1}, boot |-> MaxTime - 1]}

MCSymmetry == Permutations(Callers)
=============================================================================
