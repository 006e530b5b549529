----------------------------- MODULE MCSessions -----------------------------
(* Sessions on a small instance. *)
EXTENDS Sessions, TLC

CONSTANTS a1, s1, s2, s3, t1, t2, f1, f2, h1, h2

MCRateKeyOf == [a \in {a1} |-> a]

\* Sessions, openers and flows are interchangeable.
MCSymmetry == Permutations(Sids) \cup Permutations(Openers) \cup Permutations(Flows)
=============================================================================
