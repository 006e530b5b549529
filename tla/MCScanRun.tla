----------------------------- MODULE MCScanRun -----------------------------
(* A scan of two plans that share a pool and a port group, one on its own, and a tail. *)
EXTENDS ScanRun

CONSTANTS tcp443, tcp80, pool

MCGroup == [p \in Plans |-> IF p = 3 THEN tcp80 ELSE tcp443]

MCserial == [p \in Plans |-> IF p \in {1, 2} THEN pool ELSE NoPool]

MCTestID == [p \in Plans |-> IF p \in {4, 5} THEN "tls.burst" ELSE "other"]
=============================================================================
