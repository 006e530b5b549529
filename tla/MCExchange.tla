----------------------------- MODULE MCExchange -----------------------------
(* Small instances of Exchange. *)
EXTENDS Exchange

MCTests == Tests
MCUpload == {"bulk_up"}
MCOutlasts == {"openvpn", "mirror", "torlink"}
MCFaults == {"drop", "lose", "alter", "forge", "reset", "hold", "rebind", "host"}
MCDrop == {"drop"}
MCHost == {"host"}
=============================================================================
