---------------------------- MODULE MCLifecycle ----------------------------
(* Small configurations: a DNS port beside plain ports, a QUIC endpoint, a  *)
(* DoT port, a port given twice, and two that Validate refuses.             *)
EXTENDS Lifecycle, TLC

CONSTANTS a1, f1, f2

MCBase == [control |-> 1, tcp |-> <<2>>, dns |-> <<>>, dot |-> 0, udp |-> <<2>>, quic |-> TRUE]

MCConfigs ==
    { MCBase,
      [MCBase EXCEPT !.tcp = <<>>, !.dns = <<3>>, !.quic = FALSE],
      [MCBase EXCEPT !.tcp = <<2, 2>>, !.udp = <<>>],
      [MCBase EXCEPT !.tcp = <<>>, !.dot = 4],
      [MCBase EXCEPT !.tcp = <<1>>],
      [MCBase EXCEPT !.dns = <<2>>, !.tcp = <<>>] }

MCHeld == {{}, {<<"tcp", 1>>}, {<<"tcp", 2>>}, {<<"udp", 2>>}, {<<"udp", 3>>}}

MCIpOf == (f1 :> a1) @@ (f2 :> a1)
=============================================================================
