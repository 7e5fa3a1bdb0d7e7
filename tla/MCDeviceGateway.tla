-------------------------- MODULE MCDeviceGateway --------------------------
(* DeviceGateway on small instances: connections to one replica, or each   *)
(* to a replica of its own.                                                *)
EXTENDS DeviceGateway, TLC

CONSTANTS r1, r2, r3, c1, c2, c3

OneHost == [c \in Sessions |-> r1]
SplitHosts == [c \in Sessions |-> IF c = c1 THEN r1 ELSE IF c = c2 THEN r2 ELSE r3]

SendSymmetry == Permutations(Msgs)
=============================================================================
