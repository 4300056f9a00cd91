----------------------------- MODULE MCIpAssign -----------------------------
(* Small instances of IpAssign: clients p and q of two sites that may be   *)
(* given the same address, and a device m that a person entered.           *)
EXTENDS IpAssign

CONSTANTS A, B, p, q, m, x, y

TwoSiteDevices == [d \in Devices |-> IF d = q THEN B ELSE A]
SharedAddress  == [d \in Devices |-> CASE d = p -> {x, y}
                                       [] d = q -> {x}
                                       [] OTHER -> {}]

=============================================================================
