------------------------------ MODULE MCCabling ------------------------------
(* A small instance of Cabling: clients c and d of site A, at ports p1, p2  *)
(* and the uplink port pu of its switch; a device of site B that an older   *)
(* release left as a client record, uplinked to p2 (u), which a UniFi       *)
(* device of site A (w) also matches by name, with p1 as its uplink.        *)
EXTENDS Cabling

CONSTANTS A, B, c, d, u, w, nc, nd, e0, f, p1, p2, pu

SitesOf      == [x \in Clients \cup Uplinks |-> IF x = u THEN B ELSE A]
NicOf        == [x \in Clients |-> IF x = c THEN nc ELSE nd]
PortsOf      == [x \in Clients |-> IF x = c THEN {p1, p2} ELSE {p1, pu}]
DownAtF      == [x \in Uplinks |-> f]
UpOf         == [x \in Uplinks |-> IF x = u THEN p2 ELSE p1]
LegacyU      == [x \in Uplinks |-> IF x = u THEN e0 ELSE None]
OneBox       == [x \in Uplinks |-> f]
MacOverName  == [x \in Uplinks |-> IF x = u THEN 0 ELSE 2]
ByHandAtP1   == {{nd, p1}}

Sync(x, y)   == [ends |-> {x, y}, tagged |-> TRUE]
Manual(x, y) == [ends |-> {x, y}, tagged |-> FALSE]
Tables       == {{}, {Sync(e0, p2)}, {Manual(e0, p2), Sync(nc, p1)}, {Sync(nc, p2)}, {Manual(nc, p1)}}

=============================================================================
