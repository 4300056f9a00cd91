---------------------------- MODULE MCDeviceSync ----------------------------
(***************************************************************************)
(* Small instances of DeviceSync for TLC.  Sites and addresses are model   *)
(* values; the initial NetBox tables are the ones a deployment can have:   *)
(* empty, or holding what an older release, a previous run or an operator  *)
(* left there.                                                             *)
(***************************************************************************)
EXTENDS DeviceSync

CONSTANTS A, B, X, sw, c

OneSite  == {A}
TwoSites == {A, B}
ThreeSites == {A, B, X}
Both     == {sw, c}

\* What an older release (generic type), a previous run or a person may have
\* left in NetBox for an address.
ClientOf(m, s)   == NewClient(m, s)
LegacyOf(m, s)   == [NewClient(m, s) EXCEPT !.type = "generic"]
HardwareOf(m, s) == NewHardware(m, s)
Manual(m, s)     == [NewClient(m, s) EXCEPT !.role = "other", !.tagged = FALSE, !.type = "infra"]
BySerial(m, s)   == [Manual(m, s) EXCEPT !.mac = None, !.serial = m]
Declaring(m, s)  == [Manual(m, s) EXCEPT !.mac = None, !.extra = {m}]

Table(d1, d2) == [id \in Ids |-> CASE id = 1 -> d1 [] id = 2 -> d2 [] OTHER -> None]

\* One site: the switch is absent, a legacy client, or a manual record; the
\* client is absent, recorded, or declared on somebody else's device.
OneSiteTables ==
    {Table(d1, d2) : d1 \in {None, LegacyOf(sw, A), Manual(sw, A), BySerial(sw, A)},
                     d2 \in {None, ClientOf(c, A), Declaring(c, A)}}

\* Several sites that adopt the same switch one after the other.
SharedSwitchTables ==
    {Table(None, None), Table(LegacyOf(sw, A), None),
     Table([BySerial(sw, A) EXCEPT !.tagged = TRUE], None)}
    \cup {Table(HardwareOf(sw, s), None) : s \in Sites}

LegacyTable == {Table(LegacyOf(sw, A), None)}

AdoptedAtA    == [m \in Macs |-> IF m = sw THEN {A} ELSE {}]
AdoptedAnywhere == [m \in Macs |-> IF m = sw THEN Sites ELSE {}]
BothAtA       == [s \in Sites |-> IF s = A THEN {sw, c} ELSE {}]
ClientAtA     == [s \in Sites |-> IF s = A THEN {c} ELSE {}]
NoClients     == [s \in Sites |-> {}]

\* Every run below is of a deployment that keeps the addresses of its workers
\* separate, which OneDevice and IdleClientsStay in DeviceSync_proofs rest on.
ASSUME SeparateAddresses == Separate

=============================================================================
