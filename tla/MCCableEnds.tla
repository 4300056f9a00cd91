---------------------------- MODULE MCCableEnds ----------------------------
(* A small instance of CableEnds: a switch sw with two copper ports and two *)
(* SFP cages, named in the ways the documentation of the matcher lists and  *)
(* in some it has to refuse, and an access point ap with one or two wired   *)
(* interfaces.  Site A adopts the switch, site B the access point; clients  *)
(* of both are at the switch.                                               *)
EXTENDS PortReadings, TLC

CONSTANTS A, B, sw, ap

AllTexts   == {"port ", "port", "", "ge", "eth", "lan", "gi1/0/", "gi2/0/", "1/1/", "sfp ", "sfp+ ",
               "uplink ", "rj", "wlan", "mgmt", "po"}
AllFamilies == AllTexts
Prefix     == [t \in AllTexts |-> IF t = "port " THEN "port" ELSE t]
Slots      == {"gi1/0/", "gi2/0/", "1/1/"}
Labels     == {"port ", "port", "ge", "eth"}
SfpTexts   == {"sfp ", "sfp+ ", "uplink "}
Unwired    == {"wlan", "mgmt", "po"}
FourPorts  == 1 .. 4

Plain(t, i)  == [text |-> t, number |-> i, form |-> "plain"]
Padded(t, i) == [text |-> t, number |-> i, form |-> "padded"]
Of(t)        == [text |-> t, of |-> "port", form |-> "plain"]
Sfp(t)       == [text |-> t, of |-> "sfp", form |-> "plain"]

DefaultTemplates == <<Of("port "), Of(""), Of("ge"), Of("eth"), Of("port")>>
Pinned           == <<Of("gi1/0/"), Sfp("sfp ")>>

\* The name of each port.
OneBased(t)    == [p \in FourPorts |-> Plain(t, p)]
Zeros(t)       == [p \in FourPorts |-> Plain(t, p - 1)]
ZeroPads(t)    == [p \in FourPorts |-> Padded(t, p)]
Ordinals(t, u) == [p \in FourPorts |-> IF p <= 2 THEN Plain(t, p) ELSE Plain(u, p - 2)]
Indexed(t, u)  == [p \in FourPorts |-> IF p <= 2 THEN Plain(t, p) ELSE Plain(u, p)]
ZeroOrdinal    == [p \in FourPorts |-> IF p <= 2 THEN Plain("eth", p - 1) ELSE Plain("sfp ", p - 2)]
Backwards      == [p \in FourPorts |-> Plain("1/1/", 5 - p)]

\* A device with these names, and others beside them.
Device(names, others, guess, pins, readable) ==
    [names    |-> {names[p] : p \in DOMAIN names} \cup others,
     virtual  |-> others \cap {Plain("uplink ", 1)},
     guess    |-> guess, pins |-> pins, reachable |-> TRUE, readable |-> readable,
     label    |-> [p \in FourPorts \cup {None} |-> IF p \in DOMAIN names THEN names[p] ELSE None]]

Extras == {Plain("wlan", 1), Plain("mgmt", 0), Plain("po", 2), Plain("uplink ", 1)}

SwitchDevices ==
    {Device(names, others, TRUE, <<>>, FourPorts) :
        names \in {OneBased("port "), OneBased(""), ZeroPads("port "), ZeroPads(""), OneBased("gi1/0/"),
                   Zeros("eth"), Zeros("lan"), Indexed("port ", "sfp+ ")},
        others \in {{}, Extras}}
    \cup {Device(names, {}, TRUE, <<>>, FourPorts) : names \in {Ordinals("port ", "sfp "), ZeroOrdinal}}
    \cup {Device(Ordinals("rj", "sfp "), others, TRUE, <<>>, {}) : others \in {{}, Extras}}
    \cup {Device(OneBased("gi1/0/"), {Plain("gi2/0/", p) : p \in FourPorts}, TRUE, pins,
                 IF pins = <<>> THEN {} ELSE FourPorts) : pins \in {<<>>, Pinned}}
    \cup {Device(OneBased("port "), {Plain("eth", p - 1) : p \in FourPorts}, TRUE, <<>>, {})}
    \cup {Device(Ordinals("gi1/0/", "sfp "), {Plain("gi2/0/", p) : p \in 1 .. 2}, TRUE, Pinned, FourPorts)}
    \cup {Device(Backwards, {}, FALSE, <<>>, {})}

OneWired == Device([p \in {1, None} |-> Plain("eth", 0)], {Plain("wlan", 1)}, TRUE, <<>>, {1, None})
TwoWired == Device([p \in 1 .. 2 |-> Plain("eth", p - 1)], {Plain("wlan", 1)}, TRUE, <<>>, {1, 2})

\* One that neither a port's MAC nor its serial nor its name finds.
Elusive(device) == [device EXCEPT !.reachable = FALSE]

Boxes      == {(sw :> d) @@ (ap :> TwoWired) : d \in SwitchDevices}
              \cup {(sw :> Elusive(Device(OneBased("port "), {}, TRUE, <<>>, FourPorts))) @@ (ap :> Elusive(OneWired))}
AdoptedBy  == [s \in Sites |-> IF s = A THEN {sw} ELSE {ap}]
ClientsOf  == [s \in Sites |-> IF s = A THEN {<<sw, 1>>, <<sw, 3>>} ELSE {<<sw, 2>>, <<sw, 4>>}]
UplinkEnds == {<<sw, 2>>, <<sw, 4>>, <<ap, 1>>, <<ap, None>>}
CagesOf    == [m \in Switches |-> IF m = sw THEN {3, 4} ELSE {}]
MarkedOf   == [m \in Switches |-> IF m = sw THEN {2} ELSE {1}]
NoOwnNames == [m \in Switches |-> [p \in FourPorts \cup {None} |-> <<>>]]

\* These deployments are what the theorems on the ends of cables ask for.
ASSUME Legible == Unmistakable /\ Readable

=============================================================================
