---------------------------- MODULE PortReadings ----------------------------
(***************************************************************************)
(* What a deployment has to be like for PortMatch to be right about it:    *)
(* the names that the ways to read a port take for it, in the order in     *)
(* which match_port and match_uplink_port fall back on them.  The theorems *)
(* on the ends of cables rest on Unmistakable and Readable, which say of   *)
(* the names alone what the matcher makes of them.                         *)
(***************************************************************************)
EXTENDS CableEnds

----------------------------------------------------------------------------
\* The readings of a port: each way to read the names of a device takes a set
\* of them for the port

KeyReadings(names, candidates)   == {KeyHits(names, candidates)[i] : i \in DOMAIN candidates}
ExactReadings(names, candidates) == {ExactHits(names, candidates)[i] : i \in DOMAIN candidates}
StructuralReading(names, port, sfp, prefixes) ==
    {n \in names : /\ ~InFamily(n, prefixes)
                   /\ CopperPort(n) = port \/ (sfp # None /\ SfpNumber(n) \in {sfp, port})}
SuffixReading(names, port, prefixes) == {n \in names : ~InFamily(n, prefixes) /\ n.number = port}
SoleReading(names) == IF \E n \in names : names = {n} THEN names ELSE {}
If(condition, readings) == IF condition THEN readings ELSE {}

\* Those of the candidates of an uplink, pinned or not.
NameReadings(names, pinned, candidates, port) ==
    LET others == Unshifted(names, ZeroBasedPrefixes(names), port)
    IN  (ExactReadings(names, pinned) \cup KeyReadings(names, pinned))
        \cup (ExactReadings(others, candidates) \cup KeyReadings(others, candidates))

\* The tiers of readings of match_port for a client, and of match_uplink_port:
\* a tier counts when the readings of all earlier ones are empty.
ClientTiers(names, candidates, port, sfp, guess) ==
    << KeyReadings(names, candidates),
       If(port # None /\ guess, {StructuralReading(names, port, sfp, {})}) >>

UplinkTiers(names, pinned, candidates, port, sfp, guess) ==
    LET prefixes == ZeroBasedPrefixes(names)
    IN  << If(port # None, NameReadings(names, pinned, candidates, port)),
           If(port # None, {ZeroBasedHits(names, port, prefixes)}),
           If(port # None /\ guess, {StructuralReading(names, port, sfp, prefixes)}),
           If(port # None /\ guess, {SuffixReading(names, port, prefixes)}),
           If(port = None \/ (port = 1 /\ guess), {SoleReading(names)}) >>

Reached(tiers, k) == \A j \in DOMAIN tiers : j < k => UNION tiers[j] = {}

\* A name that is alone in a reading of the tier that counts, and one that all
\* readings of that tier say.
LoneIn(n, tiers) == \E k \in DOMAIN tiers : Reached(tiers, k) /\ {n} \in tiers[k]
ToldBy(x, tiers) == \E k \in DOMAIN tiers : Reached(tiers, k) /\ UNION tiers[k] = {x}

----------------------------------------------------------------------------
\* The ports of a deployment

LinkTiers(boxes, m, port) ==
    LET sfp == SfpOrdinal(Cages[m], port)
        own == boxes[m].pins
    IN  UplinkTiers(Wired(boxes, m), Rendered(own, port, sfp),
                    CandidateNames(own, Templates, port, sfp, OwnNames[m][port]),
                    port, sfp, own = <<>> /\ boxes[m].guess)

DropTiers(boxes, m, port) ==
    LET sfp == SfpOrdinal(Cages[m], port)
        own == boxes[m].pins
    IN  ClientTiers(boxes[m].names, CandidateNames(own, Templates, port, sfp, OwnNames[m][port]),
                    port, sfp, own = <<>> /\ boxes[m].guess)

\* The readings that count do not take another interface alone for the port.
NoImpostor(label, tiers) ==
    \A k \in DOMAIN tiers : Reached(tiers, k) =>
        \A reading \in tiers[k] : \A n \in reading : reading = {n} => n = label

\* Of a deployment: no port that a cable may end at has an impostor, in a
\* family that starts at 0 the client ports aside.
Unmistakable ==
    \A boxes \in Deployments :
        /\ \A l \in Links : NoImpostor(boxes[l[1]].label[l[2]], LinkTiers(boxes, l[1], l[2]))
        /\ \A s \in Sites : \A d \in Drops[s] :
              \/ d[2] \in Uplinked[d[1]]
              \/ ZeroBasedPrefixes(boxes[d[1]].names \ boxes[d[1]].virtual) # {}
              \/ NoImpostor(boxes[d[1]].label[d[2]], DropTiers(boxes, d[1], d[2]))

\* Of a deployment: the readings of a readable port that count tell its name,
\* and no zero-based family another.
Readable ==
    \A boxes \in Deployments : \A l \in Links :
        l[2] \in boxes[l[1]].readable =>
            LET x     == boxes[l[1]].label[l[2]]
                tiers == LinkTiers(boxes, l[1], l[2])
            IN  x # None /\ ToldBy(x, tiers) /\ UNION tiers[2] \subseteq {x}

=============================================================================
