----------------------------- MODULE PortMatch -----------------------------
(***************************************************************************)
(* portmatch.py: which NetBox interface a UniFi port index stands for.     *)
(* Pure operators over the names of one device's interfaces.               *)
(*                                                                         *)
(* A name is the text in front of its last number, that number, and how it *)
(* is written: "padded" (leading zeros) or "upper" (another case) are two  *)
(* ways to write the "plain" name.  What the regular expressions ask of a  *)
(* text is given by the constants:                                         *)
(*   Family        its prefix, folded ("port" for "Port " and for "Port")  *)
(*   Slotted       it ends in a slot ("Gi1/0/", "ge-0/0/")                 *)
(*   Labelled      it is a port label ("Port ", "GE", "Gi", "eth", ...)    *)
(*   Bare          it is empty: the name is a number                       *)
(*   SfpLabels     it names an SFP cage ("SFP ", "SFP+ ", "Uplink ", ...)  *)
(*   NonPhysical   it names a radio, a virtual or a management interface   *)
(* A number is None where a name has none.                                 *)
(***************************************************************************)
EXTENDS Integers, Sequences, FiniteSets

CONSTANTS Texts, Families, Family, Slotted, Labelled, Bare, SfpLabels,
          NonPhysical, Numbers, None

ASSUME PortMatchAssumption ==
    /\ Family \in [Texts -> Families]
    /\ Slotted \subseteq Texts /\ Labelled \subseteq Texts
    /\ SfpLabels \subseteq Texts /\ NonPhysical \subseteq Texts
    /\ Bare \in Texts /\ None \notin Texts
    /\ Numbers \subseteq Nat /\ None \notin Int

Forms == {"plain", "padded", "upper"}
Names == [text: Texts, number: Numbers \cup {None}, form: Forms]

----------------------------------------------------------------------------
\* What a name says

\* numeric_key: case and leading zeros are folded, the text stays.
SameKey(n, m) == n.text = m.text /\ n.number = m.number

\* _exact_candidate_match: leading zeros stay significant, case does not.
SameExact(n, m) == SameKey(n, m) /\ (n.form = "padded" <=> m.form = "padded")

\* _copper_port: the port that a slotted, labelled or zero-padded name names.
CopperPort(n) ==
    IF n.text \in Slotted \cup Labelled \/ (n.text = Bare /\ n.form = "padded")
    THEN n.number ELSE None

\* _sfp_number
SfpNumber(n) == IF n.text \in SfpLabels THEN n.number ELSE None

\* is_wireless_or_virtual, for a name
IsPhysical(n) == n.text \notin NonPhysical

----------------------------------------------------------------------------
\* The names to try

\* sfp_ordinal: the position of a port among the SFP cages, None for copper.
SfpOrdinal(cages, port) ==
    IF port \in cages THEN Cardinality({cage \in cages : cage <= port}) ELSE None

\* A template that renders nothing: no name is like it.
Nothing == [text |-> None, number |-> None, form |-> "plain"]

\* format_template: a template renders the port or the SFP ordinal; those of
\* the second kind give nothing for a port that is no SFP, and no template
\* gives anything for a port that UniFi does not report.
Rendered(templates, port, sfp) ==
    LET shown(t) == IF t.of = "port" THEN port ELSE sfp
    IN  [i \in DOMAIN templates |->
            IF port = None \/ shown(templates[i]) = None THEN Nothing
            ELSE [text   |-> templates[i].text,
                  number |-> shown(templates[i]),
                  form   |-> IF shown(templates[i]) > 9 THEN "plain" ELSE templates[i].form]]

\* candidate_names: the model's templates, the global ones, UniFi's own name
\* for the port.  A name that is tried again changes nothing.
CandidateNames(model, global, port, sfp, own) ==
    Rendered(model, port, sfp) \o Rendered(global, port, sfp) \o own

----------------------------------------------------------------------------
\* Matching.  A match is one name; several hits are refused.

Miss == [name |-> None, via |-> "none"]

\* Mutant of Decide: the first of several hits is taken.
DecideFirst(hits, via) ==
    IF hits = {} THEN Miss ELSE [name |-> CHOOSE n \in hits : TRUE, via |-> via]

Decide(hits, via) ==
    IF hits = {} THEN Miss
    ELSE IF \E n \in hits : hits = {n} THEN [name |-> CHOOSE n \in hits : TRUE, via |-> via]
    ELSE [name |-> None, via |-> "ambiguous"]

\* The first candidate that hits anything decides (first_unique and the loop
\* of _exact_candidate_match).  hits[i]: the names that candidate i hits.
IsFirst(hits, i) == hits[i] # {} /\ \A j \in DOMAIN hits : j < i => hits[j] = {}

\* Mutant of FirstHit: only the first candidate is tried.
FirstHitOnly(hits, via) == IF 1 \in DOMAIN hits THEN Decide(hits[1], via) ELSE Miss

FirstHit(hits, via) ==
    IF \E i \in DOMAIN hits : IsFirst(hits, i)
    THEN Decide(hits[CHOOSE i \in DOMAIN hits : IsFirst(hits, i)], via)
    ELSE Miss

\* The names with the key of each candidate, and those that equal it.
KeyHits(names, candidates)   == [i \in DOMAIN candidates |-> {n \in names : SameKey(n, candidates[i])}]
ExactHits(names, candidates) == [i \in DOMAIN candidates |-> {n \in names : SameExact(n, candidates[i])}]

InFamily(n, prefixes) == n.number # None /\ Family[n.text] \in prefixes

\* zero_based_prefixes: the families that have an index 0.
ZeroBasedPrefixes(names) == {Family[n.text] : n \in {m \in names : IsPhysical(m) /\ m.number = 0}}

\* zero_based_hits
ZeroBasedHits(names, port, prefixes) ==
    {n \in names : IsPhysical(n) /\ InFamily(n, prefixes) /\ n.number = port - 1}

\* _shifted_name: the index of a zero-based family that is another port's.
ShiftedName(n, prefixes, port) ==
    port >= 1 /\ InFamily(n, prefixes) /\ n.number # port - 1

Unshifted(names, prefixes, port) == {n \in names : ~ShiftedName(n, prefixes, port)}

\* The structural part of match_port.
Structural(names, port, sfp, prefixes) ==
    Decide({n \in names : /\ ~InFamily(n, prefixes)
                          /\ \/ CopperPort(n) = port
                             \/ /\ sfp # None
                                /\ SfpNumber(n) \in {sfp, port}}, "structural")

\* match_port as _resolve_cable calls it: no shift, no other fallback.
ClientMatch(names, candidates, port, sfp, guess) ==
    LET templated == FirstHit(KeyHits(names, candidates), "template")
    IN  IF templated # Miss \/ port = None \/ ~guess THEN templated
        ELSE Structural(names, port, sfp, {})

\* A hit and the hits of the zero-based families have to be one name.
Agreeing(match, zeros) ==
    IF match.name = None THEN match ELSE Decide({match.name} \cup zeros, match.via)

\* match_port with zero_based: pinned templates first, then the others
\* without the shifted names, then the zero-based families, then structure.
ShiftedMatch(names, pinned, candidates, port, sfp, guess) ==
    LET prefixes  == ZeroBasedPrefixes(names)
        zeros     == ZeroBasedHits(names, port, prefixes)
        forced    == FirstHit(KeyHits(names, pinned), "template")
        templated == FirstHit(KeyHits(Unshifted(names, prefixes, port), candidates), "template")
    IN  IF forced # Miss THEN forced
        ELSE IF templated # Miss THEN Agreeing(templated, zeros)
        ELSE IF zeros # {} THEN Decide(zeros, "zero-based")
        ELSE IF guess THEN Structural(names, port, sfp, prefixes) ELSE Miss

\* match_uplink_port.  names are the physical ones, port may be None.
UplinkMatch(names, pinned, candidates, port, sfp, guess) ==
    LET prefixes == ZeroBasedPrefixes(names)
        forced   == FirstHit(ExactHits(names, pinned), "exact")
        exact    == FirstHit(ExactHits(Unshifted(names, prefixes, port), candidates), "exact")
        shifted  == ShiftedMatch(names, pinned, candidates, port, sfp, guess)
        suffix   == Decide({n \in names : ~InFamily(n, prefixes) /\ n.number = port}, "numeric-suffix")
        sole     == IF \E n \in names : names = {n} THEN Decide(names, "sole-wired") ELSE Miss
    IN  IF port = None THEN sole
        ELSE IF forced # Miss THEN forced
        ELSE IF exact # Miss THEN Agreeing(exact, ZeroBasedHits(names, port, prefixes))
        ELSE IF shifted # Miss \/ ~guess THEN shifted
        ELSE IF suffix # Miss \/ port # 1 THEN suffix
        ELSE sole

=============================================================================
