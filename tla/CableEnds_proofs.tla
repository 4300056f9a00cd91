-------------------------- MODULE CableEnds_proofs --------------------------
(***************************************************************************)
(* What PortMatch may answer, for any names, templates and ports, and what *)
(* that makes of the ends of uplinks in every run of CableEnds.            *)
(***************************************************************************)
EXTENDS PortReadings, SequenceTheorems, WellFoundedInduction, TLAPS

----------------------------------------------------------------------------
\* The matcher

\* A name is decided on only when it is the only hit.
LEMMA DecideOne ==
    ASSUME NEW hits, NEW via, Decide(hits, via).name # None
    PROVE  hits = {Decide(hits, via).name}
  BY DEF Decide, Miss

\* No hit is the only way to miss.
LEMMA DecideMiss ==
    ASSUME NEW hits, NEW via, via # "none", Decide(hits, via) = Miss
    PROVE  hits = {}
  BY DEF Decide, Miss

\* The name that the first hitting candidate decides on is a hit of a candidate.
LEMMA FirstHitOne ==
    ASSUME NEW hits, NEW via, FirstHit(hits, via).name # None
    PROVE  \E i \in DOMAIN hits : hits[i] = {FirstHit(hits, via).name}
  <1>1. \E i \in DOMAIN hits : IsFirst(hits, i)
    BY DEF FirstHit, Miss
  <1>. DEFINE i == CHOOSE j \in DOMAIN hits : IsFirst(hits, j)
  <1>2. i \in DOMAIN hits
    BY <1>1
  <1>3. FirstHit(hits, via) = Decide(hits[i], via)
    BY <1>1 DEF FirstHit
  <1>4. Decide(hits[i], via).name # None
    BY <1>3
  <1>. HIDE DEF i
  <1>5. hits[i] = {Decide(hits[i], via).name}
    BY <1>4, DecideOne
  <1>. QED  BY <1>2, <1>3, <1>5

\* Candidates are matched among the given names only.
LEMMA HitsAreNames ==
    ASSUME NEW names, NEW candidates, NEW via
    PROVE  /\ FirstHit(KeyHits(names, candidates), via).name \in names \cup {None}
           /\ FirstHit(ExactHits(names, candidates), via).name \in names \cup {None}
  <1>. DEFINE k == KeyHits(names, candidates)
              e == ExactHits(names, candidates)
  <1>1. \A i \in DOMAIN k : k[i] \subseteq names
    BY DEF KeyHits
  <1>2. \A i \in DOMAIN e : e[i] \subseteq names
    BY DEF ExactHits
  <1>. HIDE DEF k, e
  <1>3. FirstHit(k, via).name # None => \E i \in DOMAIN k : k[i] = {FirstHit(k, via).name}
    BY FirstHitOne
  <1>4. FirstHit(e, via).name # None => \E i \in DOMAIN e : e[i] = {FirstHit(e, via).name}
    BY FirstHitOne
  <1>5. FirstHit(k, via).name \in names \cup {None} /\ FirstHit(e, via).name \in names \cup {None}
    BY <1>1, <1>2, <1>3, <1>4
  <1>. QED  BY <1>5 DEF k, e

\* An answer of the uplink match that a zero-based family agrees with: it is
\* not another port's name of such a family, and no such family has another
\* name for the port.
Agrees(n, names, port) ==
    /\ ~ShiftedName(n, ZeroBasedPrefixes(names), port)
    /\ ZeroBasedHits(names, port, ZeroBasedPrefixes(names)) \subseteq {n}

\* Agreeing: a hit outside the shifted names is kept if all zero-based
\* families agree with it.
LEMMA AgreeingAgrees ==
    ASSUME NEW names, NEW port, NEW match,
           match.name \in Unshifted(names, ZeroBasedPrefixes(names), port) \cup {None},
           Agreeing(match, ZeroBasedHits(names, port, ZeroBasedPrefixes(names))).name # None
    PROVE  LET n == Agreeing(match, ZeroBasedHits(names, port, ZeroBasedPrefixes(names))).name
           IN  n \in names /\ Agrees(n, names, port)
  <1>. DEFINE zeros == ZeroBasedHits(names, port, ZeroBasedPrefixes(names))
              n     == Agreeing(match, zeros).name
  <1>1. match.name # None
    BY DEF Agreeing
  <1>2. Agreeing(match, zeros) = Decide({match.name} \cup zeros, match.via)
    BY <1>1 DEF Agreeing
  <1>3. {match.name} \cup zeros = {n}
    BY <1>2, DecideOne
  <1>4. n = match.name /\ zeros \subseteq {n}
    BY <1>3
  <1>5. n \in Unshifted(names, ZeroBasedPrefixes(names), port)
    BY <1>1, <1>4
  <1>. QED  BY <1>4, <1>5 DEF Unshifted, Agrees

\* A hit of a zero-based family is its own port's name.
LEMMA ZeroHitsAgree ==
    ASSUME NEW names, NEW port \in Nat, NEW n,
           ZeroBasedHits(names, port, ZeroBasedPrefixes(names)) = {n}
    PROVE  n \in names /\ Agrees(n, names, port)
  <1>1. n \in names /\ n.number = port - 1
    BY DEF ZeroBasedHits
  <1>. QED  BY <1>1 DEF Agrees, ShiftedName

\* Without a zero-based hit, a name outside the zero-based families agrees.
LEMMA OthersAgree ==
    ASSUME NEW names, NEW port, NEW n,
           ~InFamily(n, ZeroBasedPrefixes(names)),
           ZeroBasedHits(names, port, ZeroBasedPrefixes(names)) = {}
    PROVE  Agrees(n, names, port)
  BY DEF Agrees, ShiftedName

\* The only interface of a device agrees for port 1.
LEMMA SoleAgrees ==
    ASSUME NEW names, NEW n, names = {n}
    PROVE  Agrees(n, names, 1)
  <1>1. ZeroBasedHits(names, 1, ZeroBasedPrefixes(names)) \subseteq {n}
    BY DEF ZeroBasedHits
  <1>2. InFamily(n, ZeroBasedPrefixes(names)) => n.number = 0
    BY DEF InFamily, ZeroBasedPrefixes
  <1>3. ~ShiftedName(n, ZeroBasedPrefixes(names), 1)
    BY <1>2 DEF ShiftedName
  <1>. QED  BY <1>1, <1>3 DEF Agrees

LEMMA StructuralOne ==
    ASSUME NEW names, NEW port, NEW sfp, NEW prefixes,
           Structural(names, port, sfp, prefixes).name # None
    PROVE  LET n == Structural(names, port, sfp, prefixes).name
           IN  n \in names /\ ~InFamily(n, prefixes)
  BY DecideOne DEF Structural

\* match_port for uplinks, without templates of the model.
LEMMA ShiftedMatchAgrees ==
    ASSUME NEW names, NEW candidates, NEW port \in Nat, NEW sfp, NEW guess,
           ShiftedMatch(names, <<>>, candidates, port, sfp, guess).name # None
    PROVE  LET n == ShiftedMatch(names, <<>>, candidates, port, sfp, guess).name
           IN  n \in names /\ Agrees(n, names, port)
  <1>. DEFINE prefixes  == ZeroBasedPrefixes(names)
              zeros     == ZeroBasedHits(names, port, prefixes)
              templated == FirstHit(KeyHits(Unshifted(names, prefixes, port), candidates), "template")
              answer    == ShiftedMatch(names, <<>>, candidates, port, sfp, guess)
  <1>1. FirstHit(KeyHits(names, <<>>), "template") = Miss
    BY DEF FirstHit, KeyHits
  <1>2. templated.name \in Unshifted(names, prefixes, port) \cup {None}
    BY HitsAreNames
  <1>3. CASE templated # Miss
    <2>1. answer = Agreeing(templated, zeros)
      BY <1>1, <1>3 DEF ShiftedMatch
    <2>. QED  BY <1>2, <2>1, AgreeingAgrees
  <1>4. CASE templated = Miss /\ zeros # {}
    <2>1. answer = Decide(zeros, "zero-based")
      BY <1>1, <1>4 DEF ShiftedMatch
    <2>. QED  BY <2>1, DecideOne, ZeroHitsAgree
  <1>5. CASE templated = Miss /\ zeros = {}
    <2>1. answer = IF guess THEN Structural(names, port, sfp, prefixes) ELSE Miss
      BY <1>1, <1>5 DEF ShiftedMatch
    <2>2. answer = Structural(names, port, sfp, prefixes)
      BY <2>1 DEF Miss
    <2>. QED  BY <1>5, <2>2, StructuralOne, OthersAgree
  <1>. QED  BY <1>3, <1>4, <1>5

\* A miss of match_port means that no zero-based family has the port.
LEMMA ShiftedMiss ==
    ASSUME NEW names, NEW candidates, NEW port, NEW sfp, NEW guess,
           ShiftedMatch(names, <<>>, candidates, port, sfp, guess) = Miss
    PROVE  ZeroBasedHits(names, port, ZeroBasedPrefixes(names)) = {}
  <1>. DEFINE prefixes  == ZeroBasedPrefixes(names)
              zeros     == ZeroBasedHits(names, port, prefixes)
              templated == FirstHit(KeyHits(Unshifted(names, prefixes, port), candidates), "template")
  <1>1. FirstHit(KeyHits(names, <<>>), "template") = Miss
    BY DEF FirstHit, KeyHits
  <1>2. CASE templated = Miss
    <2>1. zeros # {} => Decide(zeros, "zero-based") = Miss
      BY <1>1, <1>2 DEF ShiftedMatch
    <2>. QED  BY <2>1, DecideMiss
  <1>3. CASE templated # Miss
    <2>1. Agreeing(templated, zeros) = Miss
      BY <1>1, <1>3 DEF ShiftedMatch
    <2>2. templated.via # "none"
      BY <1>3 DEF FirstHit, Decide, Miss
    <2>3. templated.name # None
      BY <1>3, <2>1 DEF Agreeing
    <2>4. Decide({templated.name} \cup zeros, templated.via) = Miss
      BY <2>1, <2>3 DEF Agreeing
    <2>. QED  BY <2>2, <2>4, DecideMiss
  <1>. QED  BY <1>2, <1>3

\* An uplink end that no template of the model pins agrees with every
\* zero-based family of the device, whatever else it is matched by: "Port 1"
\* is not taken for port 1 beside an eth0, nor eth1 for port 1.
THEOREM UplinkMatchAgrees ==
    ASSUME NEW names, NEW candidates, NEW port \in Nat, NEW sfp, NEW guess, None \notin Nat,
           UplinkMatch(names, <<>>, candidates, port, sfp, guess).name # None
    PROVE  LET n == UplinkMatch(names, <<>>, candidates, port, sfp, guess).name
           IN  n \in names /\ Agrees(n, names, port)
  <1>. DEFINE prefixes == ZeroBasedPrefixes(names)
              zeros    == ZeroBasedHits(names, port, prefixes)
              exact    == FirstHit(ExactHits(Unshifted(names, prefixes, port), candidates), "exact")
              shifted  == ShiftedMatch(names, <<>>, candidates, port, sfp, guess)
              suffix   == Decide({n \in names : ~InFamily(n, prefixes) /\ n.number = port}, "numeric-suffix")
              sole     == IF \E n \in names : names = {n} THEN Decide(names, "sole-wired") ELSE Miss
              answer   == UplinkMatch(names, <<>>, candidates, port, sfp, guess)
  <1>1. FirstHit(ExactHits(names, <<>>), "exact") = Miss
    BY DEF FirstHit, ExactHits
  <1>2. exact.name \in Unshifted(names, prefixes, port) \cup {None}
    BY HitsAreNames
  <1>3. answer = IF exact # Miss THEN Agreeing(exact, zeros)
                 ELSE IF shifted # Miss \/ ~guess THEN shifted
                 ELSE IF suffix # Miss \/ port # 1 THEN suffix
                 ELSE sole
    BY <1>1 DEF UplinkMatch
  <1>4. CASE exact # Miss
    BY <1>2, <1>3, <1>4, AgreeingAgrees
  <1>5. CASE exact = Miss /\ (shifted # Miss \/ ~guess)
    BY <1>3, <1>5, ShiftedMatchAgrees
  <1>6. CASE exact = Miss /\ shifted = Miss /\ guess /\ (suffix # Miss \/ port # 1)
    <2>1. answer = suffix
      BY <1>3, <1>6
    <2>. DEFINE numbered == {n \in names : ~InFamily(n, prefixes) /\ n.number = port}
    <2>2. numbered = {Decide(numbered, "numeric-suffix").name}
      <3>1. Decide(numbered, "numeric-suffix").name # None
        BY <2>1
      <3>. HIDE DEF numbered
      <3>. QED  BY <3>1, DecideOne
    <2>3. answer.name \in numbered
      BY <2>1, <2>2
    <2>4. answer.name \in names /\ ~InFamily(answer.name, prefixes)
      BY <2>3
    <2>. QED  BY <1>6, <2>4, ShiftedMiss, OthersAgree
  <1>7. CASE exact = Miss /\ shifted = Miss /\ guess /\ suffix = Miss /\ port = 1
    <2>1. answer = sole
      BY <1>3, <1>7
    <2>2. answer = Decide(names, "sole-wired")
      BY <2>1 DEF Miss
    <2>3. names = {answer.name}
      BY <2>2, DecideOne
    <2>4. Agrees(answer.name, names, 1)
      BY <2>3, SoleAgrees
    <2>. QED  BY <1>7, <2>3, <2>4
  <1>. QED  BY <1>4, <1>5, <1>6, <1>7

----------------------------------------------------------------------------
\* The match, reading by reading

\* A step of the match goes by some readings: it misses when they are empty,
\* answers a name alone in one of them, or what all of them say.
GoesBy(match, readings) ==
    /\ match = Miss <=> UNION readings = {}
    /\ match.name # None => {match.name} \in readings
    /\ \A x : x # None /\ UNION readings = {x} => match.name = x

LEMMA DecideGoesBy ==
    ASSUME NEW hits, NEW via, via # "none"
    PROVE  GoesBy(Decide(hits, via), {hits})
  <1>1. UNION {hits} = hits
    OBVIOUS
  <1>2. Decide(hits, via) = Miss <=> hits = {}
    BY DecideMiss DEF Decide
  <1>3. \A x : hits = {x} => Decide(hits, via).name = x
    <2>. TAKE x
    <2>. HAVE hits = {x}
    <2>1. (CHOOSE n \in {x} : TRUE) = x
      OBVIOUS
    <2>. QED  BY <2>1 DEF Decide
  <1>. QED  BY <1>1, <1>2, <1>3, DecideOne DEF GoesBy

\* Of some indexes that hit, one is the first.
LEMMA FirstExists ==
    ASSUME NEW hits, DOMAIN hits \subseteq Nat, \E i \in DOMAIN hits : hits[i] # {}
    PROVE  \E i \in DOMAIN hits : IsFirst(hits, i)
  <1>. DEFINE some == {i \in DOMAIN hits : hits[i] # {}}
  <1>1. some \subseteq Nat /\ some # {}
    OBVIOUS
  <1>. HIDE DEF some
  <1>2. \E i \in some : \A j \in some : ~(<<j, i>> \in OpToRel(<, Nat))
    BY <1>1, NatLessThanWellFounded, WFMin
  <1>3. \E i \in some : \A j \in some : ~(j < i)
    BY <1>1, <1>2 DEF OpToRel
  <1>. QED  BY <1>3 DEF some, IsFirst

LEMMA FirstHitGoesBy ==
    ASSUME NEW hits, NEW via, via # "none", DOMAIN hits \subseteq Nat
    PROVE  GoesBy(FirstHit(hits, via), {hits[i] : i \in DOMAIN hits})
  <1>. DEFINE readings == {hits[i] : i \in DOMAIN hits}
  <1>1. CASE \E i \in DOMAIN hits : hits[i] # {}
    <2>. DEFINE i == CHOOSE j \in DOMAIN hits : IsFirst(hits, j)
    <2>1. \E j \in DOMAIN hits : IsFirst(hits, j)
      BY <1>1, FirstExists
    <2>2. i \in DOMAIN hits /\ hits[i] # {}
      BY <2>1 DEF IsFirst
    <2>3. FirstHit(hits, via) = Decide(hits[i], via)
      BY <2>1 DEF FirstHit
    <2>. HIDE DEF i
    <2>4. GoesBy(Decide(hits[i], via), {hits[i]})
      BY DecideGoesBy
    <2>5. UNION {hits[i]} = hits[i]
      OBVIOUS
    <2>6. hits[i] \in readings
      BY <2>2
    <2>7. hits[i] \subseteq UNION readings
      BY <2>6
    <2>. HIDE DEF readings
    <2>8. \A x : UNION readings = {x} => hits[i] = {x}
      BY <2>2, <2>7
    <2>9. UNION readings # {} /\ Decide(hits[i], via) # Miss
      BY <2>2, <2>4, <2>5, <2>7 DEF GoesBy
    <2>10. GoesBy(Decide(hits[i], via), readings)
      BY <2>4, <2>5, <2>6, <2>8, <2>9 DEF GoesBy
    <2>. QED  BY <2>3, <2>10 DEF readings
  <1>2. CASE ~\E i \in DOMAIN hits : hits[i] # {}
    <2>1. FirstHit(hits, via) = Miss
      BY <1>2 DEF FirstHit, IsFirst
    <2>2. UNION readings = {}
      BY <1>2
    <2>. HIDE DEF readings
    <2>3. Miss.name = None /\ \A x : {x} # {}
      BY DEF Miss
    <2>4. GoesBy(Miss, readings)
      BY <2>2, <2>3 DEF GoesBy
    <2>. QED  BY <2>1, <2>4 DEF readings
  <1>. QED  BY <1>1, <1>2

LEMMA CandidatesGoBy ==
    ASSUME NEW names, NEW candidates, NEW via, via # "none", DOMAIN candidates \subseteq Nat
    PROVE  /\ GoesBy(FirstHit(KeyHits(names, candidates), via), KeyReadings(names, candidates))
           /\ GoesBy(FirstHit(ExactHits(names, candidates), via), ExactReadings(names, candidates))
  <1>. DEFINE k == KeyHits(names, candidates)
              e == ExactHits(names, candidates)
  <1>1. DOMAIN k = DOMAIN candidates /\ DOMAIN e = DOMAIN candidates
    BY DEF KeyHits, ExactHits
  <1>2. KeyReadings(names, candidates) = {k[i] : i \in DOMAIN k}
    BY <1>1 DEF KeyReadings
  <1>3. ExactReadings(names, candidates) = {e[i] : i \in DOMAIN e}
    BY <1>1 DEF ExactReadings
  <1>. HIDE DEF k, e
  <1>4. GoesBy(FirstHit(k, via), KeyReadings(names, candidates))
    BY <1>1, <1>2, FirstHitGoesBy
  <1>5. GoesBy(FirstHit(e, via), ExactReadings(names, candidates))
    BY <1>1, <1>3, FirstHitGoesBy
  <1>. QED  BY <1>4, <1>5 DEF k, e

\* A hit that has to agree stays a hit, and keeps its name if it is answered;
\* nothing is lost when the zero-based families say the same.
LEMMA AgreeingKeeps ==
    ASSUME NEW match, NEW zeros, match # Miss, match.name # None => match.via # "none",
           match.name = None => Agreeing(match, zeros) = match
    PROVE  /\ Agreeing(match, zeros) # Miss
           /\ Agreeing(match, zeros).name # None => Agreeing(match, zeros).name = match.name
           /\ match.name # None /\ zeros \subseteq {match.name} => Agreeing(match, zeros).name = match.name
  <1>1. CASE match.name = None
    BY <1>1
  <1>2. CASE match.name # None
    <2>1. Agreeing(match, zeros) = Decide({match.name} \cup zeros, match.via)
      BY <1>2 DEF Agreeing
    <2>2. {match.name} \cup zeros # {}
      OBVIOUS
    <2>3. Agreeing(match, zeros) # Miss
      BY <1>2, <2>1, <2>2, DecideMiss
    <2>4. Agreeing(match, zeros).name # None => {match.name} \cup zeros = {Agreeing(match, zeros).name}
      BY <2>1, DecideOne
    <2>5. zeros \subseteq {match.name} => Agreeing(match, zeros).name = match.name
      <3>. HAVE zeros \subseteq {match.name}
      <3>1. {match.name} \cup zeros = {match.name} /\ UNION {{match.name}} = {match.name}
        OBVIOUS
      <3>2. Decide({match.name}, match.via).name = match.name
        BY <1>2, <3>1, DecideGoesBy DEF GoesBy
      <3>. QED  BY <2>1, <3>1, <3>2
    <2>. QED  BY <2>3, <2>4, <2>5
  <1>. QED  BY <1>1, <1>2

\* The steps of match_port for a client, by tier.
THEOREM ClientMatchByTier ==
    ASSUME NEW names, NEW candidates, NEW port, NEW sfp, NEW guess, DOMAIN candidates \subseteq Nat
    PROVE  LET tiers  == ClientTiers(names, candidates, port, sfp, guess)
               answer == ClientMatch(names, candidates, port, sfp, guess).name
           IN  /\ answer # None => LoneIn(answer, tiers)
               /\ \A x : x # None /\ ToldBy(x, tiers) => answer = x
  <1>. DEFINE keys      == KeyReadings(names, candidates)
              structure == If(port # None /\ guess, {StructuralReading(names, port, sfp, {})})
              templated == FirstHit(KeyHits(names, candidates), "template")
              answer    == ClientMatch(names, candidates, port, sfp, guess)
              tiers     == ClientTiers(names, candidates, port, sfp, guess)
  <1>1. GoesBy(templated, keys)
    BY CandidatesGoBy
  <1>2. tiers = <<keys, structure>>
    BY DEF ClientTiers
  <1>3. DOMAIN tiers = {1, 2} /\ tiers[1] = keys /\ tiers[2] = structure
    BY <1>2
  <1>4. templated # Miss => answer = templated
    BY DEF ClientMatch
  <1>5. templated = Miss => GoesBy(answer, structure)
    <2>. HAVE templated = Miss
    <2>1. CASE port # None /\ guess
      <3>1. answer = Decide(StructuralReading(names, port, sfp, {}), "structural")
        BY <2>1 DEF ClientMatch, Structural, StructuralReading
      <3>2. structure = {StructuralReading(names, port, sfp, {})}
        BY <2>1 DEF If
      <3>. QED  BY <3>1, <3>2, DecideGoesBy
    <2>2. CASE ~(port # None /\ guess)
      <3>1. answer = Miss /\ structure = {}
        BY <2>2 DEF ClientMatch, If
      <3>. HIDE DEF structure, answer
      <3>. QED  BY <3>1 DEF GoesBy, Miss
    <2>. QED  BY <2>1, <2>2
  <1>. HIDE DEF keys, structure, templated, answer, tiers
  <1>6. Reached(tiers, 1) /\ (Reached(tiers, 2) <=> UNION keys = {})
    BY <1>3 DEF Reached
  <1>7. answer.name # None => LoneIn(answer.name, tiers)
    BY <1>1, <1>3, <1>4, <1>5, <1>6 DEF GoesBy, LoneIn
  <1>8. ASSUME NEW x, x # None, ToldBy(x, tiers)
        PROVE  answer.name = x
    <2>1. UNION keys = {x} \/ (UNION keys = {} /\ UNION structure = {x})
      BY <1>3, <1>6, <1>8 DEF ToldBy
    <2>2. CASE UNION keys = {x}
      <3>1. UNION keys # {}
        BY <2>2
      <3>. QED  BY <1>1, <1>4, <1>8, <2>2, <3>1 DEF GoesBy
    <2>3. CASE UNION keys = {} /\ UNION structure = {x}
      BY <1>1, <1>5, <1>8, <2>3 DEF GoesBy
    <2>. QED  BY <2>1, <2>2, <2>3
  <1>. QED  BY <1>7, <1>8 DEF answer, tiers

\* The steps of match_uplink_port, by tier: an answer is alone in the tier that
\* counts, and what that tier tells is answered if the zero-based families do
\* not say otherwise.
THEOREM UplinkMatchByTier ==
    ASSUME NEW names, NEW pinned, NEW candidates, NEW port, NEW sfp, NEW guess,
           DOMAIN candidates \subseteq Nat, DOMAIN pinned \subseteq Nat
    PROVE  LET tiers  == UplinkTiers(names, pinned, candidates, port, sfp, guess)
               answer == UplinkMatch(names, pinned, candidates, port, sfp, guess).name
           IN  /\ answer # None => LoneIn(answer, tiers)
               /\ \A x : x # None /\ ToldBy(x, tiers) /\ UNION tiers[2] \subseteq {x} => answer = x
  <1>. DEFINE prefixes  == ZeroBasedPrefixes(names)
              others    == Unshifted(names, prefixes, port)
              zeros     == ZeroBasedHits(names, port, prefixes)
              answer    == UplinkMatch(names, pinned, candidates, port, sfp, guess)
              tiers     == UplinkTiers(names, pinned, candidates, port, sfp, guess)
              sole      == IF \E n \in names : names = {n} THEN Decide(names, "sole-wired") ELSE Miss
  <1>1. GoesBy(sole, {SoleReading(names)})
    <2>1. CASE \E n \in names : names = {n}
      BY <2>1, DecideGoesBy DEF SoleReading
    <2>2. CASE ~\E n \in names : names = {n}
      <3>1. SoleReading(names) = {} /\ UNION {{}} = {}
        BY <2>2 DEF SoleReading
      <3>2. \A x : {x} # {}
        OBVIOUS
      <3>. QED  BY <2>2, <3>1, <3>2 DEF GoesBy, Miss
    <2>. QED  BY <2>1, <2>2
  <1>2. CASE port = None
    <2>1. answer = sole
      BY <1>2 DEF UplinkMatch
    <2>2. /\ tiers[1] = {} /\ tiers[2] = {} /\ tiers[3] = {} /\ tiers[4] = {}
          /\ tiers[5] = {SoleReading(names)} /\ DOMAIN tiers = 1 .. 5
      BY <1>2 DEF UplinkTiers, If
    <2>. HIDE DEF tiers, sole, answer
    <2>3. \A k \in DOMAIN tiers : Reached(tiers, k)
      BY <2>2 DEF Reached
    <2>4. \A x : x # None /\ ToldBy(x, tiers) => UNION {SoleReading(names)} = {x}
      <3>1. \A x : {x} # {}
        OBVIOUS
      <3>. QED  BY <2>2, <3>1 DEF ToldBy
    <2>5. answer.name # None => LoneIn(answer.name, tiers)
      BY <1>1, <2>1, <2>2, <2>3 DEF GoesBy, LoneIn
    <2>6. \A x : x # None /\ ToldBy(x, tiers) => answer.name = x
      BY <1>1, <2>1, <2>4 DEF GoesBy
    <2>. QED  BY <2>5, <2>6 DEF answer, tiers
  <1>3. CASE port # None
    <2>. DEFINE forced    == FirstHit(ExactHits(names, pinned), "exact")
                exact     == FirstHit(ExactHits(others, candidates), "exact")
                pinnedHit == FirstHit(KeyHits(names, pinned), "template")
                templated == FirstHit(KeyHits(others, candidates), "template")
                zeroHit   == Decide(zeros, "zero-based")
                structure == Decide(StructuralReading(names, port, sfp, prefixes), "structural")
                suffix    == Decide(SuffixReading(names, port, prefixes), "numeric-suffix")
                shifted   == ShiftedMatch(names, pinned, candidates, port, sfp, guess)
                named     == NameReadings(names, pinned, candidates, port)
                t3        == If(guess, {StructuralReading(names, port, sfp, prefixes)})
                t4        == If(guess, {SuffixReading(names, port, prefixes)})
                t5        == If(port = 1 /\ guess, {SoleReading(names)})
    <2>1. /\ GoesBy(forced, ExactReadings(names, pinned)) /\ GoesBy(exact, ExactReadings(others, candidates))
          /\ GoesBy(pinnedHit, KeyReadings(names, pinned)) /\ GoesBy(templated, KeyReadings(others, candidates))
      BY CandidatesGoBy
    <2>2. GoesBy(zeroHit, {zeros})
      BY DecideGoesBy
    <2>3. guess => GoesBy(structure, t3) /\ GoesBy(suffix, t4)
      BY DecideGoesBy DEF If
    <2>4. guess /\ port = 1 => GoesBy(sole, t5)
      BY <1>1 DEF If
    <2>5. answer = IF forced # Miss THEN forced
                   ELSE IF exact # Miss THEN Agreeing(exact, zeros)
                   ELSE IF shifted # Miss \/ ~guess THEN shifted
                   ELSE IF suffix # Miss \/ port # 1 THEN suffix
                   ELSE sole
      BY <1>3 DEF UplinkMatch, SuffixReading
    <2>6. shifted = IF pinnedHit # Miss THEN pinnedHit
                    ELSE IF templated # Miss THEN Agreeing(templated, zeros)
                    ELSE IF zeros # {} THEN zeroHit
                    ELSE IF guess THEN structure ELSE Miss
      BY DEF ShiftedMatch, Structural, StructuralReading
    <2>7. \A match \in {exact, templated} :
            /\ match.name # None => match.via # "none"
            /\ match.name = None => Agreeing(match, zeros) = match
      BY DEF FirstHit, Decide, Miss, Agreeing
    <2>8. /\ DOMAIN tiers = 1 .. 5 /\ tiers[1] = named /\ tiers[2] = {zeros} /\ tiers[3] = t3
          /\ tiers[4] = t4 /\ tiers[5] = t5
      BY <1>3 DEF UplinkTiers, If
    <2>9. named = (ExactReadings(names, pinned) \cup KeyReadings(names, pinned))
                  \cup (ExactReadings(others, candidates) \cup KeyReadings(others, candidates))
      BY DEF NameReadings
    <2>10. UNION {zeros} = zeros
      OBVIOUS
    <2>11. ~guess => t3 = {} /\ t4 = {} /\ t5 = {}
      BY DEF If
    <2>12. port # 1 => t5 = {}
      BY DEF If
    <2>. HIDE DEF forced, exact, pinnedHit, templated, zeroHit, structure, suffix, shifted, sole, named, t3, t4, t5,
                  zeros, others, prefixes, answer, tiers
    <2>13. UNION named = {} <=> forced = Miss /\ exact = Miss /\ pinnedHit = Miss /\ templated = Miss
      <3>1. \A a, b, c, d : UNION ((a \cup b) \cup (c \cup d)) = {}
                              <=> UNION a = {} /\ UNION b = {} /\ UNION c = {} /\ UNION d = {}
        OBVIOUS
      <3>. QED  BY <2>1, <2>9, <3>1 DEF GoesBy
    <2>14. \A x : UNION named = {x} => \A part \in {ExactReadings(names, pinned), KeyReadings(names, pinned),
                                               ExactReadings(others, candidates), KeyReadings(others, candidates)} :
                                         UNION part \in {{}, {x}}
      <3>. TAKE x
      <3>. HAVE UNION named = {x}
      <3>. TAKE part \in {ExactReadings(names, pinned), KeyReadings(names, pinned),
                          ExactReadings(others, candidates), KeyReadings(others, candidates)}
      <3>1. part \subseteq named
        BY <2>9
      <3>2. UNION part \subseteq UNION named
        BY <3>1
      <3>. QED  BY <3>2
    <2>15. /\ Reached(tiers, 1)
           /\ Reached(tiers, 2) <=> UNION named = {}
           /\ Reached(tiers, 3) <=> UNION named = {} /\ zeros = {}
           /\ Reached(tiers, 4) <=> UNION named = {} /\ zeros = {} /\ UNION t3 = {}
           /\ Reached(tiers, 5) <=> UNION named = {} /\ zeros = {} /\ UNION t3 = {} /\ UNION t4 = {}
      BY <2>8, <2>10 DEF Reached
    <2>16. Miss.name = None
      BY DEF Miss
    <2>17. \A match \in {exact, templated} : match # Miss =>
             /\ Agreeing(match, zeros) # Miss
             /\ Agreeing(match, zeros).name # None => Agreeing(match, zeros).name = match.name
             /\ match.name # None /\ zeros \subseteq {match.name} => Agreeing(match, zeros).name = match.name
      BY <2>7, AgreeingKeeps
    <2>18. shifted = Miss <=> /\ pinnedHit = Miss /\ templated = Miss /\ zeros = {} /\ UNION t3 = {}
      BY <2>2, <2>3, <2>6, <2>10, <2>11, <2>17 DEF GoesBy
    <2>19. answer.name # None => LoneIn(answer.name, tiers)
      <3>. HAVE answer.name # None
      <3>1. CASE UNION named # {}
        <4>1. {answer.name} \in named
          <5>1. CASE forced # Miss
            BY <2>1, <2>5, <2>9, <5>1 DEF GoesBy
          <5>2. CASE forced = Miss /\ exact # Miss
            BY <2>1, <2>5, <2>9, <2>17, <5>2 DEF GoesBy
          <5>3. CASE forced = Miss /\ exact = Miss
            <6>1. answer = shifted
              BY <2>5, <2>13, <2>18, <3>1, <5>3
            <6>. QED  BY <2>1, <2>6, <2>9, <2>13, <2>17, <3>1, <5>3, <6>1 DEF GoesBy
          <5>. QED  BY <5>1, <5>2, <5>3
        <4>. QED  BY <2>8, <2>15, <4>1 DEF LoneIn
      <3>2. CASE UNION named = {} /\ zeros # {}
        <4>1. answer = zeroHit
          BY <2>5, <2>6, <2>13, <2>18, <3>2
        <4>2. {answer.name} \in {zeros}
          BY <2>2, <4>1 DEF GoesBy
        <4>3. 2 \in DOMAIN tiers /\ Reached(tiers, 2) /\ {answer.name} \in tiers[2]
          BY <2>8, <2>15, <3>2, <4>2
        <4>. QED  BY <4>3 DEF LoneIn
      <3>3. CASE UNION named = {} /\ zeros = {} /\ UNION t3 # {}
        <4>1. answer = structure /\ guess
          BY <2>5, <2>6, <2>11, <2>13, <2>18, <3>3
        <4>. QED  BY <2>3, <2>8, <2>15, <3>3, <4>1 DEF GoesBy, LoneIn
      <3>4. CASE UNION named = {} /\ zeros = {} /\ UNION t3 = {}
        <4>1. guess /\ answer = IF suffix # Miss \/ port # 1 THEN suffix ELSE sole
          BY <2>5, <2>13, <2>16, <2>18, <3>4
        <4>2. CASE suffix # Miss \/ port # 1
          <5>1. {answer.name} \in t4
            BY <2>3, <4>1, <4>2 DEF GoesBy
          <5>2. 4 \in DOMAIN tiers /\ Reached(tiers, 4) /\ {answer.name} \in tiers[4]
            BY <2>8, <2>15, <3>4, <5>1
          <5>. QED  BY <5>2 DEF LoneIn
        <4>3. CASE suffix = Miss /\ port = 1
          <5>1. Reached(tiers, 5) /\ GoesBy(sole, t5) /\ answer = sole
            BY <2>3, <2>4, <2>15, <3>4, <4>1, <4>3 DEF GoesBy
          <5>. QED  BY <2>8, <5>1 DEF GoesBy, LoneIn
        <4>. QED  BY <4>2, <4>3
      <3>. QED  BY <3>1, <3>2, <3>3, <3>4
    <2>20. ASSUME NEW x, x # None, ToldBy(x, tiers), UNION tiers[2] \subseteq {x}
           PROVE  answer.name = x
      <3>0. {x} # {} /\ zeros \subseteq {x}
        BY <2>8, <2>10, <2>20
      <3>1. \/ UNION named = {x}
            \/ UNION named = {} /\ zeros = {x}
            \/ UNION named = {} /\ zeros = {} /\ UNION t3 = {x}
            \/ UNION named = {} /\ zeros = {} /\ UNION t3 = {} /\ UNION t4 = {x}
            \/ UNION named = {} /\ zeros = {} /\ UNION t3 = {} /\ UNION t4 = {} /\ UNION t5 = {x}
        BY <2>8, <2>10, <2>15, <2>20 DEF ToldBy
      <3>2. CASE UNION named = {x}
        <4>1. \A match \in {forced, exact, pinnedHit, templated} : match = Miss \/ match.name = x
          <5>. DEFINE Rightly(match, part) == GoesBy(match, part) /\ UNION part \in {{}, {x}}
          <5>1. /\ Rightly(forced, ExactReadings(names, pinned)) /\ Rightly(exact, ExactReadings(others, candidates))
                /\ Rightly(pinnedHit, KeyReadings(names, pinned)) /\ Rightly(templated, KeyReadings(others, candidates))
            BY <2>1, <2>14, <3>2
          <5>2. \A match, part : Rightly(match, part) => match = Miss \/ match.name = x
            BY <2>20 DEF GoesBy
          <5>. HIDE DEF Rightly
          <5>. QED  BY <5>1, <5>2
        <4>2. \A match \in {exact, templated} : match # Miss => Agreeing(match, zeros).name = x
          BY <2>17, <2>20, <3>0, <4>1
        <4>3. UNION named # {}
          BY <3>0, <3>2
        <4>4. CASE forced # Miss \/ exact # Miss
          BY <2>5, <4>1, <4>2, <4>4
        <4>5. CASE forced = Miss /\ exact = Miss
          <5>1. answer = shifted
            BY <2>5, <2>13, <2>18, <4>3, <4>5
          <5>. QED  BY <2>6, <2>13, <4>1, <4>2, <4>3, <4>5, <5>1
        <4>. QED  BY <4>4, <4>5
      <3>3. CASE UNION named = {} /\ zeros = {x}
        <4>1. answer = zeroHit
          BY <2>5, <2>6, <2>13, <2>18, <3>0, <3>3
        <4>. QED  BY <2>2, <2>10, <2>20, <3>3, <4>1 DEF GoesBy
      <3>4. CASE UNION named = {} /\ zeros = {} /\ UNION t3 = {x}
        <4>1. guess /\ answer = structure
          BY <2>5, <2>6, <2>11, <2>13, <2>18, <3>0, <3>4
        <4>. QED  BY <2>3, <2>20, <3>4, <4>1 DEF GoesBy
      <3>5. CASE UNION named = {} /\ zeros = {} /\ UNION t3 = {} /\ UNION t4 = {x}
        <4>1. guess
          BY <2>11, <3>0, <3>5
        <4>2. suffix.name = x
          BY <2>3, <2>20, <3>5, <4>1 DEF GoesBy
        <4>3. suffix # Miss
          BY <2>16, <2>20, <4>2
        <4>. QED  BY <2>5, <2>13, <2>18, <3>5, <4>1, <4>2, <4>3
      <3>6. CASE UNION named = {} /\ zeros = {} /\ UNION t3 = {} /\ UNION t4 = {} /\ UNION t5 = {x}
        <4>1. guess /\ port = 1
          BY <2>11, <2>12, <3>0, <3>6
        <4>2. sole.name = x /\ suffix = Miss
          BY <2>3, <2>4, <2>20, <3>6, <4>1 DEF GoesBy
        <4>. QED  BY <2>5, <2>13, <2>18, <3>6, <4>1, <4>2
      <3>. QED  BY <3>1, <3>2, <3>3, <3>4, <3>5, <3>6
    <2>. QED  BY <2>19, <2>20 DEF answer, tiers
  <1>. QED  BY <1>2, <1>3

\* What a template renders for a copper port carries the port's number.
LEMMA CopperCandidates ==
    ASSUME NEW templates \in Seq(PortTemplates), NEW port \in Nat
    PROVE  LET tries == CandidateNames(<<>>, templates, port, None, <<>>)
           IN  /\ DOMAIN tries \subseteq Nat
               /\ \A i \in DOMAIN tries : tries[i].number = port \/ tries[i] = Nothing
  <1>. DEFINE shown == Rendered(templates, port, None)
  <1>1. None \notin Nat
    BY PortMatchAssumption
  <1>2. /\ shown = [i \in 1 .. Len(templates) |-> shown[i]]
        /\ \A i \in 1 .. Len(templates) : shown[i].number = port \/ shown[i] = Nothing
    <2>1. DOMAIN templates = 1 .. Len(templates)
      OBVIOUS
    <2>2. shown = [i \in DOMAIN templates |->
                     IF port = None \/ (IF templates[i].of = "port" THEN port ELSE None) = None THEN Nothing
                     ELSE [text   |-> templates[i].text,
                           number |-> IF templates[i].of = "port" THEN port ELSE None,
                           form   |-> IF (IF templates[i].of = "port" THEN port ELSE None) > 9
                                      THEN "plain" ELSE templates[i].form]]
      BY DEF Rendered
    <2>. HIDE DEF shown
    <2>. QED  BY <2>1, <2>2
  <1>3. Rendered(<<>>, port, None) = <<>>
    BY DEF Rendered
  <1>. DEFINE values == {shown[i] : i \in 1 .. Len(templates)}
  <1>4. shown \in Seq(values)
    <2>1. Len(templates) \in Nat
      OBVIOUS
    <2>2. shown \in [1 .. Len(templates) -> values]
      <3>. DEFINE f == [i \in 1 .. Len(templates) |-> shown[i]]
      <3>1. f \in [1 .. Len(templates) -> values]
        OBVIOUS
      <3>. QED  BY <1>2, <3>1
    <2>. HIDE DEF shown, values
    <2>. QED  BY <2>1, <2>2, SeqDef
  <1>. HIDE DEF shown
  <1>5. CandidateNames(<<>>, templates, port, None, <<>>) = shown
    BY <1>3, <1>4 DEF CandidateNames, shown
  <1>6. DOMAIN shown = 1 .. Len(templates)
    BY <1>2
  <1>. QED  BY <1>2, <1>5, <1>6

\* The name that the numbering of a device means for a port: its number, or one
\* less in a family that starts at 0.
Meant(n, names, port) ==
    n.number = IF InFamily(n, ZeroBasedPrefixes(names)) THEN port - 1 ELSE port

\* An uplink at a copper port of a device without templates of its own ends at
\* the interface that the numbering means, if it means one, however its
\* interfaces are called and wherever their families start.
THEOREM CopperUplinkTold ==
    ASSUME NEW names \in SUBSET Names, \A n \in names : IsPhysical(n),
           NEW templates \in Seq(PortTemplates), NEW port \in Nat \ {0},
           NEW x \in names, \A n \in names : Meant(n, names, port) <=> n = x
    PROVE  UplinkMatch(names, <<>>, CandidateNames(<<>>, templates, port, None, <<>>), port, None, TRUE).name = x
  <1>. DEFINE tries    == CandidateNames(<<>>, templates, port, None, <<>>)
              prefixes == ZeroBasedPrefixes(names)
              others   == Unshifted(names, prefixes, port)
              zeros    == ZeroBasedHits(names, port, prefixes)
              tiers    == UplinkTiers(names, <<>>, tries, port, None, TRUE)
  <1>0. /\ None \notin Nat /\ None \notin Int /\ x # None /\ port # None /\ None \notin Texts
        /\ \A n \in names : n.text # None /\ (n.number = None \/ n.number \in Nat)
    <2>1. None \notin Int /\ None \notin Texts /\ Numbers \subseteq Nat
      BY PortMatchAssumption
    <2>2. None \notin Names
      BY CableEndsAssumption
    <2>3. x # None
      BY <2>2
    <2>4. \A n \in names : n.text \in Texts /\ n.number \in Numbers \cup {None}
      BY DEF Names
    <2>5. None \notin Nat
      BY <2>1
    <2>6. port # None
      BY <2>5
    <2>7. \A n \in names : n.text # None /\ (n.number = None \/ n.number \in Nat)
      BY <2>1, <2>4
    <2>. QED  BY <2>1, <2>3, <2>5, <2>6, <2>7
  <1>1. /\ DOMAIN tries \subseteq Nat
        /\ \A i \in DOMAIN tries : tries[i].number = port \/ tries[i] = Nothing
    BY CopperCandidates
  <1>. HIDE DEF tries
  <1>2. \A n \in others : ~InFamily(n, prefixes) \/ n.number = port - 1
    BY DEF Unshifted, ShiftedName
  <1>3. \A n \in others, i \in DOMAIN tries : SameKey(n, tries[i]) => n = x
    <2>. TAKE n \in others, i \in DOMAIN tries
    <2>. HAVE SameKey(n, tries[i])
    <2>1. n \in names
      BY DEF Unshifted
    <2>2. tries[i] # Nothing
      BY <1>0, <2>1 DEF SameKey, Nothing
    <2>3. n.number = port
      BY <1>1, <2>2 DEF SameKey
    <2>4. ~InFamily(n, prefixes)
      BY <1>2, <2>3
    <2>. QED  BY <2>1, <2>3, <2>4 DEF Meant
  <1>4. \A reading \in KeyReadings(others, tries) \cup ExactReadings(others, tries) : reading \subseteq {x}
    BY <1>3 DEF KeyReadings, ExactReadings, KeyHits, ExactHits, SameExact
  <1>5. ZeroBasedHits(names, port, prefixes) \subseteq {x}
    BY DEF ZeroBasedHits, Meant
  <1>6. StructuralReading(names, port, None, prefixes) \subseteq {x}
    <2>1. \A n \in names : CopperPort(n) = port => n.number = port
      BY <1>0 DEF CopperPort
    <2>. QED  BY <2>1 DEF StructuralReading, Meant
  <1>7. KeyReadings(names, <<>>) = {} /\ ExactReadings(names, <<>>) = {}
    BY DEF KeyReadings, ExactReadings
  <1>8. SuffixReading(names, port, prefixes) \subseteq {x}
    BY DEF SuffixReading, Meant
  <1>9. /\ DOMAIN tiers = 1 .. 5
        /\ tiers[1] = ({} \cup {}) \cup (ExactReadings(others, tries) \cup KeyReadings(others, tries))
        /\ tiers[2] = {zeros} /\ tiers[3] = {StructuralReading(names, port, None, prefixes)}
        /\ tiers[4] = {SuffixReading(names, port, prefixes)}
    BY <1>0, <1>7 DEF UplinkTiers, NameReadings, If
  <1>10. \A k \in 1 .. 4 : UNION tiers[k] \in {{}, {x}}
    <2>. HIDE DEF tiers, others, zeros, prefixes
    <2>1. \A reading \in tiers[1] : reading \subseteq {x}
      BY <1>4, <1>9
    <2>2. \A k \in 2 .. 4 : \A reading \in tiers[k] : reading \subseteq {x}
      BY <1>5, <1>6, <1>8, <1>9 DEF zeros
    <2>3. \A k \in 1 .. 4 : \A reading \in tiers[k] : reading \subseteq {x}
      BY <2>1, <2>2
    <2>. QED  BY <2>3
  <1>11. UNION tiers[2] = {x} \/ UNION tiers[4] = {x}
    <2>1. CASE InFamily(x, prefixes)
      <3>1. x \in zeros
        BY <2>1 DEF ZeroBasedHits, Meant
      <3>2. zeros = {x}
        BY <1>5, <3>1
      <3>3. tiers[2] = {zeros}
        BY <1>9
      <3>. HIDE DEF zeros, tiers
      <3>. QED  BY <3>2, <3>3
    <2>2. CASE ~InFamily(x, prefixes)
      <3>1. SuffixReading(names, port, prefixes) = {x}
        BY <1>8, <2>2 DEF SuffixReading, Meant
      <3>. QED  BY <1>9, <3>1
    <2>. QED  BY <2>1, <2>2
  <1>. HIDE DEF tiers
  <1>12. ToldBy(x, tiers)
    <2>1. CASE UNION tiers[1] = {x}
      BY <1>9, <2>1 DEF ToldBy, Reached
    <2>2. CASE UNION tiers[1] = {} /\ UNION tiers[2] = {x}
      BY <1>9, <2>2 DEF ToldBy, Reached
    <2>3. CASE UNION tiers[1] = {} /\ UNION tiers[2] = {} /\ UNION tiers[3] = {x}
      BY <1>9, <2>3 DEF ToldBy, Reached
    <2>4. CASE UNION tiers[1] = {} /\ UNION tiers[2] = {} /\ UNION tiers[3] = {} /\ UNION tiers[4] = {x}
      BY <1>9, <2>4 DEF ToldBy, Reached
    <2>. QED  BY <1>10, <1>11, <2>1, <2>2, <2>3, <2>4
  <1>13. UNION tiers[2] \subseteq {x}
    BY <1>10
  <1>14. DOMAIN <<>> \subseteq Nat
    OBVIOUS
  <1>15. UplinkMatch(names, <<>>, tries, port, None, TRUE).name = x
    BY <1>0, <1>1, <1>12, <1>13, <1>14, UplinkMatchByTier DEF tiers
  <1>. QED  BY <1>15 DEF tries

----------------------------------------------------------------------------
\* The runs

\* A site worker in order.
SiteOK(s, worker) ==
    /\ worker \in Workings
    /\ worker.at \in AtHardware => worker.todo \subseteq Adopts[s]
    /\ worker.at = "forget" => worker.item \in Adopts[s]
    /\ worker.at \in AtClients => worker.todo \subseteq Drops[s]
    /\ worker.at \in {"asking", "storing", "found"} => worker.item \in Drops[s]
    /\ worker.at \notin {"waiting", "uplinks"}

LEMMA MatchedType ==
    ASSUME NEW m
    PROVE  Matched(m) \in BOOLEAN
  BY DEF Matched

LEMMA SiteStepTypes ==
    ASSUME TypeOK, NEW s \in Sites, NEW worker, SiteOK(s, worker), Go(s, worker),
           there' \subseteq Switches, findable' \subseteq Switches, located' \subseteq Switches,
           switches' \in [Switches -> BOOLEAN \cup {Unknown}], budget' \in 0 .. Budget
    PROVE  TypeOK'
  <1>1. s \in Workers /\ s # Main /\ Main \in Workers
    BY CableEndsAssumption DEF Workers
  <1>2. wk' \in [Workers -> Workings]
    BY <1>1 DEF TypeOK, SiteOK, Go
  <1>3. wk'[Main] = wk[Main]
    BY <1>1 DEF TypeOK, Go
  <1>4. \A r \in Sites : r \in Workers /\ wk'[r] = IF r = s THEN worker ELSE wk[r]
    BY DEF TypeOK, Go, Workers
  <1>. HIDE DEF Workings
  <1>. QED  BY <1>2, <1>3, <1>4 DEF TypeOK, SiteOK

\* Every worker of every run is where it can be, with things of its own in
\* hand, and the caches keep their types, whatever fails and interleaves.
THEOREM EndsTypes == Spec => []TypeOK
  <1>. USE CableEndsAssumption, PortMatchAssumption DEF Workers, AtHardware, AtClients, AtMain, Workings
  <1>1. Init => TypeOK
    BY DEF Init, TypeOK, Idle, Worker
  <1>2. TypeOK /\ [Next]_vars => TypeOK'
    <2>. SUFFICES ASSUME TypeOK, [Next]_vars PROVE TypeOK'
      OBVIOUS
    <2>. USE DEF TypeOK, Go, Worker, Idle, Busy
    <2>1. CASE StartRun  BY <2>1 DEF StartRun, Findable
    <2>2. CASE Locate
      BY <2>2, MatchedType DEF Locate, Queued
    <2>3. CASE EndRun  BY <2>3 DEF EndRun
    <2>4. ASSUME NEW l \in Links, ResolveUplink(l) PROVE TypeOK'
      BY <2>4, MatchedType DEF ResolveUplink
    <2>5. CASE LocateFails  BY <2>5 DEF LocateFails
    <2>6. ASSUME NEW l \in Links, UplinkFails(l) PROVE TypeOK'
      BY <2>6 DEF UplinkFails
    <2>0. /\ \A s \in Sites : s \in Workers /\ SiteOK(s, wk[s]) /\ Adopts[s] \subseteq Switches
                              /\ Drops[s] \subseteq Switches \X Ports
          /\ \A s \in Sites : \A d \in Drops[s] : d[1] \in Switches
      BY DEF SiteOK
    <2>7. ASSUME NEW s \in Sites, NEW m \in Switches, LeaveSwitch(s, m) \/ Establish(s, m) \/ EstablishFails(s, m)
          PROVE  TypeOK'
      <3>1. CASE LeaveSwitch(s, m)
        <4>. DEFINE worker == [wk[s] EXCEPT !.todo = @ \ {m}]
        <4>1. SiteOK(s, worker)
          BY <3>1, <2>0 DEF LeaveSwitch, SiteOK
        <4>2. /\ there' \subseteq Switches /\ findable' \subseteq Switches /\ located' \subseteq Switches
              /\ switches' \in [Switches -> BOOLEAN \cup {Unknown}] /\ budget' \in 0 .. Budget
              /\ Go(s, worker)
          BY <3>1, <2>0 DEF LeaveSwitch
        <4>. HIDE DEF worker
        <4>. QED  BY <4>1, <4>2, SiteStepTypes
      <3>2. CASE Establish(s, m)
        <4>. DEFINE worker == Busy(s, "forget", m, FALSE)
        <4>1. SiteOK(s, worker)
          BY <3>2, <2>0 DEF Establish, SiteOK
        <4>2. /\ there' \subseteq Switches /\ findable' \subseteq Switches /\ located' \subseteq Switches
              /\ switches' \in [Switches -> BOOLEAN \cup {Unknown}] /\ budget' \in 0 .. Budget
              /\ Go(s, worker)
          BY <3>2, <2>0 DEF Establish
        <4>. HIDE DEF worker
        <4>. QED  BY <4>1, <4>2, SiteStepTypes
      <3>3. CASE EstablishFails(s, m)
        <4>. DEFINE worker == [wk[s] EXCEPT !.todo = @ \ {m}]
        <4>1. SiteOK(s, worker)
          BY <3>3, <2>0 DEF EstablishFails, SiteOK
        <4>2. /\ there' \subseteq Switches /\ findable' \subseteq Switches /\ located' \subseteq Switches
              /\ switches' \in [Switches -> BOOLEAN \cup {Unknown}] /\ budget' \in 0 .. Budget
              /\ Go(s, worker)
          BY <3>3, <2>0 DEF EstablishFails
        <4>. HIDE DEF worker
        <4>. QED  BY <4>1, <4>2, SiteStepTypes
      <3>. QED  BY <2>7, <3>1, <3>2, <3>3
    <2>8. ASSUME NEW s \in Sites, Forget(s) \/ HardwareDone(s)
          PROVE  TypeOK'
      <3>1. CASE Forget(s)
        <4>. DEFINE worker == Worker("hardware", wk[s].todo \ {wk[s].item})
        <4>1. SiteOK(s, worker)
          BY <3>1, <2>0 DEF Forget, SiteOK
        <4>2. /\ there' \subseteq Switches /\ findable' \subseteq Switches /\ located' \subseteq Switches
              /\ switches' \in [Switches -> BOOLEAN \cup {Unknown}] /\ budget' \in 0 .. Budget
              /\ Go(s, worker)
          BY <3>1, <2>0 DEF Forget
        <4>. HIDE DEF worker
        <4>. QED  BY <4>1, <4>2, SiteStepTypes
      <3>2. CASE HardwareDone(s)
        <4>. DEFINE worker == Worker("clients", Drops[s])
        <4>1. SiteOK(s, worker)
          BY <3>2, <2>0 DEF HardwareDone, SiteOK
        <4>2. /\ there' \subseteq Switches /\ findable' \subseteq Switches /\ located' \subseteq Switches
              /\ switches' \in [Switches -> BOOLEAN \cup {Unknown}] /\ budget' \in 0 .. Budget
              /\ Go(s, worker)
          BY <3>2, <2>0 DEF HardwareDone
        <4>. HIDE DEF worker
        <4>. QED  BY <4>1, <4>2, SiteStepTypes
      <3>. QED  BY <2>8, <3>1, <3>2
    <2>9. ASSUME NEW s \in Sites, NEW d \in Drops[s], Lookup(s, d)
          PROVE  TypeOK'
      <3>1. CASE Lookup(s, d)
        <4>. DEFINE worker == IF switches[d[1]] = Unknown THEN Busy(s, "asking", d, FALSE)
                                                         ELSE Busy(s, "found", d, switches[d[1]])
        <4>1. SiteOK(s, worker)
          <5>1. /\ wk[s].at = "clients" /\ switches[d[1]] \in BOOLEAN \cup {Unknown}
                /\ d \in Switches \X Ports
            BY <3>1, <2>0 DEF Lookup
          <5>. DEFINE known == switches[d[1]]
          <5>2. CASE known = Unknown
            BY <5>1, <5>2, <2>0 DEF SiteOK
          <5>3. CASE known # Unknown
            <6>1. known \in BOOLEAN
              BY <5>1, <5>3
            <6>. DEFINE found == Busy(s, "found", d, known)
            <6>2. worker = found
              BY <5>3
            <6>. HIDE DEF known
            <6>3. SiteOK(s, found)
              BY <5>1, <6>1, <2>0 DEF SiteOK
            <6>. QED  BY <6>2, <6>3
          <5>. QED  BY <5>2, <5>3
        <4>2. /\ there' \subseteq Switches /\ findable' \subseteq Switches /\ located' \subseteq Switches
              /\ switches' \in [Switches -> BOOLEAN \cup {Unknown}] /\ budget' \in 0 .. Budget
              /\ Go(s, worker)
          BY <3>1, <2>0 DEF Lookup
        <4>. HIDE DEF worker
        <4>. QED  BY <4>1, <4>2, SiteStepTypes
      <3>. QED  BY <2>9, <3>1
    <2>10. ASSUME NEW s \in Sites, Answer(s) \/ Store(s)
          PROVE  TypeOK'
      <3>1. CASE Answer(s)
        <4>. DEFINE worker == Busy(s, "storing", wk[s].item, Matched(wk[s].item[1]))
        <4>1. SiteOK(s, worker)
          <5>1. Matched(wk[s].item[1]) \in BOOLEAN
            BY MatchedType
          <5>. DEFINE known == Matched(wk[s].item[1])
                      asked == Busy(s, "storing", wk[s].item, known)
          <5>2. wk[s].at = "asking" /\ known \in BOOLEAN /\ worker = asked
            BY <3>1, <5>1 DEF Answer
          <5>. HIDE DEF known
          <5>3. SiteOK(s, asked)
            BY <5>2, <2>0 DEF SiteOK
          <5>. QED  BY <5>2, <5>3
        <4>2. /\ there' \subseteq Switches /\ findable' \subseteq Switches /\ located' \subseteq Switches
              /\ switches' \in [Switches -> BOOLEAN \cup {Unknown}] /\ budget' \in 0 .. Budget
              /\ Go(s, worker)
          BY <3>1, <2>0 DEF Answer
        <4>. HIDE DEF worker
        <4>. QED  BY <4>1, <4>2, SiteStepTypes
      <3>2. CASE Store(s)
        <4>. DEFINE worker == [wk[s] EXCEPT !.at = "found"]
        <4>1. SiteOK(s, worker)
          BY <3>2, <2>0 DEF Store, SiteOK
        <4>2. /\ there' \subseteq Switches /\ findable' \subseteq Switches /\ located' \subseteq Switches
              /\ switches' \in [Switches -> BOOLEAN \cup {Unknown}] /\ budget' \in 0 .. Budget
              /\ Go(s, worker)
          BY <3>2, <2>0 DEF Store
        <4>. HIDE DEF worker
        <4>. QED  BY <4>1, <4>2, SiteStepTypes
      <3>. QED  BY <2>10, <3>1, <3>2
    <2>11. ASSUME NEW s \in Sites, Resolve(s) \/ RequestFails(s) \/ SiteDone(s)
          PROVE  TypeOK'
      <3>1. CASE Resolve(s)
        <4>. DEFINE worker == Worker("clients", wk[s].todo \ {wk[s].item})
        <4>1. SiteOK(s, worker)
          BY <3>1, <2>0 DEF Resolve, SiteOK
        <4>2. /\ there' \subseteq Switches /\ findable' \subseteq Switches /\ located' \subseteq Switches
              /\ switches' \in [Switches -> BOOLEAN \cup {Unknown}] /\ budget' \in 0 .. Budget
              /\ Go(s, worker)
          BY <3>1, <2>0 DEF Resolve
        <4>. HIDE DEF worker
        <4>. QED  BY <4>1, <4>2, SiteStepTypes
      <3>2. CASE RequestFails(s)
        <4>. DEFINE worker == Worker("clients", wk[s].todo \ {wk[s].item})
        <4>1. SiteOK(s, worker)
          BY <3>2, <2>0 DEF RequestFails, SiteOK
        <4>2. /\ there' \subseteq Switches /\ findable' \subseteq Switches /\ located' \subseteq Switches
              /\ switches' \in [Switches -> BOOLEAN \cup {Unknown}] /\ budget' \in 0 .. Budget
              /\ Go(s, worker)
          BY <3>2, <2>0 DEF RequestFails
        <4>. HIDE DEF worker
        <4>. QED  BY <4>1, <4>2, SiteStepTypes
      <3>3. CASE SiteDone(s)
        <4>. DEFINE worker == Idle
        <4>1. SiteOK(s, worker)
          BY <3>3, <2>0 DEF SiteDone, SiteOK
        <4>2. /\ there' \subseteq Switches /\ findable' \subseteq Switches /\ located' \subseteq Switches
              /\ switches' \in [Switches -> BOOLEAN \cup {Unknown}] /\ budget' \in 0 .. Budget
              /\ Go(s, worker)
          BY <3>3, <2>0 DEF SiteDone
        <4>. HIDE DEF worker
        <4>. QED  BY <4>1, <4>2, SiteStepTypes
      <3>. QED  BY <2>11, <3>1, <3>2, <3>3
    <2>12. CASE UNCHANGED vars  BY <2>12 DEF vars
    <2>. QED
      BY <2>1, <2>2, <2>3, <2>4, <2>5, <2>6, <2>7, <2>8, <2>9, <2>10, <2>11, <2>12
         DEF Next, Work, MainStep, SiteStep, Faults
  <1>. QED  BY <1>1, <1>2, PTL DEF Spec

\* The end of an uplink on a device without templates of its own is a wired
\* interface that every zero-based family of the device agrees with.
UplinkEndsAgree ==
    \A l \in Links :
        link[l] \notin {Open, None} /\ l[2] # None /\ box[l[1]].pins = <<>> =>
            link[l] \in Wired(box, l[1]) /\ Agrees(link[l], Wired(box, l[1]), l[2])

\* What the uplink pass may record for an end.
LEMMA LinkEndAgrees ==
    ASSUME NEW boxes \in Deployments, NEW l \in Links, l[2] # None, boxes[l[1]].pins = <<>>,
           LinkEnd[boxes][l[1]][l[2]] # None
    PROVE  LET n == LinkEnd[boxes][l[1]][l[2]]
           IN  n \in Wired(boxes, l[1]) /\ Agrees(n, Wired(boxes, l[1]), l[2])
  <1>1. l[1] \in Switches /\ l[2] \in Ports /\ l[2] \in Nat /\ None \notin Nat
    <2>1. l \in Switches \X (Ports \cup {None})
      BY CableEndsAssumption
    <2>2. l[1] \in Switches /\ l[2] \in Ports
      BY <2>1
    <2>3. Ports \subseteq Nat
      BY CableEndsAssumption
    <2>4. None \notin Nat
      BY PortMatchAssumption
    <2>. QED  BY <2>2, <2>3, <2>4
  <1>. DEFINE sfp   == SfpOrdinal(Cages[l[1]], l[2])
              names == Wired(boxes, l[1])
              tries == CandidateNames(<<>>, Templates, l[2], sfp, OwnNames[l[1]][l[2]])
              guess == boxes[l[1]].guess
  <1>2. Rendered(<<>>, l[2], sfp) = <<>>
    BY DEF Rendered
  <1>3. LinkEnd[boxes][l[1]][l[2]] = UplinkMatch(names, <<>>, tries, l[2], sfp, <<>> = <<>> /\ guess).name
    BY <1>1, <1>2 DEF LinkEnd
  <1>. HIDE DEF sfp, names, tries, guess
  <1>4. LinkEnd[boxes][l[1]][l[2]] \in names /\ Agrees(LinkEnd[boxes][l[1]][l[2]], names, l[2])
    BY <1>1, <1>3, UplinkMatchAgrees
  <1>. QED  BY <1>4 DEF names

\* No uplink of any run is cabled to a name that a zero-based family of the
\* device gives to another port.
THEOREM UplinksAgree == Spec => []UplinkEndsAgree
  <1>. DEFINE Inv == box \in Deployments /\ DOMAIN link = Links /\ UplinkEndsAgree
  <1>1. Init => Inv
    BY DEF Init, UplinkEndsAgree
  <1>2. Inv /\ [Next]_vars => Inv'
    <2>. SUFFICES ASSUME Inv, [Next]_vars PROVE Inv'
      OBVIOUS
    <2>1. CASE StartRun
      BY <2>1 DEF StartRun, UplinkEndsAgree
    <2>2. ASSUME NEW k \in Links, ResolveUplink(k) PROVE Inv'
      <3>1. box' = box /\ DOMAIN link' = Links
        BY <2>2 DEF ResolveUplink
      <3>2. ASSUME NEW l \in Links, link'[l] \notin {Open, None}, l[2] # None, box[l[1]].pins = <<>>
            PROVE  link'[l] \in Wired(box, l[1]) /\ Agrees(link'[l], Wired(box, l[1]), l[2])
        <4>1. CASE l = k
          <5>1. link'[l] = LinkEnd[box][l[1]][l[2]]
            BY <2>2, <3>2, <4>1 DEF ResolveUplink
          <5>. QED  BY <3>2, <5>1, LinkEndAgrees
        <4>2. CASE l # k
          <5>1. link'[l] = link[l]
            BY <2>2, <4>2 DEF ResolveUplink
          <5>. QED  BY <3>2, <5>1 DEF UplinkEndsAgree
        <4>. QED  BY <4>1, <4>2
      <3>. QED  BY <3>1, <3>2 DEF UplinkEndsAgree, Wired
    <2>3. CASE UNCHANGED <<box, link>>
      BY <2>3 DEF UplinkEndsAgree, Wired
    <2>. QED
      BY <2>1, <2>2, <2>3
         DEF Next, Work, MainStep, SiteStep, Faults, vars, Locate, EndRun, LocateFails, UplinkFails, LeaveSwitch,
             Establish, EstablishFails, Forget, HardwareDone, Lookup, Answer, Store, Resolve, RequestFails, SiteDone
  <1>. QED  BY <1>1, <1>2, PTL DEF Spec

----------------------------------------------------------------------------
\* What a run may record, from what the names of its devices say

LEMMA LoneIsNoImpostor ==
    ASSUME NEW label, NEW tiers, NEW n, NoImpostor(label, tiers), LoneIn(n, tiers)
    PROVE  n = label
  BY DEF NoImpostor, LoneIn

\* All ways to write the candidates of a port are sequences of names.
LEMMA RenderedDomain ==
    ASSUME NEW templates \in Seq(PortTemplates), NEW port, NEW sfp
    PROVE  \E S : Rendered(templates, port, sfp) \in Seq(S)
  <1>. DEFINE shown  == Rendered(templates, port, sfp)
              values == {shown[i] : i \in DOMAIN templates}
  <1>1. DOMAIN templates = 1 .. Len(templates) /\ Len(templates) \in Nat
    OBVIOUS
  <1>2. shown = [i \in DOMAIN templates |-> shown[i]]
    BY DEF Rendered
  <1>. HIDE DEF shown
  <1>3. shown \in [DOMAIN templates -> values]
    <2>. DEFINE f == [i \in DOMAIN templates |-> shown[i]]
    <2>1. f \in [DOMAIN templates -> values]
      OBVIOUS
    <2>. QED  BY <1>2, <2>1
  <1>. HIDE DEF values
  <1>4. shown \in Seq(values)
    BY <1>1, <1>3, SeqDef
  <1>. QED  BY <1>4 DEF shown

LEMMA SeqsJoin ==
    ASSUME NEW S, NEW T, NEW U, NEW s \in Seq(S), NEW t \in Seq(T), NEW u \in Seq(U)
    PROVE  DOMAIN (s \o t \o u) \subseteq Nat
  <1>. DEFINE V == S \cup T \cup U
  <1>1. s \in Seq(V) /\ t \in Seq(V) /\ u \in Seq(V)
    OBVIOUS
  <1>. HIDE DEF V
  <1>2. s \o t \o u \in Seq(V)
    BY <1>1
  <1>. QED  BY <1>2

LEMMA CandidatesDomain ==
    ASSUME NEW boxes \in Deployments, NEW m \in Switches, NEW port \in Ports \cup {None}, NEW sfp
    PROVE  /\ DOMAIN Rendered(boxes[m].pins, port, sfp) \subseteq Nat
           /\ DOMAIN CandidateNames(boxes[m].pins, Templates, port, sfp, OwnNames[m][port]) \subseteq Nat
  <1>. DEFINE own   == boxes[m].pins
              named == OwnNames[m][port]
              pins  == Rendered(own, port, sfp)
              given == Rendered(Templates, port, sfp)
  <1>1. own \in Seq(PortTemplates) /\ named \in Seq(Names) /\ Templates \in Seq(PortTemplates)
    BY DeviceAssumption DEF Devices
  <1>. HIDE DEF own, named
  <1>2. PICK P : pins \in Seq(P)
    BY <1>1, RenderedDomain
  <1>3. PICK G : given \in Seq(G)
    BY <1>1, RenderedDomain
  <1>4. CandidateNames(own, Templates, port, sfp, named) = pins \o given \o named
    BY DEF CandidateNames
  <1>5. DOMAIN pins \subseteq Nat
    <2>. HIDE DEF pins
    <2>. QED  BY <1>2
  <1>6. DOMAIN (pins \o given \o named) \subseteq Nat
    <2>. HIDE DEF pins, given
    <2>. QED  BY <1>1, <1>2, <1>3, SeqsJoin
  <1>. QED  BY <1>4, <1>5, <1>6 DEF own, named

LEMMA LinkEndByTier ==
    ASSUME NEW boxes \in Deployments, NEW l \in Links
    PROVE  LET end   == LinkEnd[boxes][l[1]][l[2]]
               tiers == LinkTiers(boxes, l[1], l[2])
           IN  /\ end # None => LoneIn(end, tiers)
               /\ \A x : x # None /\ ToldBy(x, tiers) /\ UNION tiers[2] \subseteq {x} => end = x
  <1>1. l[1] \in Switches /\ l[2] \in Ports \cup {None}
    BY CableEndsAssumption
  <1>. DEFINE m     == l[1]
              sfp   == SfpOrdinal(Cages[m], l[2])
              own   == boxes[m].pins
              names == Wired(boxes, m)
              pins  == Rendered(own, l[2], sfp)
              tries == CandidateNames(own, Templates, l[2], sfp, OwnNames[m][l[2]])
              guess == own = <<>> /\ boxes[m].guess
              match == UplinkMatch(names, pins, tries, l[2], sfp, guess)
  <1>2. LinkEnd[boxes][l[1]][l[2]] = match.name
    BY <1>1 DEF LinkEnd
  <1>3. LinkTiers(boxes, l[1], l[2]) = UplinkTiers(names, pins, tries, l[2], sfp, guess)
    BY DEF LinkTiers
  <1>4. DOMAIN pins \subseteq Nat /\ DOMAIN tries \subseteq Nat
    BY <1>1, CandidatesDomain
  <1>. HIDE DEF names, pins, tries, guess, sfp
  <1>. QED  BY <1>2, <1>3, <1>4, UplinkMatchByTier

LEMMA LinkEndRight ==
    ASSUME Unmistakable, NEW boxes \in Deployments, NEW l \in Links, LinkEnd[boxes][l[1]][l[2]] # None
    PROVE  LinkEnd[boxes][l[1]][l[2]] = boxes[l[1]].label[l[2]]
  <1>1. LoneIn(LinkEnd[boxes][l[1]][l[2]], LinkTiers(boxes, l[1], l[2]))
    BY LinkEndByTier
  <1>2. NoImpostor(boxes[l[1]].label[l[2]], LinkTiers(boxes, l[1], l[2]))
    BY DEF Unmistakable
  <1>. QED  BY <1>1, <1>2, LoneIsNoImpostor

LEMMA DropEndRight ==
    ASSUME Unmistakable, NEW boxes \in Deployments, NEW s \in Sites, NEW d \in Drops[s],
           DropEnd[boxes][d[1]][d[2]] # None
    PROVE  /\ d[2] \notin Uplinked[d[1]]
           /\ \/ ZeroBasedPrefixes(boxes[d[1]].names \ boxes[d[1]].virtual) # {}
              \/ DropEnd[boxes][d[1]][d[2]] = boxes[d[1]].label[d[2]]
  <1>1. d[1] \in Switches /\ d[2] \in Ports
    BY CableEndsAssumption
  <1>. DEFINE m     == d[1]
              sfp   == SfpOrdinal(Cages[m], d[2])
              own   == boxes[m].pins
              names == boxes[m].names
              tries == CandidateNames(own, Templates, d[2], sfp, OwnNames[m][d[2]])
              guess == own = <<>> /\ boxes[m].guess
              match == ClientMatch(names, tries, d[2], sfp, guess)
  <1>2. d[2] \notin Uplinked[d[1]] /\ DropEnd[boxes][d[1]][d[2]] = match.name
    BY <1>1 DEF DropEnd
  <1>3. DropTiers(boxes, d[1], d[2]) = ClientTiers(names, tries, d[2], sfp, guess)
    BY DEF DropTiers
  <1>4. DOMAIN tries \subseteq Nat
    BY <1>1, CandidatesDomain
  <1>5. LoneIn(match.name, DropTiers(boxes, d[1], d[2]))
    <2>. HIDE DEF names, tries, guess, sfp
    <2>. QED  BY <1>2, <1>3, <1>4, ClientMatchByTier
  <1>. HIDE DEF match
  <1>. QED  BY <1>2, <1>5, LoneIsNoImpostor DEF Unmistakable

\* On devices whose names have no impostor, whichever lookups are cached, stale
\* or fail: every cable end that any run records is the interface that the
\* port is, and no client is put on a port marked as an uplink.
THEOREM EndsAreRight ==
    ASSUME Unmistakable
    PROVE  Spec => []NeverWrongPort
  <1>. DEFINE Shape == DOMAIN link = Links /\ DOMAIN drop = Sites /\ \A s \in Sites : DOMAIN drop[s] = Drops[s]
              Inv   == box \in Deployments /\ Shape /\ NeverWrongPort
  <1>1. Init => Inv
    BY DEF Init, NeverWrongPort
  <1>2. TypeOK /\ Inv /\ [Next]_vars => Inv'
    <2>. SUFFICES ASSUME TypeOK, Inv, [Next]_vars PROVE Inv'
      OBVIOUS
    <2>1. CASE StartRun
      BY <2>1 DEF StartRun, NeverWrongPort
    <2>2. ASSUME NEW k \in Links, ResolveUplink(k) PROVE Inv'
      <3>1. box' = box /\ drop' = drop /\ DOMAIN link' = Links
        BY <2>2 DEF ResolveUplink
      <3>2. ASSUME NEW l \in Links, link'[l] \notin {Open, None}
            PROVE  link'[l] = box[l[1]].label[l[2]]
        <4>1. CASE l = k
          <5>1. link'[l] = LinkEnd[box][l[1]][l[2]]
            BY <2>2, <3>2, <4>1 DEF ResolveUplink
          <5>. QED  BY <3>2, <5>1, LinkEndRight
        <4>2. CASE l # k
          <5>1. link'[l] = link[l]
            BY <2>2, <4>2 DEF ResolveUplink
          <5>. QED  BY <3>2, <5>1 DEF NeverWrongPort
        <4>. QED  BY <4>1, <4>2
      <3>. QED  BY <3>1, <3>2 DEF NeverWrongPort, ZeroBased
    <2>3. ASSUME NEW r \in Sites, Resolve(r) PROVE Inv'
      <3>1. box' = box /\ link' = link /\ wk[r].item \in Drops[r]
        BY <2>3 DEF Resolve, TypeOK
      <3>2. /\ DOMAIN drop' = Sites
            /\ \A s \in Sites \ {r} : drop'[s] = drop[s]
            /\ DOMAIN drop'[r] = Drops[r]
            /\ \A d \in Drops[r] \ {wk[r].item} : drop'[r][d] = drop[r][d]
            /\ drop'[r][wk[r].item] \in {None, DropEnd[box][wk[r].item[1]][wk[r].item[2]]}
        BY <2>3, <3>1 DEF Resolve
      <3>3. ASSUME NEW s \in Sites, NEW d \in Drops[s], drop'[s][d] \notin {Open, None}
            PROVE  /\ d[2] \notin Uplinked[d[1]]
                   /\ ZeroBased(d[1]) \/ drop'[s][d] = box[d[1]].label[d[2]]
        <4>1. CASE s = r /\ d = wk[r].item
          <5>1. drop'[s][d] = DropEnd[box][d[1]][d[2]]
            BY <3>2, <3>3, <4>1
          <5>. QED  BY <3>3, <5>1, DropEndRight DEF ZeroBased
        <4>2. CASE ~(s = r /\ d = wk[r].item)
          <5>1. drop'[s][d] = drop[s][d]
            BY <3>2, <4>2
          <5>. QED  BY <3>3, <5>1 DEF NeverWrongPort
        <4>. QED  BY <4>1, <4>2
      <3>. QED  BY <3>1, <3>2, <3>3 DEF NeverWrongPort, ZeroBased
    <2>4. CASE UNCHANGED <<box, drop, link>>
      BY <2>4 DEF NeverWrongPort, ZeroBased
    <2>. QED
      BY <2>1, <2>2, <2>3, <2>4
         DEF Next, Work, MainStep, SiteStep, Faults, vars, Locate, EndRun, LocateFails, UplinkFails, LeaveSwitch,
             Establish, EstablishFails, Forget, HardwareDone, Lookup, Answer, Store, RequestFails, SiteDone
  <1>. QED  BY <1>1, <1>2, EndsTypes, PTL DEF Spec

----------------------------------------------------------------------------
\* What a run finds

LEMMA ReadableTold ==
    ASSUME Readable, NEW boxes \in Deployments, NEW l \in Links, l[2] \in boxes[l[1]].readable
    PROVE  LinkEnd[boxes][l[1]][l[2]] # None
  BY LinkEndByTier DEF Readable

\* What the uplink pass goes by: the site workers are done, and no switch comes,
\* goes or is found by other joins than before; either the queued switches were looked up afresh, or the pass has
\* failed before its first uplink.
SitesDone == \A s \in Sites : wk[s].at = "idle"
Located   == \A m \in Queued : switches[m] = Matched(m)
FreshPass ==
    /\ wk[Main].at = "waiting" => located = {} /\ \A l \in Links : link[l] = Open
    /\ wk[Main].at = "uplinks" => SitesDone /\ (Located \/ (wk[Main].todo = {} /\ \A l \in Links : link[l] = Open))

\* The uplink pass misses no end that the names of a device tell, if NetBox had
\* the device when the run began, or a join that asks NetBox at once finds it,
\* whatever the site workers left in the cache: it looks all queued switches up
\* itself.
THEOREM NoUplinkMissed ==
    ASSUME Readable
    PROVE  Spec => []UplinksFound
  <1>. USE CableEndsAssumption
  <1>. DEFINE Inv == box \in Deployments /\ DOMAIN link = Links /\ FreshPass /\ UplinksFound
  <1>1. Init => Inv
    BY DEF Init, FreshPass, UplinksFound, Idle, Worker, Workers
  <1>2. TypeOK /\ Inv /\ [Next]_vars => Inv'
    <2>. SUFFICES ASSUME TypeOK, Inv, [Next]_vars PROVE Inv'
      OBVIOUS
    <2>0. Main \in Workers /\ Main \notin Sites /\ wk \in [Workers -> Workings] /\ Sites \subseteq Workers
          /\ Queued \subseteq Switches /\ switches \in [Switches -> BOOLEAN \cup {Unknown}]
      BY DEF TypeOK, Workers, Queued
    <2>. HIDE DEF Workings, Workers
    <2>1. CASE StartRun
      BY <2>0, <2>1 DEF StartRun, FreshPass, UplinksFound, Worker, SitesDone
    <2>2. CASE Locate
      <3>1. located = {} /\ \A l \in Links : link[l] = Open
        BY <2>2 DEF Locate, FreshPass
      <3>2. Located'
        BY <2>0, <2>2, <3>1, MatchedType DEF Locate, Located, Queued, Matched
      <3>3. SitesDone'
        BY <2>0, <2>2 DEF Locate, Go, SitesDone
      <3>4. wk'[Main].at = "uplinks" /\ link' = link /\ box' = box
        BY <2>0, <2>2 DEF Locate, Go, Worker
      <3>. QED  BY <3>1, <3>2, <3>3, <3>4 DEF FreshPass, UplinksFound
    <2>3. CASE LocateFails
      <3>1. wk'[Main].at = "uplinks" /\ wk'[Main].todo = {} /\ link' = link /\ box' = box
        BY <2>0, <2>3 DEF LocateFails, Go, Worker
      <3>2. SitesDone'
        BY <2>0, <2>3 DEF LocateFails, Go, SitesDone
      <3>3. \A l \in Links : link[l] = Open
        BY <2>3 DEF LocateFails, FreshPass
      <3>. QED  BY <3>1, <3>2, <3>3 DEF FreshPass, UplinksFound
    <2>4. ASSUME NEW k \in Links, ResolveUplink(k) PROVE Inv'
      <3>0. k[1] \in Switches
        OBVIOUS
      <3>1. /\ wk[Main].at = "uplinks" /\ k \in wk[Main].todo
            /\ UNCHANGED <<box, there, findable>> /\ DOMAIN link' = Links
            /\ \A l \in Links \ {k} : link'[l] = link[l]
        BY <2>4 DEF ResolveUplink
      <3>2. SitesDone /\ Located
        BY <3>1 DEF FreshPass
      <3>3. wk'[Main].at = "uplinks" /\ \A s \in Sites : wk'[s] = wk[s]
        BY <2>0, <2>4 DEF ResolveUplink, Go
      <3>4. SitesDone'
        BY <3>2, <3>3 DEF SitesDone
      <3>5. /\ k[1] \in Queued => switches'[k[1]] = Matched(k[1])
            /\ \A m \in Switches \ {k[1]} : switches'[m] = switches[m]
        BY <2>0, <2>4, <3>0, <3>2 DEF ResolveUplink, Located
      <3>6. Located'
        BY <2>0, <3>1, <3>2, <3>5 DEF Located, Queued, Matched
      <3>7. k[1] \in Queued /\ Matched(k[1]) /\ k[2] \in box[k[1]].readable => link'[k] # None
        <4>. HAVE k[1] \in Queued /\ Matched(k[1]) /\ k[2] \in box[k[1]].readable
        <4>1. link'[k] = LinkEnd[box][k[1]][k[2]]
          BY <2>4, <3>2 DEF ResolveUplink, Located
        <4>. QED  BY <4>1, ReadableTold
      <3>. QED  BY <3>1, <3>3, <3>4, <3>6, <3>7 DEF FreshPass, UplinksFound, Queued, Matched
    <2>5. ASSUME NEW k \in Links, UplinkFails(k) PROVE Inv'
      <3>1. wk[Main].at = "uplinks" /\ k \in wk[Main].todo /\ UNCHANGED <<box, there, findable, switches, link>>
        BY <2>5 DEF UplinkFails
      <3>2. wk'[Main].at = "uplinks" /\ \A s \in Sites : wk'[s] = wk[s]
        BY <2>0, <2>5 DEF UplinkFails, Go
      <3>. QED  BY <3>1, <3>2 DEF FreshPass, UplinksFound, SitesDone, Located, Queued, Matched
    <2>6. CASE EndRun
      <3>1. wk'[Main].at = "idle" /\ UNCHANGED <<box, link>>
        BY <2>0, <2>6 DEF EndRun, Go, Idle, Worker
      <3>. QED  BY <3>1 DEF FreshPass, UplinksFound
    <2>7. ASSUME NEW s \in Sites, SiteStep(s) \/ RequestFails(s) \/ \E m \in Switches : EstablishFails(s, m)
          PROVE  Inv'
      <3>1. box' = box /\ link' = link /\ wk[s].at # "idle" /\ wk'[Main] = wk[Main]
        BY <2>0, <2>7 DEF SiteStep, LeaveSwitch, Establish, EstablishFails, Forget, HardwareDone, Lookup, Answer,
                          Store, Resolve, RequestFails, SiteDone, Go
      <3>2. wk[Main].at # "uplinks"
        BY <3>1 DEF FreshPass, SitesDone
      <3>3. located' \subseteq located
        BY <2>7 DEF SiteStep, LeaveSwitch, Establish, EstablishFails, Forget, HardwareDone, Lookup, Answer,
                    Store, Resolve, RequestFails, SiteDone
      <3>. QED  BY <3>1, <3>2, <3>3 DEF FreshPass, UplinksFound
    <2>8. CASE UNCHANGED vars
      BY <2>8 DEF vars, FreshPass, UplinksFound, SitesDone, Located, Queued, Matched
    <2>. QED
      BY <2>1, <2>2, <2>3, <2>4, <2>5, <2>6, <2>7, <2>8 DEF Next, Work, MainStep, Faults
  <1>. QED  BY <1>1, <1>2, EndsTypes, PTL DEF Spec

=============================================================================
