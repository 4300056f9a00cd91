--------------------------- MODULE SiteLink_proofs ---------------------------
(***************************************************************************)
(* For every table of sites, every number of pairs and every edit: the run *)
(* that links its sites one by one is a run of SyncRun, with the promise   *)
(* proved there; an identity field that has a value keeps it; and no two   *)
(* pairs write one site.  From tables in order, as SiteLink defines them:  *)
(* no UniFi site is recorded on a second site, and after a clean run the   *)
(* identity fields lead every pair to its site.                            *)
(***************************************************************************)
EXTENDS SiteLink, SyncRun_proofs, FiniteSetTheorems

\* The site an object was read from is still there.
Backed(k) == k \in Copy /\ site[k.at] # None

\* Unless a person has edited the site, the object is what NetBox has.
Current(k) == k.at \notin edited => site[k.at] = k.rec

Reading == \E p \in Pairs : answer[p] = "unread"

\* What the caches hold is current until the last pair is resolved, for stamps
\* begin after that; a resolved object is current until its own pair is linked.
CachesBacked == \A k \in memo \cup known : Backed(k) /\ (Reading => Current(k))
HeldBacked   == \A p \in Pairs : held[p] # None =>
                  Backed(held[p]) /\ (p \notin linked => Current(held[p]))

LInv == LinkTypeOK /\ CachesBacked /\ HeldBacked

LEMMA InitLinked == LinkedInit => LInv
BY SiteAssumption DEF LinkedInit, LInv, LinkTypeOK, CachesBacked, HeldBacked

-------------------------------------------------------------------------------
(* What a lookup returns.                                                     *)

LEMMA LiveIsCurrent ==
  ASSUME LInv, NEW k \in LiveCopies
  PROVE  k \in Copy /\ site[k.at] = k.rec /\ site[k.at] # None
BY SiteAssumption DEF LInv, LinkTypeOK, LiveCopies, Existing, Copy

LEMMA LiveIsBacked ==
  ASSUME LInv, NEW k \in LiveCopies
  PROVE  Backed(k) /\ Current(k)
BY LiveIsCurrent DEF Backed, Current

\* Every object that a lookup may return is live or cached.
LEMMA HitsBacked ==
  ASSUME LInv, NEW p \in Pairs, NEW k \in Identified(p) \cup Similar(p)
  PROVE  Backed(k) /\ (Reading => Current(k))
<1>1. k \in LiveCopies \cup memo \cup known
  BY DEF Identified, Via, Carriers, Similar, Exact, Named, Folded, Seen, Listing
<1>2. QED
  BY <1>1, LiveIsBacked DEF LInv, CachesBacked

LEMMA SeenBacked ==
  ASSUME LInv, NEW slug, NEW k \in Seen(slug)
  PROVE  Backed(k) /\ (Reading => Current(k))
BY LiveIsBacked DEF Seen, LInv, CachesBacked

LEMMA ListingBacked ==
  ASSUME LInv, NEW k \in Listing
  PROVE  Backed(k) /\ (Reading => Current(k))
BY LiveIsBacked DEF Listing, LInv, CachesBacked

LEMMA TargetIsSlug ==
  ASSUME LInv, NEW p \in Pairs
  PROVE  Target(p) \in Slugs
BY SiteAssumption DEF Target, LInv, LinkTypeOK, Copy, Site

-------------------------------------------------------------------------------
(* Steps that leave the table of sites alone.                                *)

\* Caches may grow by what a lookup returns; nothing goes back to unread.
LEMMA LookupSafe ==
  ASSUME LInv, UNCHANGED <<site, edited, held>>, LinkTypeOK',
         linked \subseteq linked',
         \A p \in Pairs : answer'[p] = "unread" => answer[p] = "unread",
         \A k \in memo' \cup known' : Backed(k) /\ (Reading => Current(k))
  PROVE  LInv'
<1>1. \A k : (Backed(k) => Backed(k)') /\ (Current(k) => Current(k)')
  BY DEF Backed, Current
<1>2. CachesBacked'
  BY <1>1 DEF CachesBacked, Reading
<1>3. HeldBacked'
  BY <1>1 DEF LInv, HeldBacked
<1>4. QED
  BY <1>2, <1>3 DEF LInv

LEMMA ResolveSafe ==
  ASSUME LInv, NEW p \in Pairs, Resolve(p)
  PROVE  LInv'
<1>1. \A k : (Backed(k) => Backed(k)') /\ (Current(k) => Current(k)')
  BY DEF Resolve, Backed, Current
<1>2. Reading
  BY DEF Resolve, InTurn, Reading
<1>3. \A k \in memo' \cup known' : Backed(k) /\ Current(k)
  BY <1>2, SeenBacked, ListingBacked DEF Resolve, LInv, CachesBacked
<1>4. held' = held \/ \E k \in Identified(p) \cup Similar(p) : held' = [held EXCEPT ![p] = k]
  BY DEF Resolve
<1>5. \A q \in Pairs : held'[q] # held[q] => Backed(held'[q]) /\ Current(held'[q])
  BY <1>2, <1>4, HitsBacked DEF LInv, LinkTypeOK
<1>6. held' \in [Pairs -> Copy \cup {None}]
  BY <1>4, HitsBacked DEF LInv, LinkTypeOK, Backed
<1>7. memo' \in SUBSET Copy /\ known' \in SUBSET Copy
  BY <1>3 DEF Backed
<1>8. LinkTypeOK'
  BY <1>6, <1>7 DEF Resolve, LInv, LinkTypeOK
<1>9. CachesBacked'
  BY <1>1, <1>3 DEF CachesBacked
<1>10. HeldBacked'
  <2>1. UNCHANGED <<site, edited, linked>>
    BY DEF Resolve
  <2>2. ASSUME NEW q \in Pairs, held'[q] # None
        PROVE  Backed(held'[q]) /\ (q \notin linked => Current(held'[q]))
    BY <1>5, <2>2 DEF LInv, HeldBacked
  <2>3. QED
    BY <2>1, <2>2 DEF HeldBacked, Backed, Current
<1>11. QED
  BY <1>8, <1>9, <1>10 DEF LInv

\* The remaining steps of a lookup or of the judgement change caches at most.
LEMMA QuietSafe ==
  ASSUME LInv, UNCHANGED <<site, edited, held, answer, unusable, policy>>, linked \subseteq linked',
         linked' \in SUBSET Pairs, refused' \in SUBSET Pairs,
         written' \in [Pairs -> SiteIds \cup {None}], budget' \in 0..Budget,
         memo' \subseteq memo \cup UNION {Seen(slug) : slug \in Slugs},
         known' \subseteq known \cup Listing
  PROVE  LInv'
<1>1. \A k \in memo' \cup known' : Backed(k) /\ (Reading => Current(k))
  BY SeenBacked, ListingBacked DEF LInv, CachesBacked
<1>2. memo' \in SUBSET Copy /\ known' \in SUBSET Copy
  BY <1>1 DEF Backed
<1>3. LinkTypeOK'
  BY <1>2 DEF LInv, LinkTypeOK
<1>4. QED
  BY <1>1, <1>3, LookupSafe

LEMMA BudgetSpent ==
  ASSUME LInv, budget > 0, budget' = budget - 1
  PROVE  budget' \in 0..Budget
BY SiteAssumption DEF LInv, LinkTypeOK

LEMMA ResolveFailsSafe ==
  ASSUME LInv, NEW p \in Pairs, ResolveFails(p)
  PROVE  LInv'
<1>1. \A k \in memo' \cup known' : Backed(k) /\ (Reading => Current(k))
  BY SeenBacked DEF ResolveFails, LInv, CachesBacked
<1>2. memo' \in SUBSET Copy /\ known' \in SUBSET Copy
  BY <1>1 DEF Backed
<1>3. LinkTypeOK'
  BY <1>2, BudgetSpent DEF ResolveFails, LInv, LinkTypeOK
<1>4. \A q \in Pairs : answer'[q] = "unread" => answer[q] = "unread"
  BY DEF ResolveFails, InTurn
<1>5. QED
  BY <1>1, <1>3, <1>4, LookupSafe DEF ResolveFails

LEMMA FilterFailsSafe ==
  ASSUME LInv, NEW f \in Fields, FilterFails(f)
  PROVE  LInv'
<1>1. LinkTypeOK'
  BY BudgetSpent DEF FilterFails, LInv, LinkTypeOK
<1>2. \A k \in memo' \cup known' : Backed(k) /\ (Reading => Current(k))
  BY DEF FilterFails, LInv, CachesBacked
<1>3. QED
  BY <1>1, <1>2, LookupSafe DEF FilterFails

LEMMA JudgedSafe ==
  ASSUME LInv, NEW p \in Pairs, NothingToRecord(p) \/ Refuse(p) \/ Withhold(p)
  PROVE  LInv'
<1>1. CASE NothingToRecord(p)
  BY <1>1, QuietSafe DEF NothingToRecord, Judging, caches, LInv, LinkTypeOK
<1>2. CASE Refuse(p)
  BY <1>2, QuietSafe DEF Refuse, Mine, Judging, caches, LInv, LinkTypeOK
<1>3. CASE Withhold(p)
  BY <1>3, QuietSafe DEF Withhold, Mine, Judging, Looked, LInv, LinkTypeOK
<1>4. QED
  BY <1>1, <1>2, <1>3

LEMMA FoundSafe ==
  ASSUME LInv, NEW p \in Pairs, EnsureFinds(p)
  PROVE  LInv'
<1>1. PICK k \in Seen(Target(p)) : written' = [written EXCEPT ![p] = k.at]
  BY DEF EnsureFinds
<1>2. written' \in [Pairs -> SiteIds \cup {None}]
  BY <1>1, SeenBacked DEF LInv, LinkTypeOK, Backed, Copy
<1>3. QED
  BY <1>2, TargetIsSlug, QuietSafe DEF EnsureFinds, LInv, LinkTypeOK

-------------------------------------------------------------------------------
(* Steps that write the table of sites.                                      *)

LEMMA OwnersKnown == None \in Owners /\ Pairs \subseteq Owners
BY DEF Owners

\* What a stamp writes: one site, which stays one, and no other.
LEMMA SavedSite ==
  ASSUME LInv, NEW p \in Pairs, held[p] # None
  PROVE  /\ held[p].at \in SiteIds
         /\ Saved(p) \in [SiteIds -> Site \cup {None}]
         /\ \A i \in SiteIds : site[i] # None => Saved(p)[i] # None
         /\ \A i \in SiteIds \ {held[p].at} : Saved(p)[i] = site[i]
         /\ \A f \in Fields : Saved(p)[held[p].at][f] = Fill(f, p)
<1>1. held[p] \in Copy /\ site[held[p].at] # None
  BY DEF LInv, HeldBacked, Backed
<1>2. held[p].at \in SiteIds /\ held[p].rec \in Site
  BY <1>1 DEF Copy
<1>3. site[held[p].at] \in Site
  BY <1>1, <1>2 DEF LInv, LinkTypeOK
<1>4. \A f \in Fields : Fill(f, p) \in Owners
  BY <1>2, OwnersKnown DEF Fill, Fields, Site
<1>5. DEFINE new == [site[held[p].at] EXCEPT !.internal = Fill("internal", p),
                                             !.id = Fill("id", p), !.nm = Fill("nm", p)]
<1>6. new \in Site /\ \A f \in Fields : new[f] = Fill(f, p)
  BY <1>3, <1>4 DEF Site, Fields
<1>7. Saved(p) = [site EXCEPT ![held[p].at] = new]
  BY DEF Saved
<1>8. site \in [SiteIds -> Site \cup {None}]
  BY DEF LInv, LinkTypeOK
<1> HIDE DEF new
<1>9. QED
  BY <1>2, <1>6, <1>7, <1>8, SiteAssumption

\* Two pairs that are not linked yet and hold one unedited site hold it as it is,
\* so they would clash: a stamp leaves the objects of all others current.
LEMMA StampedSafe ==
  ASSUME LInv, NEW p \in Pairs, Mine(p), site' \in {site, Saved(p)},
         UNCHANGED <<answer, held, memo, edited>>, known' \subseteq known \cup Listing,
         LinkTypeOK'
  PROVE  LInv'
<1>1. held[p] # None /\ p \notin linked /\ linked' = linked \cup {p} /\ ~Clashing(p) /\ ~Reading
  BY DEF Mine, Judging, Reading
<1>2. \A k \in Copy : site[k.at] # None => site'[k.at] # None
  BY <1>1, SavedSite DEF Copy
<1>3. CachesBacked'
  <2>1. \A k \in memo' \cup known' : Backed(k)
    BY ListingBacked DEF LInv, CachesBacked
  <2>2. QED
    BY <1>1, <1>2, <2>1 DEF CachesBacked, Backed, Reading
<1>4. ASSUME NEW q \in Pairs, held[q] # None
      PROVE  held[q] \in Copy /\ site'[held[q].at] # None
  BY <1>2, <1>4 DEF LInv, HeldBacked, Backed
<1>5. ASSUME NEW q \in Pairs, held[q] # None, q \notin linked', held[q].at \notin edited
      PROVE  site'[held[q].at] = held[q].rec
  <2>1. q # p /\ q \notin linked
    BY <1>1, <1>5
  <2>2. site[held[q].at] = held[q].rec
    BY <1>5, <2>1 DEF LInv, HeldBacked, Current
  <2>3. held[q].at # held[p].at
    <3>1. SUFFICES ASSUME held[q].at = held[p].at PROVE FALSE
      OBVIOUS
    <3>2. held[p].rec = held[q].rec
      BY <1>1, <1>5, <2>2, <3>1 DEF LInv, HeldBacked, Current
    <3>3. QED
      BY <1>1, <1>5, <2>1, <3>2 DEF Clashing, Target
  <2>4. held[q].at \in SiteIds
    BY <1>5 DEF LInv, HeldBacked, Backed, Copy
  <2>5. QED
    BY <1>1, <2>2, <2>3, <2>4, SavedSite
<1>6. HeldBacked'
  BY <1>4, <1>5 DEF HeldBacked, Backed, Current
<1>7. QED
  BY <1>3, <1>6 DEF LInv

LEMMA StampSafe ==
  ASSUME LInv, NEW p \in Pairs, Stamp(p) \/ StampFails(p)
  PROVE  LInv'
<1>1. held[p] # None /\ Mine(p) /\ linked' \in SUBSET Pairs
  BY DEF Stamp, StampFails, Mine, Judging, LInv, LinkTypeOK
<1>2. site' \in {site, Saved(p)} /\ site' \in [SiteIds -> Site \cup {None}]
  BY <1>1, SavedSite DEF Stamp, StampFails, LInv, LinkTypeOK
<1>3. known' \subseteq known \cup Listing
  BY DEF Stamp, StampFails, Looked
<1>4. known' \in SUBSET Copy
  BY <1>3, ListingBacked DEF LInv, LinkTypeOK, Backed
<1>5. budget' \in 0..Budget
  BY BudgetSpent DEF Stamp, StampFails, LInv, LinkTypeOK
<1>6. LinkTypeOK'
  BY <1>1, <1>2, <1>4, <1>5 DEF Stamp, StampFails, LInv, LinkTypeOK
<1>7. QED
  BY <1>1, <1>2, <1>3, <1>6, StampedSafe DEF Stamp, StampFails

\* A site that did not exist: no object was read from it.
LEMMA CreatedSafe ==
  ASSUME LInv, NEW p \in Pairs, NEW i \in SiteIds, EnsureCreates(p, i) \/ CreateLost(p, i)
  PROVE  LInv'
<1>1. i \notin Existing /\ site' = [site EXCEPT ![i] = NewSite(p)]
  BY DEF EnsureCreates, CreateLost, Creates
<1>2. NewSite(p) \in Site
  <2>1. NameFor(p) \in Names
    BY TargetIsSlug, SiteAssumption DEF NameFor
  <2>2. QED
    BY <2>1, TargetIsSlug, OwnersKnown DEF NewSite, Site
<1>3. site' \in [SiteIds -> Site \cup {None}] /\ site[i] = None /\ site'[i] = NewSite(p) /\ site'[i] # None
  BY <1>1, <1>2, SiteAssumption DEF LInv, LinkTypeOK, Existing
<1>4. \A k \in Copy : site[k.at] # None => site'[k.at] = site[k.at]
  BY <1>1, <1>3 DEF Copy, LInv, LinkTypeOK
<1>5. UNCHANGED <<answer, held, edited>> /\ linked' = linked
  BY DEF EnsureCreates, CreateLost
<1>6. DEFINE k0 == [at |-> i, rec |-> NewSite(p)]
<1>7. memo' \subseteq memo \cup {k0} /\ known' \subseteq known
  BY DEF EnsureCreates, CreateLost, caches
<1>8. k0 \in Copy /\ k0.at = i /\ k0.rec = NewSite(p)
  BY <1>2 DEF Copy
<1> HIDE DEF k0
<1>9. CachesBacked'
  <2>1. \A k \in memo \cup known : k \in Copy /\ site[k.at] # None
    BY DEF LInv, CachesBacked, Backed
  <2>2. QED
    BY <1>3, <1>4, <1>5, <1>7, <1>8, <2>1 DEF LInv, CachesBacked, Backed, Current, Reading
<1>10. HeldBacked'
  BY <1>4, <1>5 DEF LInv, HeldBacked, Backed, Current
<1>11. LinkTypeOK'
  <2>1. memo' \in SUBSET Copy /\ known' \in SUBSET Copy
    BY <1>7, <1>8 DEF LInv, LinkTypeOK
  <2>2. budget' \in 0..Budget
    BY BudgetSpent DEF EnsureCreates, CreateLost, LInv, LinkTypeOK
  <2>3. written' \in [Pairs -> SiteIds \cup {None}]
    BY DEF EnsureCreates, CreateLost, LInv, LinkTypeOK
  <2>4. QED
    BY <1>3, <1>5, <2>1, <2>2, <2>3 DEF EnsureCreates, CreateLost, caches, LInv, LinkTypeOK
<1>12. QED
  BY <1>9, <1>10, <1>11 DEF LInv

LEMMA EditSafe ==
  ASSUME LInv, NEW i \in SiteIds, OperatorEdits(i)
  PROVE  LInv'
<1>1. site[i] \in Site
  BY DEF OperatorEdits, Existing, LInv, LinkTypeOK
<1>2. PICK new \in Site : site' = [site EXCEPT ![i] = new]
  <2>1. CASE \E s \in Slugs : site' = [site EXCEPT ![i].slug = s]
    <3>1. PICK s \in Slugs : site' = [site EXCEPT ![i] = [site[i] EXCEPT !.slug = s]]
      BY <2>1
    <3>2. [site[i] EXCEPT !.slug = s] \in Site
      BY <1>1 DEF Site
    <3>3. QED
      BY <3>1, <3>2
  <2>2. CASE \E n \in Names : site' = [site EXCEPT ![i].name = n]
    <3>1. PICK n \in Names : site' = [site EXCEPT ![i] = [site[i] EXCEPT !.name = n]]
      BY <2>2
    <3>2. [site[i] EXCEPT !.name = n] \in Site
      BY <1>1 DEF Site
    <3>3. QED
      BY <3>1, <3>2
  <2>3. CASE \E o \in Owners : \/ site' = [site EXCEPT ![i].internal = o]
                               \/ site' = [site EXCEPT ![i].id = o]
                               \/ site' = [site EXCEPT ![i].nm = o]
    <3>1. PICK o \in Owners : \/ site' = [site EXCEPT ![i] = [site[i] EXCEPT !.internal = o]]
                              \/ site' = [site EXCEPT ![i] = [site[i] EXCEPT !.id = o]]
                              \/ site' = [site EXCEPT ![i] = [site[i] EXCEPT !.nm = o]]
      BY <2>3
    <3>2. /\ [site[i] EXCEPT !.internal = o] \in Site
          /\ [site[i] EXCEPT !.id = o] \in Site
          /\ [site[i] EXCEPT !.nm = o] \in Site
      BY <1>1 DEF Site
    <3>3. QED
      BY <3>1, <3>2
  <2>4. QED
    BY <2>1, <2>2, <2>3 DEF OperatorEdits
<1>3. /\ site' \in [SiteIds -> Site \cup {None}]
      /\ \A j \in SiteIds : site[j] # None => site'[j] # None
      /\ \A j \in SiteIds \ {i} : site'[j] = site[j]
  BY <1>2, SiteAssumption DEF LInv, LinkTypeOK
<1>4. /\ edited' = edited \cup {i}
      /\ UNCHANGED <<answer, held, memo, known, linked, refused, written, policy, unusable>>
  BY DEF OperatorEdits, caches
<1>5. LinkTypeOK'
  BY <1>3, <1>4, BudgetSpent DEF OperatorEdits, LInv, LinkTypeOK
<1>6. \A k \in Copy : /\ site[k.at] # None => site'[k.at] # None
                      /\ k.at \notin edited' => k.at \notin edited /\ site'[k.at] = site[k.at]
  BY <1>3, <1>4 DEF Copy
<1>7. CachesBacked' /\ HeldBacked'
  BY <1>4, <1>6 DEF LInv, CachesBacked, HeldBacked, Backed, Current, Reading
<1>8. QED
  BY <1>5, <1>7 DEF LInv

LEMMA UntouchedSafe ==
  ASSUME LInv, UNCHANGED siteVars
  PROVE  LInv'
BY DEF siteVars, LInv, LinkTypeOK, CachesBacked, HeldBacked, Backed, Current, Reading

LEMMA NextLinked == LInv /\ [LinkedNext]_linkedVars => LInv'
<1> SUFFICES ASSUME LInv, [LinkedNext]_linkedVars PROVE LInv'
  OBVIOUS
<1>1. CASE LinkedMain
  <2>1. CASE LinkStep
    BY <2>1, ResolveSafe, JudgedSafe, StampSafe DEF LinkStep
  <2>2. CASE LinkDone \/ (Advance /\ UNCHANGED siteVars)
    BY <2>2, UntouchedSafe DEF LinkDone
  <2>3. QED
    BY <1>1, <2>1, <2>2 DEF LinkedMain
<1>2. ASSUME NEW p \in Pairs, PairStep(p) PROVE LInv'
  <2>1. CASE UNCHANGED siteVars
    BY <2>1, UntouchedSafe
  <2>2. QED
    BY <1>2, <2>1, FoundSafe, CreatedSafe DEF PairStep
<1>3. CASE Faults
  BY <1>3, ResolveFailsSafe, StampSafe, FilterFailsSafe, CreatedSafe, EditSafe DEF Faults
<1>4. CASE UNCHANGED siteVars
  BY <1>4, UntouchedSafe
<1>5. QED
  BY <1>1, <1>2, <1>3, <1>4 DEF LinkedNext, linkedVars

\* The caches and resolved objects stay as described above in every reachable state.
THEOREM LinkInvariant == LinkedSpec => []LInv
BY InitLinked, NextLinked, PTL DEF LinkedSpec

-------------------------------------------------------------------------------
(* Linking pair by pair is a run of SyncRun.                                 *)

LEMMA LinkDoneLinks ==
  ASSUME LInv, LinkDone
  PROVE  Link
<1>1. [p \in Pairs |-> Target(p)] \in [Pairs -> Slugs]
  BY TargetIsSlug
<1>2. refused \in SUBSET Pairs
  BY DEF LInv, LinkTypeOK
<1>3. LinkTo([p \in Pairs |-> Target(p)], refused)
  BY DEF LinkDone
<1>4. QED
  BY <1>1, <1>2, <1>3 DEF Link

LEMMA StepsRefine == LInv /\ [LinkedNext]_linkedVars => [Next]_vars
<1> SUFFICES ASSUME LInv, [LinkedNext]_linkedVars PROVE [Next]_vars
  OBVIOUS
<1>1. CASE LinkedMain
  BY <1>1, LinkDoneLinks DEF LinkedMain, LinkStep, Next, MainStep
<1>2. ASSUME NEW p \in Pairs, PairStep(p) PROVE [Next]_vars
  BY <1>2 DEF PairStep, EnsureFinds, EnsureCreates, Next
<1>3. CASE Faults
  <2>1. ASSUME NEW p \in Pairs, NEW i \in SiteIds, CreateLost(p, i) PROVE Next
    BY <2>1 DEF CreateLost, WorkerStep, Next
  <2>2. ASSUME NEW i \in SiteIds, OperatorEdits(i) PROVE UNCHANGED vars
    BY <2>2 DEF OperatorEdits
  <2>3. QED
    BY <1>3, <2>1, <2>2 DEF Faults
<1>4. CASE Exited \/ UNCHANGED linkedVars
  BY <1>4 DEF Exited, linkedVars
<1>5. QED
  BY <1>1, <1>2, <1>3, <1>4 DEF LinkedNext

\* Whatever sites, caches, faults and edits there are, the process that links its
\* sites one by one does what SyncRun says of linking as one step.
THEOREM LinkedIsSyncRun == LinkedSpec => Spec
<1>1. LinkedInit => Init
  BY DEF LinkedInit
<1>2. QED
  BY <1>1, StepsRefine, LinkInvariant, PTL DEF LinkedSpec, Spec

\* So it keeps the promise of a run: the marker and status 0 stand for a run in
\* which every pair, those dropped by a link conflict included, was completed.
THEOREM LinkedKeepsPromise == LinkedSpec => KeepsPromise
BY LinkedIsSyncRun, Implements

\* And it leaves no writer behind.
THEOREM LinkedLeavesNoWriter == LinkedSpec => []NoWriterLeft
BY LinkedIsSyncRun, NoWriterOutlivesRun

\* Every variable keeps its type, whatever the lookups return.
THEOREM LinkedTypes == LinkedSpec => []SitesTypeOK
<1>1. RInv /\ LInv => SitesTypeOK
  BY DEF RInv, LInv, SitesTypeOK
<1>2. QED
  BY <1>1, LinkedIsSyncRun, RunInvariant, LinkInvariant, PTL

-------------------------------------------------------------------------------
(* The sync fills identity fields and changes none.                          *)

IdentityStep == \A i \in SiteIds \ edited' : \A f \in Fields :
                  site[i] # None /\ site[i][f] # None => site'[i][f] = site[i][f]

LEMMA StampFills ==
  ASSUME LInv, NEW p \in Pairs, Mine(p), site' \in {site, Saved(p)}, edited' = edited
  PROVE  IdentityStep
<1>1. held[p] # None /\ p \notin linked
  BY DEF Mine, Judging
<1>2. SUFFICES ASSUME NEW i \in SiteIds, i \notin edited, NEW f \in Fields, site[i][f] # None,
                      site' = Saved(p)
               PROVE  site'[i][f] = site[i][f]
  BY DEF IdentityStep
<1>3. CASE i # held[p].at
  BY <1>1, <1>2, <1>3, SavedSite
<1>4. CASE i = held[p].at
  <2>1. held[p].rec = site[i]
    BY <1>1, <1>2, <1>4 DEF LInv, HeldBacked, Current
  <2>2. Fill(f, p) = site[i][f]
    BY <1>2, <2>1 DEF Fill, Lacks
  <2>3. QED
    BY <1>1, <1>2, <1>4, <2>2, SavedSite
<1>5. QED
  BY <1>3, <1>4

LEMMA NextFills == LInv /\ [LinkedNext]_linkedVars => IdentityStep
<1> SUFFICES ASSUME LInv, [LinkedNext]_linkedVars PROVE IdentityStep
  OBVIOUS
<1>1. CASE site' = site
  BY <1>1 DEF IdentityStep
<1>2. ASSUME NEW p \in Pairs, Stamp(p) \/ StampFails(p) PROVE IdentityStep
  BY <1>2, StampFills DEF Stamp, StampFails
<1>3. ASSUME NEW p \in Pairs, NEW i \in SiteIds, Creates(p, i) PROVE IdentityStep
  BY <1>3 DEF Creates, Existing, IdentityStep, LInv, LinkTypeOK
<1>4. ASSUME NEW i \in SiteIds, OperatorEdits(i) PROVE IdentityStep
  <2>1. edited' = edited \cup {i}
    BY <1>4 DEF OperatorEdits
  <2>2. \A j \in SiteIds \ {i} : site'[j] = site[j]
    BY <1>4 DEF OperatorEdits, LInv, LinkTypeOK
  <2>3. QED
    BY <2>1, <2>2 DEF IdentityStep
<1>5. CASE LinkedMain
  BY <1>1, <1>2, <1>5 DEF LinkedMain, LinkStep, LinkDone, siteVars, Resolve, NothingToRecord, Refuse, Withhold
<1>6. ASSUME NEW p \in Pairs, PairStep(p) PROVE IdentityStep
  BY <1>1, <1>3, <1>6 DEF PairStep, EnsureFinds, EnsureCreates, siteVars
<1>7. CASE Faults
  BY <1>1, <1>2, <1>3, <1>4, <1>7 DEF Faults, ResolveFails, FilterFails, CreateLost
<1>8. CASE (Exited /\ UNCHANGED siteVars) \/ UNCHANGED linkedVars
  BY <1>1, <1>8 DEF siteVars, linkedVars
<1>9. QED
  BY <1>5, <1>6, <1>7, <1>8 DEF LinkedNext

\* A field that has a value keeps it on every site that no person edits during the
\* run, although a stamp sends the fields as they were read long before.
THEOREM IdentityIsKept == LinkedSpec => IdentityKept
<1>1. LInv /\ [LinkedNext]_linkedVars => [IdentityStep]_linkedVars
  BY NextFills
<1>2. QED
  BY <1>1, LinkInvariant, PTL DEF LinkedSpec, IdentityKept, IdentityStep

-------------------------------------------------------------------------------
(* Two pairs never write one site.  Groups run only for pairs whose slugs     *)
(* differ; no step but an edit changes a slug, so every cached object tells   *)
(* the slug that its site has, and a pair writes to a site of its own slug.   *)

Apart == \A p \in Linked : ~Clashing(p) /\ \A q \in Pairs : answer[q] # "unread"
SlugsTold == edited = {} => \A k \in memo \cup known : site[k.at].slug = k.rec.slug
WrittenAt == \A p \in Pairs : written[p] # None =>
               /\ p \in Linked
               /\ edited = {} => written[p] \in Existing /\ site[written[p]].slug = Target(p)

AInv == Apart /\ SlugsTold /\ WrittenAt

LEMMA InitApart == LinkedInit => AInv
BY DEF LinkedInit, Init, AInv, Apart, SlugsTold, WrittenAt, Linked

\* A step that no person makes leaves every site its slug.
SlugsStay == edited' = {} => /\ edited = {}
                             /\ \A i \in Existing : i \in Existing' /\ site'[i].slug = site[i].slug

LEMMA SavedSlug ==
  ASSUME LInv, NEW p \in Pairs, held[p] # None, NEW i \in Existing
  PROVE  Saved(p)[i] # None /\ Saved(p)[i].slug = site[i].slug
<1>1. CASE i # held[p].at
  BY <1>1, SavedSite DEF Existing
<1>2. CASE i = held[p].at
  <2>1. site \in [SiteIds -> Site \cup {None}] /\ site[i] \in Site
    BY DEF LInv, LinkTypeOK, Existing
  <2>2. Saved(p)[i] = [site[i] EXCEPT !.internal = Fill("internal", p), !.id = Fill("id", p),
                                      !.nm = Fill("nm", p)]
    BY <1>2, <2>1 DEF Saved, Existing
  <2>3. Saved(p)[i].slug = site[i].slug
    BY <2>1, <2>2 DEF Site
  <2>4. QED
    BY <2>3, SavedSite DEF Existing
<1>3. QED
  BY <1>1, <1>2

LEMMA StampKeepsSlugs ==
  ASSUME LInv, NEW p \in Pairs, Stamp(p) \/ StampFails(p)
  PROVE  SlugsStay
<1>1. held[p] # None /\ site' \in {site, Saved(p)} /\ edited' = edited
  BY DEF Stamp, StampFails, Mine
<1>2. QED
  BY <1>1, SavedSlug DEF SlugsStay, Existing

LEMMA NextKeepsSlugs == LInv /\ [LinkedNext]_linkedVars => SlugsStay
<1> SUFFICES ASSUME LInv, [LinkedNext]_linkedVars PROVE SlugsStay
  OBVIOUS
<1>1. CASE UNCHANGED <<site, edited>>
  BY <1>1 DEF SlugsStay, Existing
<1>2. ASSUME NEW p \in Pairs, NEW i \in SiteIds, EnsureCreates(p, i) \/ CreateLost(p, i) PROVE SlugsStay
  <2>1. i \notin Existing /\ site' = [site EXCEPT ![i] = NewSite(p)] /\ edited' = edited
    BY <1>2 DEF EnsureCreates, CreateLost, Creates
  <2>2. \A j \in Existing : site'[j] = site[j]
    BY <2>1 DEF Existing, LInv, LinkTypeOK
  <2>3. QED
    BY <2>1, <2>2 DEF SlugsStay, Existing
<1>3. ASSUME NEW i \in SiteIds, OperatorEdits(i) PROVE SlugsStay
  BY <1>3 DEF OperatorEdits, SlugsStay
<1>4. CASE LinkedMain
  BY <1>1, <1>4, StampKeepsSlugs
     DEF LinkedMain, LinkStep, LinkDone, siteVars, Resolve, NothingToRecord, Refuse, Withhold
<1>5. ASSUME NEW p \in Pairs, PairStep(p) PROVE SlugsStay
  BY <1>1, <1>2, <1>5 DEF PairStep, EnsureFinds, siteVars
<1>6. CASE Faults
  BY <1>1, <1>2, <1>3, <1>6, StampKeepsSlugs DEF Faults, ResolveFails, FilterFails
<1>7. CASE (Exited /\ UNCHANGED siteVars) \/ UNCHANGED linkedVars
  BY <1>1, <1>7 DEF siteVars, linkedVars
<1>8. QED
  BY <1>4, <1>5, <1>6, <1>7 DEF LinkedNext

\* What a cache takes in was live, was cached, or has just been created.
CachesGrow == \A k \in memo' \cup known' :
                k \in memo \cup known \cup LiveCopies \/ site'[k.at].slug = k.rec.slug

LEMMA NextGrowsCaches == LInv /\ [LinkedNext]_linkedVars => CachesGrow
<1> SUFFICES ASSUME LInv, [LinkedNext]_linkedVars PROVE CachesGrow
  OBVIOUS
<1>1. CASE UNCHANGED <<memo, known>>
  BY <1>1 DEF CachesGrow
<1>2. ASSUME NEW p \in Pairs,
             Resolve(p) \/ ResolveFails(p) \/ EnsureFinds(p) \/ Withhold(p) \/ Stamp(p) \/ StampFails(p)
      PROVE  CachesGrow
  BY <1>2 DEF Resolve, ResolveFails, EnsureFinds, Withhold, Stamp, StampFails, Looked, Seen, Listing, CachesGrow
<1>3. ASSUME NEW p \in Pairs, NEW i \in SiteIds, EnsureCreates(p, i) PROVE CachesGrow
  <2>1. site'[i] = NewSite(p)
    BY <1>3 DEF EnsureCreates, Creates, LInv, LinkTypeOK
  <2>2. memo' = memo \cup {[at |-> i, rec |-> NewSite(p)]} /\ known' = {}
    BY <1>3 DEF EnsureCreates
  <2>3. QED
    BY <2>1, <2>2 DEF CachesGrow
<1>4. CASE LinkedMain
  BY <1>1, <1>2, <1>4 DEF LinkedMain, LinkStep, LinkDone, siteVars, NothingToRecord, Refuse, caches
<1>5. ASSUME NEW p \in Pairs, PairStep(p) PROVE CachesGrow
  BY <1>1, <1>2, <1>3, <1>5 DEF PairStep, siteVars, caches
<1>6. CASE Faults
  <2>1. ASSUME NEW p \in Pairs, NEW i \in SiteIds, CreateLost(p, i) PROVE UNCHANGED <<memo, known>>
    BY <2>1 DEF CreateLost, caches
  <2>2. ASSUME NEW f \in Fields, FilterFails(f) PROVE UNCHANGED <<memo, known>>
    BY <2>2 DEF FilterFails
  <2>3. ASSUME NEW i \in SiteIds, OperatorEdits(i) PROVE UNCHANGED <<memo, known>>
    BY <2>3 DEF OperatorEdits, caches
  <2>4. QED
    BY <1>1, <1>2, <1>6, <2>1, <2>2, <2>3 DEF Faults
<1>7. CASE (Exited /\ UNCHANGED siteVars) \/ UNCHANGED linkedVars
  BY <1>1, <1>7 DEF siteVars, linkedVars, caches
<1>8. QED
  BY <1>4, <1>5, <1>6, <1>7 DEF LinkedNext

LEMMA ToldKept == LInv /\ SlugsTold /\ [LinkedNext]_linkedVars => SlugsTold'
<1> SUFFICES ASSUME LInv, SlugsTold, [LinkedNext]_linkedVars, edited' = {}, NEW k \in memo' \cup known'
             PROVE  site'[k.at].slug = k.rec.slug
  BY DEF SlugsTold
<1>1. CASE k \in memo \cup known \cup LiveCopies
  <2>1. SlugsStay
    BY NextKeepsSlugs
  <2>2. k.at \in Existing
    BY <1>1, LiveIsBacked DEF LInv, CachesBacked, Backed, Copy, Existing
  <2>3. site[k.at].slug = k.rec.slug
    BY <1>1, <2>1, LiveIsCurrent DEF SlugsTold, SlugsStay
  <2>4. QED
    BY <2>1, <2>2, <2>3 DEF SlugsStay
<1>2. QED
  BY <1>1, NextGrowsCaches DEF CachesGrow

\* Once every pair is resolved, what it is resolved to stays.
LEMMA Resolved ==
  ASSUME [LinkedNext]_linkedVars, \A q \in Pairs : answer[q] # "unread"
  PROVE  held' = held /\ answer' = answer
<1>1. \A p \in Pairs : ~InTurn(p)
  BY DEF InTurn
<1>2. CASE LinkedMain
  BY <1>1, <1>2 DEF LinkedMain, LinkStep, LinkDone, siteVars, Resolve, NothingToRecord, Refuse, Withhold, Stamp
<1>3. ASSUME NEW p \in Pairs, PairStep(p) PROVE held' = held /\ answer' = answer
  BY <1>3 DEF PairStep, EnsureFinds, EnsureCreates, siteVars
<1>4. CASE Faults
  BY <1>1, <1>4 DEF Faults, ResolveFails, StampFails, FilterFails, CreateLost, OperatorEdits
<1>5. CASE (Exited /\ UNCHANGED siteVars) \/ UNCHANGED linkedVars
  BY <1>5 DEF siteVars, linkedVars
<1>6. QED
  BY <1>2, <1>3, <1>4, <1>5 DEF LinkedNext

\* Only LinkDone links a pair, and nothing unlinks one.
LEMMA LinkedStays == RInv /\ [LinkedNext]_linkedVars => LinkDone \/ Linked' = Linked
<1> SUFFICES ASSUME RInv, [LinkedNext]_linkedVars PROVE LinkDone \/ Linked' = Linked
  OBVIOUS
<1>1. CASE job' = job
  BY <1>1 DEF Linked
<1>2. ASSUME NEW p \in Pairs, WorkerStep(p) PROVE Linked' = Linked
  <2>1. PICK to \in {"syncing", "marking", "done", "failed", "raised"} :
          job' = [job EXCEPT ![p] = to] /\ job[p] \in {"queued", "syncing", "marking"}
    BY <1>2 DEF WorkerStep, Take, SiteReturns, SiteRaises, MarkReturns, MarkRaises
  <2>2. QED
    BY <2>1 DEF Linked, RInv, TypeOK
<1>3. CASE Advance
  <2>1. job' = job \/ job' = [p \in Pairs |-> IF job[p] = "queued" THEN "cancelled" ELSE job[p]]
    BY <1>3 DEF Advance, Discover, PrerequisitesFail, Collect, Abort, LeavePool, BeginUplinks,
                FinishUplinks, Report, WriteMarker, Return, Crash
  <2>2. QED
    BY <1>1, <2>1 DEF Linked
<1>4. CASE LinkedMain
  BY <1>1, <1>3, <1>4 DEF LinkedMain, LinkStep, vars
<1>5. ASSUME NEW p \in Pairs, PairStep(p) PROVE LinkDone \/ Linked' = Linked
  BY <1>1, <1>2, <1>5 DEF PairStep, EnsureFinds, EnsureCreates, vars
<1>6. CASE Faults
  BY <1>1, <1>2, <1>6 DEF Faults, CreateLost, WorkerStep, OperatorEdits, vars
<1>7. CASE Exited \/ UNCHANGED linkedVars
  BY <1>1, <1>7 DEF Exited, vars, linkedVars
<1>8. QED
  BY <1>4, <1>5, <1>6, <1>7 DEF LinkedNext

LEMMA ApartKept == RInv /\ LInv /\ Apart /\ [LinkedNext]_linkedVars => Apart'
<1> SUFFICES ASSUME RInv, LInv, Apart, [LinkedNext]_linkedVars PROVE Apart'
  OBVIOUS
<1>1. CASE LinkDone
  <2>1. /\ \A p \in Pairs : job'[p] = IF \E q \in Pairs \ {p} : Target(q) = Target(p)
                                      THEN "dropped" ELSE "queued"
        /\ \A q \in Pairs : answer[q] # "unread"
        /\ held' = held /\ answer' = answer
    BY <1>1 DEF LinkDone, LinkTo, siteVars
  <2>2. QED
    BY <2>1 DEF Apart, Linked, Clashing, Target
<1>2. CASE Linked' = Linked
  <2>1. ASSUME NEW p \in Linked PROVE held' = held /\ answer' = answer
    BY <2>1, Resolved DEF Apart
  <2>2. QED
    BY <1>2, <2>1 DEF Apart, Clashing, Target
<1>3. QED
  BY <1>1, <1>2, LinkedStays

\* ensure_site settles a pair on a site of its slug.
LEMMA SettledWell ==
  ASSUME RInv, LInv, SlugsTold, [LinkedNext]_linkedVars, NEW p \in Pairs, written'[p] # written[p]
  PROVE  /\ p \in Linked
         /\ edited' = {} => written'[p] \in Existing' /\ site'[written'[p]].slug = Target(p)
<1>1. CASE written' = written
  BY <1>1
<1>2. ASSUME NEW q \in Pairs, EnsureFinds(q) PROVE
        /\ q \in Linked
        /\ \A r \in Pairs \ {q} : written'[r] = written[r]
        /\ edited' = {} => written'[q] \in Existing' /\ site'[written'[q]].slug = Target(q)
  <2>1. PICK k \in Seen(Target(q)) : written' = [written EXCEPT ![q] = k.at]
    BY <1>2 DEF EnsureFinds
  <2>2. k.rec.slug = Target(q) /\ k \in memo \cup LiveCopies
    BY DEF Seen
  <2>3. k.at \in Existing
    BY SeenBacked DEF Backed, Copy, Existing
  <2>4. written' \in [Pairs -> SiteIds \cup {None}] /\ written'[q] = k.at
        /\ \A r \in Pairs \ {q} : written'[r] = written[r]
    BY <2>1, <2>3 DEF LInv, LinkTypeOK, Existing
  <2>5. UNCHANGED <<site, edited>>
    BY <1>2 DEF EnsureFinds
  <2>6. edited = {} => site[k.at].slug = Target(q)
    BY <2>2, LiveIsCurrent DEF SlugsTold
  <2>7. QED
    BY <1>2, <2>3, <2>4, <2>5, <2>6 DEF EnsureFinds, Unsettled, Linked, Existing
<1>3. ASSUME NEW q \in Pairs, NEW i \in SiteIds, EnsureCreates(q, i) PROVE
        /\ q \in Linked
        /\ \A r \in Pairs \ {q} : written'[r] = written[r]
        /\ written'[q] \in Existing' /\ site'[written'[q]].slug = Target(q)
  <2>1. written' = [written EXCEPT ![q] = i] /\ q \in Linked /\ i \notin Existing
        /\ site' = [site EXCEPT ![i] = NewSite(q)]
    BY <1>3 DEF EnsureCreates, Creates, Unsettled, Linked
  <2>2. written'[q] = i /\ \A r \in Pairs \ {q} : written'[r] = written[r]
    BY <2>1 DEF LInv, LinkTypeOK
  <2>3. site'[i] = NewSite(q)
    BY <2>1 DEF LInv, LinkTypeOK
  <2>4. NewSite(q).slug = Target(q)
    BY DEF NewSite
  <2>5. site'[i] # None
    <3>1. NewSite(q) \in Site
      BY TargetIsSlug, OwnersKnown, SiteAssumption DEF NewSite, NameFor, Site
    <3>2. QED
      BY <2>3, <3>1, SiteAssumption
  <2>6. QED
    BY <2>1, <2>2, <2>3, <2>4, <2>5 DEF Existing
<1>4. CASE LinkedMain
  BY <1>1, <1>4 DEF LinkedMain, LinkStep, LinkDone, siteVars, Resolve, NothingToRecord, Refuse, Withhold, Stamp
<1>5. ASSUME NEW q \in Pairs, PairStep(q), written' # written PROVE
        /\ q \in Linked
        /\ \A r \in Pairs \ {q} : written'[r] = written[r]
        /\ edited' = {} => written'[q] \in Existing' /\ site'[written'[q]].slug = Target(q)
  BY <1>2, <1>3, <1>5 DEF PairStep, siteVars
<1>6. CASE Faults
  BY <1>1, <1>6 DEF Faults, ResolveFails, StampFails, FilterFails, CreateLost, OperatorEdits
<1>7. CASE (Exited /\ UNCHANGED siteVars) \/ UNCHANGED linkedVars
  BY <1>1, <1>7 DEF siteVars, linkedVars
<1>8. CASE \E q \in Pairs : PairStep(q)
  <2>1. PICK q \in Pairs : PairStep(q)
    BY <1>8
  <2>2. CASE q = p
    BY <1>1, <1>5, <2>1, <2>2
  <2>3. CASE q # p
    BY <1>1, <1>5, <2>1, <2>3
  <2>4. QED
    BY <2>2, <2>3
<1>9. QED
  BY <1>4, <1>6, <1>7, <1>8 DEF LinkedNext

LEMMA WrittenKept == RInv /\ LInv /\ AInv /\ [LinkedNext]_linkedVars => WrittenAt'
<1> SUFFICES ASSUME RInv, LInv, AInv, [LinkedNext]_linkedVars, NEW p \in Pairs, written'[p] # None
             PROVE  /\ p \in Linked'
                    /\ edited' = {} => written'[p] \in Existing' /\ site'[written'[p]].slug = Target(p)'
  BY DEF WrittenAt
<1>1. p \in Linked
  BY SettledWell DEF AInv, WrittenAt
<1>2. p \in Linked' /\ Target(p)' = Target(p)
  <2>1. held' = held
    BY <1>1, Resolved DEF AInv, Apart
  <2>2. ~LinkDone
    BY <1>1 DEF LinkDone, LinkTo, RInv, Early, Linked
  <2>3. QED
    BY <1>1, <2>1, <2>2, LinkedStays DEF Target
<1>3. CASE written'[p] # written[p]
  BY <1>2, <1>3, SettledWell DEF AInv
<1>4. CASE written'[p] = written[p]
  BY <1>2, <1>4, NextKeepsSlugs DEF AInv, WrittenAt, SlugsStay
<1>5. QED
  BY <1>2, <1>3, <1>4

\* Whatever pairs were matched by, whatever lookups failed and whatever sites had
\* to be created: no two pairs write one site unless a person edits one meanwhile.
THEOREM NoTwoWriters == LinkedSpec => []NoSharedSite
<1>1. RInv /\ LInv /\ AInv /\ [LinkedNext]_linkedVars => AInv'
  BY ApartKept, ToldKept, WrittenKept DEF AInv
<1>2. AInv => NoSharedSite
  BY DEF AInv, Apart, WrittenAt, NoSharedSite, Clashing
<1>3. QED
  BY <1>1, <1>2, InitApart, LinkedIsSyncRun, RunInvariant, LinkInvariant, PTL DEF LinkedSpec

-------------------------------------------------------------------------------
(* No UniFi site is recorded on two NetBox sites.  A stamp writes the id of a *)
(* pair where no list of sites has it elsewhere, and lists, as stale as they   *)
(* may be, tell everything about pairs that are not judged; a site is created *)
(* only for a pair that was resolved to none, and nobody claims such a pair.  *)

\* A site has a pair in its id fields, or in its internal id.
Claims(i, p)  == p \in {site[i].id, site[i].nm}
Carries(i, p) == site[i].internal = p

Unique == \A p \in Pairs : \A i, j \in Existing :
            (Claims(i, p) /\ Claims(j, p)) \/ (Carries(i, p) /\ Carries(j, p)) => i = j

Clear == edited = {} /\ (policy = "create" => Sighted)

\* A list of sites tells who has the values of the pairs that are not judged yet.
KnownTells == edited = {} /\ known # {} =>
    \A q \in Pairs \ linked : \A i \in Existing : \A f \in Fields :
        site[i][f] = q => \E k \in known : k.at = i /\ k.rec[f] = q

AllJudged == Linked # {} => linked = Pairs
HeldTold  == edited = {} => \A p \in Pairs : held[p] # None => site[held[p].at].slug = held[p].rec.slug

\* A pair that is resolved to no site and has none yet.
Unfound(p)   == /\ answer[p] = "read" /\ held[p] = None /\ written[p] = None
                /\ job[p] \in {"unlinked", "queued", "syncing"}
Unclaimed(p) == \A i \in Existing : ~Claims(i, p) /\ (p \in Listed => ~Carries(i, p))
NobodyYet    == edited = {} /\ Sighted => \A p \in Pairs : Unfound(p) => Unclaimed(p)

VInv == (Clear => Unique) /\ KnownTells /\ AllJudged /\ HeldTold /\ NobodyYet

LEMMA InitSingle ==
  ASSUME LinkedInit, SingleOwners(site)
  PROVE  VInv
<1>1. Unique
  BY DEF SingleOwners, Rows, Unique, Claims, Carries, Existing
<1>2. KnownTells /\ AllJudged /\ HeldTold /\ NobodyYet
  BY DEF LinkedInit, Init, KnownTells, AllJudged, HeldTold, NobodyYet, Unfound, Linked
<1>3. QED
  BY <1>1, <1>2 DEF VInv

\* Edits, failed lookups and refused filters are not undone.
Onwards == /\ edited \subseteq edited' /\ linked \subseteq linked' /\ linked' \subseteq Pairs
           /\ Sighted' => Sighted
           /\ policy' = policy
           /\ budget' \in 0..budget

LEMMA NextOnwards == LInv /\ [LinkedNext]_linkedVars => Onwards
<1> SUFFICES ASSUME LInv, [LinkedNext]_linkedVars PROVE Onwards
  OBVIOUS
<1>0. budget \in 0..Budget /\ linked \subseteq Pairs /\ Budget \in Nat
  BY SiteAssumption DEF LInv, LinkTypeOK
<1>1. CASE UNCHANGED siteVars
  BY <1>0, <1>1 DEF siteVars, Onwards, Sighted
<1>2. ASSUME NEW p \in Pairs, Resolve(p) PROVE Onwards
  <2>1. \A q \in Pairs : answer'[q] # "failed" => answer[q] # "failed"
    BY <1>2 DEF Resolve, InTurn
  <2>2. QED
    BY <1>0, <1>2, <2>1 DEF Resolve, Onwards, Sighted
<1>3. ASSUME NEW p \in Pairs, ResolveFails(p) PROVE Onwards
  <2>1. \A q \in Pairs : answer'[q] # "failed" => answer[q] # "failed"
    BY <1>3 DEF ResolveFails, InTurn
  <2>2. QED
    BY <1>0, <1>3, <2>1 DEF ResolveFails, Onwards, Sighted
<1>4. ASSUME NEW f \in Fields, FilterFails(f) PROVE Onwards
  BY <1>0, <1>4 DEF FilterFails, Onwards, Sighted
<1>5. ASSUME NEW p \in Pairs,
             NothingToRecord(p) \/ Refuse(p) \/ Withhold(p) \/ Stamp(p) \/ StampFails(p)
      PROVE  Onwards
  BY <1>0, <1>5 DEF NothingToRecord, Refuse, Withhold, Stamp, StampFails, Mine, Judging, caches, Onwards, Sighted
<1>6. /\ \A p \in Pairs : EnsureFinds(p) => Onwards
      /\ \A p \in Pairs, i \in SiteIds : EnsureCreates(p, i) \/ CreateLost(p, i) => Onwards
  BY <1>0 DEF EnsureFinds, EnsureCreates, CreateLost, caches, Onwards, Sighted
<1>7. ASSUME NEW i \in SiteIds, OperatorEdits(i) PROVE Onwards
  BY <1>0, <1>7 DEF OperatorEdits, caches, Onwards, Sighted
<1>8. CASE LinkedMain
  BY <1>1, <1>2, <1>5, <1>8 DEF LinkedMain, LinkStep, LinkDone
<1>9. ASSUME NEW p \in Pairs, PairStep(p) PROVE Onwards
  BY <1>1, <1>6, <1>9 DEF PairStep
<1>10. CASE Faults
  BY <1>3, <1>4, <1>5, <1>6, <1>7, <1>10 DEF Faults
<1>11. QED
  BY <1>1, <1>8, <1>9, <1>10 DEF LinkedNext, linkedVars

\* What changes the table of sites without a person.
Stamps(p)      == /\ Mine(p) /\ ~Foreign(p) /\ ~Elsewhere(p) /\ Lacking(p) /\ site' = Saved(p)
                  /\ UNCHANGED <<answer, held, memo, edited, written, unusable, job>>
                  /\ known' = {} \/ known' = Looked(p)
Creation(p, i) == EnsureCreates(p, i) \/ CreateLost(p, i)

LEMMA SiteChanges ==
  ASSUME LInv, [LinkedNext]_linkedVars
  PROVE  \/ site' = site
         \/ \E p \in Pairs : Stamps(p)
         \/ \E p \in Pairs, i \in SiteIds : Creation(p, i)
         \/ edited' # {}
<1>1. CASE LinkedMain
  BY <1>1 DEF LinkedMain, LinkStep, LinkDone, siteVars, vars, Resolve, NothingToRecord, Refuse, Withhold, Stamp, Stamps
<1>2. ASSUME NEW p \in Pairs, PairStep(p), site' # site PROVE \E i \in SiteIds : EnsureCreates(p, i)
  BY <1>2 DEF PairStep, EnsureFinds, siteVars
<1>3. CASE Faults
  <2>1. ASSUME NEW p \in Pairs, StampFails(p), UNCHANGED vars PROVE site' = site \/ Stamps(p)
    BY <2>1 DEF StampFails, Stamps, vars
  <2>2. ASSUME NEW i \in SiteIds, OperatorEdits(i) PROVE edited' # {}
    BY <2>2 DEF OperatorEdits
  <2>3. QED
    BY <1>3, <2>1, <2>2 DEF Faults, ResolveFails, FilterFails, Creation
<1>4. CASE (Exited /\ UNCHANGED siteVars) \/ UNCHANGED linkedVars
  BY <1>4 DEF siteVars, linkedVars
<1>5. QED
  BY <1>1, <1>2, <1>3, <1>4 DEF LinkedNext, Creation

\* On a table that no person edits a stamp brings only its own pair's values,
\* and only to the site of its pair.
LEMMA StampsOwn ==
  ASSUME LInv, NEW p \in Pairs, Stamps(p), edited = {}
  PROVE  /\ Existing' = Existing
         /\ held[p] # None /\ held[p].at \in Existing /\ site[held[p].at] = held[p].rec
         /\ \A i \in Existing \ {held[p].at} : site'[i] = site[i]
         /\ \A f \in Fields : site'[held[p].at][f] = Fill(f, p)
<1>1. held[p] # None /\ p \notin linked
  BY DEF Stamps, Mine, Judging
<1>2. site[held[p].at] = held[p].rec /\ held[p].at \in Existing
  BY <1>1 DEF LInv, HeldBacked, Current, Backed, Existing, Copy
<1>3. \A i \in SiteIds : site'[i] # None <=> site[i] # None
  BY <1>1, <1>2, SavedSite DEF Stamps, Existing
<1>4. QED
  BY <1>1, <1>2, <1>3, SavedSite DEF Stamps, Existing

LEMMA StampsFill ==
  ASSUME LInv, NEW p \in Pairs, Stamps(p), edited = {}, NEW i \in Existing, NEW f \in Fields
  PROVE  \/ site'[i][f] = site[i][f]
         \/ i = held[p].at /\ site'[i][f] = p /\ Lacks(f, p)
<1>1. CASE i # held[p].at
  BY <1>1, StampsOwn
<1>2. CASE i = held[p].at
  <2>1. site'[i][f] = Fill(f, p) /\ site[i] = held[p].rec
    BY <1>2, StampsOwn
  <2>2. QED
    BY <1>2, <2>1 DEF Fill
<1>3. QED
  BY <1>1, <1>2

\* What a list misses nobody has, if the pair is not judged.
LEMMA ListingTells ==
  ASSUME LInv, KnownTells, edited = {}, NEW q \in Pairs \ linked,
         NEW i \in Existing, NEW f \in Fields, site[i][f] = q
  PROVE  \E k \in Listing : k.at = i /\ k.rec[f] = q
<1>1. CASE known = {}
  <2>1. [at |-> i, rec |-> site[i]] \in LiveCopies
    BY DEF LiveCopies
  <2>2. QED
    BY <1>1, <2>1 DEF Listing
<1>2. CASE known # {}
  BY <1>2 DEF KnownTells, Listing
<1>3. QED
  BY <1>1, <1>2

LEMMA StampedOnce ==
  ASSUME LInv, Unique, KnownTells, NEW p \in Pairs, Stamps(p), edited = {}
  PROVE  Unique'
<1>. PICK h \in Existing : h = held[p].at
  BY StampsOwn
<1>0. Existing' = Existing /\ h \in Existing /\ site[h] = held[p].rec /\ None \notin Pairs
      /\ p \notin linked /\ ~Foreign(p) /\ ~Elsewhere(p)
  BY StampsOwn, SiteAssumption DEF Stamps, Mine, Judging
<1>1. \A q \in Pairs \ {p}, i \in Existing : (Claims(i, q)' => Claims(i, q)) /\ (Carries(i, q)' => Carries(i, q))
  BY StampsFill DEF Claims, Carries, Fields
<1>2. \A i \in Existing \ {h} : (Claims(i, p)' => Claims(i, p)) /\ (Carries(i, p)' => Carries(i, p))
  BY StampsOwn DEF Claims, Carries
<1>3. ASSUME NEW i \in Existing \ {h}, Claims(i, p) PROVE ~Claims(h, p)'
  <2>1. ~Claims(h, p)
    BY <1>0, <1>3 DEF Unique
  <2>2. ~Lacks("id", p)
    <3>1. \E k \in Listing : k.at = i /\ p \in {k.rec.id, k.rec.nm}
      BY <1>0, <1>3, ListingTells DEF Claims, Fields
    <3>2. QED
      BY <1>0, <1>3, <3>1 DEF Elsewhere
  <2>3. held[p].rec.id # None
    BY <2>2 DEF Lacks
  <2>4. held[p].rec.id = p
    BY <1>0, <2>3 DEF Foreign
  <2>5. QED
    BY <1>0, <2>1, <2>4 DEF Claims
<1>4. ASSUME NEW i \in Existing \ {h}, Carries(i, p) PROVE ~Carries(h, p)'
  <2>1. ~Carries(h, p)
    BY <1>0, <1>4 DEF Unique
  <2>2. ~Lacks("internal", p)
    <3>1. \E k \in Listing : k.at = i /\ k.rec.internal = p
      BY <1>0, <1>4, ListingTells DEF Carries, Fields
    <3>2. QED
      BY <1>0, <1>4, <3>1 DEF Elsewhere
  <2>3. site'[h].internal = site[h].internal
    BY <1>0, <2>2, StampsFill DEF Fields
  <2>4. QED
    BY <2>1, <2>3 DEF Carries
<1>5. SUFFICES ASSUME NEW q \in Pairs, NEW i \in Existing, NEW j \in Existing,
                      (Claims(i, q)' /\ Claims(j, q)') \/ (Carries(i, q)' /\ Carries(j, q)')
               PROVE  i = j
  BY <1>0 DEF Unique
<1>6. CASE q # p
  BY <1>1, <1>5, <1>6 DEF Unique
<1>7. CASE q = p
  <2>1. CASE i = h \/ j = h
    BY <1>2, <1>3, <1>4, <1>5, <1>7, <2>1
  <2>2. CASE i # h /\ j # h
    <3>1. (Claims(i, p) /\ Claims(j, p)) \/ (Carries(i, p) /\ Carries(j, p))
      BY <1>2, <1>5, <1>7, <2>2
    <3>2. QED
      BY <3>1 DEF Unique
  <2>3. QED
    BY <2>1, <2>2
<1>8. QED
  BY <1>6, <1>7

\* Only pairs that were resolved to no site get a new one.
LEMMA CreatedUnclaimed ==
  ASSUME RInv, LInv, AInv, VInv, Clear, NEW p \in Pairs, NEW i \in SiteIds, Creates(p, i)
  PROVE  Unclaimed(p)
<1>1. edited = {} /\ Sighted /\ job[p] = "syncing" /\ written[p] = None /\ Seen(Target(p)) = {}
  BY DEF Clear, Creates, Unsettled
<1>2. answer[p] = "read"
  BY <1>1 DEF AInv, Apart, Linked, Sighted, LInv, LinkTypeOK
<1>3. held[p] = None
  <2>1. SUFFICES ASSUME held[p] # None PROVE FALSE
    OBVIOUS
  <2>2. held[p].at \in Existing /\ site[held[p].at].slug = Target(p)
    BY <1>1, <2>1 DEF LInv, HeldBacked, Backed, Copy, Existing, VInv, HeldTold, Target
  <2>3. [at |-> held[p].at, rec |-> site[held[p].at]] \in LiveCopies
    BY <2>2 DEF LiveCopies
  <2>4. QED
    BY <1>1, <2>2, <2>3 DEF Seen
<1>4. QED
  BY <1>1, <1>2, <1>3 DEF VInv, NobodyYet, Unfound

\* A new site has only its own pair's values.
LEMMA CreatedOwn ==
  ASSUME LInv, NEW p \in Pairs, NEW i \in SiteIds, Creation(p, i)
  PROVE  /\ Existing' = Existing \cup {i} /\ i \notin Existing
         /\ site'[i] = NewSite(p)
         /\ \A j \in Existing : site'[j] = site[j]
         /\ edited' = edited
<1>1. i \notin Existing /\ site' = [site EXCEPT ![i] = NewSite(p)] /\ edited' = edited
  BY DEF Creation, EnsureCreates, CreateLost, Creates
<1>2. NewSite(p) # None
  <2>1. NewSite(p) \in Site
    BY TargetIsSlug, OwnersKnown, SiteAssumption DEF NewSite, NameFor, Site
  <2>2. QED
    BY <2>1, SiteAssumption
<1>3. QED
  BY <1>1, <1>2 DEF Existing, LInv, LinkTypeOK

LEMMA CreatedOnce ==
  ASSUME LInv, Unique, NEW p \in Pairs, NEW i \in SiteIds, Creation(p, i), Unclaimed(p)
  PROVE  Unique'
<1>1. /\ Existing' = Existing \cup {i} /\ i \notin Existing /\ site'[i] = NewSite(p)
      /\ \A j \in Existing : site'[j] = site[j]
  BY CreatedOwn
<1>2. \A q \in Pairs : (Claims(i, q)' => q = p) /\ (Carries(i, q)' => q = p /\ p \in Listed)
  BY <1>1, SiteAssumption DEF Claims, Carries, NewSite
<1>3. \A q \in Pairs, j \in Existing : (Claims(j, q)' <=> Claims(j, q)) /\ (Carries(j, q)' <=> Carries(j, q))
  BY <1>1 DEF Claims, Carries
<1>4. QED
  BY <1>1, <1>2, <1>3 DEF Unique, Unclaimed

LEMMA KnownChanges ==
  ASSUME LInv, [LinkedNext]_linkedVars
  PROVE  known' \in {known, Listing, {}}
<1>1. ASSUME NEW p \in Pairs,
             Resolve(p) \/ ResolveFails(p) \/ NothingToRecord(p) \/ Refuse(p) \/ Withhold(p) \/ Stamp(p) \/ StampFails(p)
      PROVE  known' \in {known, Listing, {}}
  BY <1>1 DEF Resolve, ResolveFails, NothingToRecord, Refuse, Withhold, Stamp, StampFails, Looked, caches
<1>2. CASE LinkedMain
  BY <1>1, <1>2 DEF LinkedMain, LinkStep, LinkDone, siteVars
<1>3. ASSUME NEW p \in Pairs, PairStep(p) PROVE known' \in {known, Listing, {}}
  BY <1>3 DEF PairStep, EnsureFinds, EnsureCreates, siteVars
<1>4. CASE Faults
  BY <1>1, <1>4 DEF Faults, FilterFails, CreateLost, OperatorEdits, caches
<1>5. CASE UNCHANGED siteVars
  BY <1>5 DEF siteVars
<1>6. QED
  BY <1>2, <1>3, <1>4, <1>5 DEF LinkedNext, linkedVars

LEMMA KnownKept ==
  ASSUME LInv, KnownTells, AllJudged, [LinkedNext]_linkedVars
  PROVE  KnownTells'
<1>1. SUFFICES ASSUME edited' = {}, known' # {}, NEW q \in Pairs, q \notin linked',
                      NEW i \in Existing', NEW f \in Fields, site'[i][f] = q
               PROVE  \E k \in known' : k.at = i /\ k.rec[f] = q
  BY DEF KnownTells
<1>2. edited = {} /\ q \notin linked
  BY <1>1, NextOnwards DEF Onwards
<1>3. i \in Existing /\ site[i][f] = q
  <2>1. CASE site' = site
    BY <1>1, <2>1 DEF Existing
  <2>2. ASSUME NEW p \in Pairs, Stamps(p) PROVE i \in Existing /\ site[i][f] = q
    <3>1. q # p
      BY <1>1, <2>2 DEF Stamps, Mine, Judging
    <3>2. QED
      BY <1>1, <1>2, <2>2, <3>1, StampsFill, StampsOwn
  <2>3. ASSUME NEW p \in Pairs, NEW j \in SiteIds, Creation(p, j) PROVE FALSE
    BY <1>2, <2>3 DEF Creation, EnsureCreates, CreateLost, Creates, Unsettled, AllJudged, Linked
  <2>4. QED
    BY <1>1, <2>1, <2>2, <2>3, SiteChanges
<1>4. CASE known' = known
  BY <1>1, <1>2, <1>3, <1>4 DEF KnownTells
<1>5. CASE known' = Listing
  BY <1>2, <1>3, <1>5, ListingTells
<1>6. QED
  BY <1>1, <1>4, <1>5, KnownChanges

LEMMA JudgedKept ==
  ASSUME RInv, LInv, AllJudged, [LinkedNext]_linkedVars
  PROVE  AllJudged'
<1>1. linked \subseteq linked' /\ linked' \subseteq Pairs
  BY NextOnwards DEF Onwards
<1>2. CASE LinkDone
  BY <1>1, <1>2 DEF LinkDone, AllJudged
<1>3. CASE Linked' = Linked
  BY <1>1, <1>3 DEF AllJudged
<1>4. QED
  BY <1>2, <1>3, LinkedStays

\* What a pair is resolved to is what its own lookup found.
LEMMA HeldChanges ==
  ASSUME LInv, [LinkedNext]_linkedVars, NEW q \in Pairs, held'[q] # held[q] \/ (answer'[q] = "read" /\ answer[q] # "read")
  PROVE  Resolve(q)
<1>1. ASSUME NEW p \in Pairs, Resolve(p), p # q PROVE held'[q] = held[q] /\ answer'[q] = answer[q]
  <2>1. held' = held \/ \E k : held' = [held EXCEPT ![p] = k]
    BY <1>1 DEF Resolve
  <2>2. answer' = [answer EXCEPT ![p] = "read"]
    BY <1>1 DEF Resolve
  <2>3. QED
    BY <1>1, <2>1, <2>2 DEF LInv, LinkTypeOK
<1>2. ASSUME NEW p \in Pairs, ResolveFails(p) PROVE held' = held /\ (answer'[q] = "read" => answer[q] = "read")
  BY <1>2 DEF ResolveFails, LInv, LinkTypeOK
<1>3. ASSUME NEW p \in Pairs,
             NothingToRecord(p) \/ Refuse(p) \/ Withhold(p) \/ Stamp(p) \/ StampFails(p)
      PROVE  UNCHANGED <<held, answer>>
  BY <1>3 DEF NothingToRecord, Refuse, Withhold, Stamp, StampFails
<1>4. CASE LinkedMain
  BY <1>1, <1>3, <1>4 DEF LinkedMain, LinkStep, LinkDone, siteVars
<1>5. ASSUME NEW p \in Pairs, PairStep(p) PROVE UNCHANGED <<held, answer>>
  BY <1>5 DEF PairStep, EnsureFinds, EnsureCreates, siteVars
<1>6. CASE Faults
  BY <1>2, <1>3, <1>6 DEF Faults, FilterFails, CreateLost, OperatorEdits
<1>7. CASE UNCHANGED siteVars
  BY <1>7 DEF siteVars
<1>8. QED
  BY <1>4, <1>5, <1>6, <1>7 DEF LinkedNext, linkedVars

LEMMA HeldKept ==
  ASSUME LInv, SlugsTold, HeldTold, [LinkedNext]_linkedVars
  PROVE  HeldTold'
<1>1. SUFFICES ASSUME edited' = {}, NEW q \in Pairs, held'[q] # None
               PROVE  site'[held'[q].at].slug = held'[q].rec.slug
  BY DEF HeldTold
<1>2. edited = {} /\ \A i \in Existing : site'[i].slug = site[i].slug
  BY <1>1, NextKeepsSlugs DEF SlugsStay
<1>3. CASE held'[q] = held[q]
  <2>1. held[q].at \in Existing
    BY <1>1, <1>3 DEF LInv, HeldBacked, Backed, Copy, Existing
  <2>2. QED
    BY <1>1, <1>2, <1>3, <2>1 DEF HeldTold
<1>4. CASE held'[q] # held[q]
  <2>1. Resolve(q)
    BY <1>4, HeldChanges
  <2>2. held'[q] \in Identified(q) \cup Similar(q)
    BY <1>4, <2>1 DEF Resolve, LInv, LinkTypeOK
  <2>3. site[held'[q].at].slug = held'[q].rec.slug
    <3>1. held'[q] \in LiveCopies \cup memo \cup known
      BY <2>2 DEF Identified, Via, Carriers, Similar, Exact, Named, Folded, Seen, Listing
    <3>2. QED
      BY <1>2, <3>1, LiveIsCurrent DEF SlugsTold
  <2>4. QED
    BY <2>1, <2>3 DEF Resolve
<1>5. QED
  BY <1>3, <1>4

\* A field that may be asked for finds the only site that has the value.
LEMMA ViaFinds ==
  ASSUME LInv, Unique, NEW q \in Pairs, NEW f \in Fields, Askable(f, q),
         NEW i \in Existing, site[i][f] = q
  PROVE  Via(f, q) = {[at |-> i, rec |-> site[i]]}
<1>. DEFINE k0 == [at |-> i, rec |-> site[i]]
<1>1. k0 \in Carriers(f, q)
  BY DEF Carriers, LiveCopies
<1>2. ASSUME NEW k \in Carriers(f, q) PROVE k = k0
  <2>1. PICK j \in Existing : k = [at |-> j, rec |-> site[j]]
    BY <1>2 DEF Carriers, LiveCopies
  <2>2. site[j][f] = q
    BY <1>2, <2>1 DEF Carriers
  <2>3. i = j
    <3>1. CASE f = "internal"
      BY <2>2, <3>1 DEF Unique, Carries
    <3>2. CASE f \in {"id", "nm"}
      BY <2>2, <3>2 DEF Unique, Claims
    <3>3. QED
      BY <3>1, <3>2 DEF Fields
  <2>4. QED
    BY <2>1, <2>3
<1>3. Carriers(f, q) = {k0}
  BY <1>1, <1>2
<1>. HIDE DEF k0
<1>4. Cardinality(Carriers(f, q)) = 1
  BY <1>3, FS_Singleton
<1>5. Via(f, q) = {k0}
  BY <1>3, <1>4 DEF Via
<1>6. QED
  BY <1>5 DEF k0

\* A lookup that sees everything and finds nothing: nobody claims the pair.
LEMMA NothingFound ==
  ASSUME LInv, Unique, NEW q \in Pairs, unusable = {}, Identified(q) = {}
  PROVE  Unclaimed(q)
<1>1. Via("id", q) = {} /\ Via("nm", q) = {} /\ Via("internal", q) = {}
  BY DEF Identified
<1>2. Askable("id", q) /\ Askable("nm", q) /\ (q \in Listed => Askable("internal", q))
  BY DEF Askable
<1>3. \A f \in Fields, i \in Existing : Askable(f, q) /\ site[i][f] = q => Via(f, q) # {}
  BY ViaFinds
<1>4. QED
  BY <1>1, <1>2, <1>3 DEF Unclaimed, Claims, Carries, Fields

LEMMA UnfoundStays ==
  ASSUME RInv, LInv, [LinkedNext]_linkedVars, NEW q \in Pairs, Unfound(q)'
  PROVE  Unfound(q) \/ Resolve(q)
<1>1. SUFFICES ASSUME ~Resolve(q) PROVE Unfound(q)
  OBVIOUS
<1>2. held[q] = None /\ answer[q] = "read"
  BY <1>1, HeldChanges DEF Unfound
<1>3. written[q] = None
  <2>1. CASE written' = written
    BY <2>1 DEF Unfound
  <2>2. ASSUME NEW p \in Pairs, EnsureFinds(p) \/ \E i \in SiteIds : EnsureCreates(p, i)
        PROVE  \E i \in SiteIds : written' = [written EXCEPT ![p] = i]
    BY <2>2, SeenBacked DEF EnsureFinds, EnsureCreates, Backed, Copy
  <2>3. \A p \in Pairs, i \in SiteIds : written' = [written EXCEPT ![p] = i] => written[q] = None
    BY SiteAssumption DEF Unfound, LInv, LinkTypeOK
  <2>4. ASSUME NEW p \in Pairs,
               Resolve(p) \/ ResolveFails(p) \/ NothingToRecord(p) \/ Refuse(p) \/ Withhold(p) \/ Stamp(p) \/ StampFails(p)
        PROVE  written' = written
    BY <2>4 DEF Resolve, ResolveFails, NothingToRecord, Refuse, Withhold, Stamp, StampFails
  <2>5. CASE LinkedMain
    BY <2>1, <2>4, <2>5 DEF LinkedMain, LinkStep, LinkDone, siteVars
  <2>6. ASSUME NEW p \in Pairs, PairStep(p) PROVE written[q] = None
    BY <2>1, <2>2, <2>3, <2>6 DEF PairStep, siteVars
  <2>7. CASE Faults
    BY <2>1, <2>4, <2>7 DEF Faults, FilterFails, CreateLost, OperatorEdits
  <2>8. CASE UNCHANGED siteVars
    BY <2>1, <2>8 DEF siteVars
  <2>9. QED
    BY <2>5, <2>6, <2>7, <2>8 DEF LinkedNext, linkedVars
<1>4. job[q] \in {"unlinked", "queued", "syncing"}
  <2>1. CASE LinkDone
    BY <2>1 DEF LinkDone, LinkTo, RInv, Early
  <2>2. ASSUME NEW p \in Pairs, WorkerStep(p) PROVE job[q] \in {"unlinked", "queued", "syncing"}
    <3>1. PICK to \in {"syncing", "marking", "done", "failed", "raised"} :
            /\ job' = [job EXCEPT ![p] = to] /\ job[p] \in {"queued", "syncing", "marking"}
            /\ to = "syncing" => job[p] = "queued"
      BY <2>2 DEF WorkerStep, Take, SiteReturns, SiteRaises, MarkReturns, MarkRaises
    <3>2. QED
      BY <3>1 DEF Unfound, RInv, TypeOK
  <2>3. CASE Advance
    <3>1. job' = job \/ job' = [p \in Pairs |-> IF job[p] = "queued" THEN "cancelled" ELSE job[p]]
      BY <2>3 DEF Advance, Discover, PrerequisitesFail, Collect, Abort, LeavePool, BeginUplinks,
                  FinishUplinks, Report, WriteMarker, Return, Crash
    <3>2. QED
      BY <3>1 DEF Unfound, RInv, TypeOK
  <2>4. CASE job' = job
    BY <2>4 DEF Unfound
  <2>5. CASE LinkedMain
    BY <2>1, <2>3, <2>4, <2>5 DEF LinkedMain, LinkStep, vars
  <2>6. ASSUME NEW p \in Pairs, PairStep(p) PROVE job[q] \in {"unlinked", "queued", "syncing"}
    BY <2>2, <2>4, <2>6 DEF PairStep, EnsureFinds, EnsureCreates, vars
  <2>7. CASE Faults
    BY <2>2, <2>4, <2>7 DEF Faults, CreateLost, WorkerStep, OperatorEdits, vars
  <2>8. CASE Exited \/ UNCHANGED linkedVars
    BY <2>4, <2>8 DEF Exited, vars, linkedVars
  <2>9. QED
    BY <2>5, <2>6, <2>7, <2>8 DEF LinkedNext
<1>5. QED
  BY <1>2, <1>3, <1>4 DEF Unfound

LEMMA NobodyKept ==
  ASSUME RInv, LInv, VInv, [LinkedNext]_linkedVars
  PROVE  NobodyYet'
<1>1. SUFFICES ASSUME edited' = {}, Sighted', NEW q \in Pairs, Unfound(q)'
               PROVE  Unclaimed(q)'
  BY DEF NobodyYet
<1>2. edited = {} /\ Sighted /\ Unique
  BY <1>1, NextOnwards DEF Onwards, VInv, Clear
<1>3. CASE Unfound(q)
  <2>1. Unclaimed(q)
    BY <1>2, <1>3 DEF VInv, NobodyYet
  <2>2. CASE site' = site
    BY <2>1, <2>2 DEF Unclaimed, Claims, Carries, Existing
  <2>3. ASSUME NEW p \in Pairs, Stamps(p) PROVE Unclaimed(q)'
    <3>1. p # q /\ Existing' = Existing
      BY <1>2, <1>3, <2>3, StampsOwn DEF Unfound
    <3>2. \A i \in Existing, f \in Fields : site'[i][f] = q => site[i][f] = q
      BY <1>2, <2>3, <3>1, StampsFill
    <3>3. QED
      BY <2>1, <3>1, <3>2 DEF Unclaimed, Claims, Carries, Fields
  <2>4. ASSUME NEW p \in Pairs, NEW j \in SiteIds, Creation(p, j) PROVE Unclaimed(q)'
    <3>1. p # q
      <4>1. SUFFICES ASSUME p = q PROVE FALSE
        OBVIOUS
      <4>2. CASE EnsureCreates(q, j)
        <5>1. written'[q] = j /\ j # None
          BY <4>2, SiteAssumption DEF EnsureCreates, LInv, LinkTypeOK
        <5>2. QED
          BY <1>1, <5>1 DEF Unfound
      <4>3. CASE CreateLost(q, j)
        <5>1. job'[q] = "failed"
          BY <4>3 DEF CreateLost, SiteRaises, RInv, TypeOK
        <5>2. QED
          BY <1>1, <5>1 DEF Unfound
      <4>4. QED
        BY <2>4, <4>1, <4>2, <4>3 DEF Creation
    <3>2. /\ Existing' = Existing \cup {j} /\ site'[j] = NewSite(p)
          /\ \A i \in Existing : site'[i] = site[i]
      BY <2>4, CreatedOwn
    <3>3. ~Claims(j, q)' /\ ~Carries(j, q)'
      BY <3>1, <3>2, SiteAssumption DEF Claims, Carries, NewSite
    <3>4. QED
      BY <2>1, <3>2, <3>3 DEF Unclaimed, Claims, Carries
  <2>5. QED
    BY <1>1, <2>2, <2>3, <2>4, SiteChanges
<1>4. CASE Resolve(q)
  <2>1. unusable = {} /\ site' = site
    BY <1>2, <1>4 DEF Sighted, Resolve
  <2>2. Identified(q) = {}
    <3>1. SUFFICES ASSUME Identified(q) # {} PROVE FALSE
      OBVIOUS
    <3>2. PICK k \in Identified(q) : held' = [held EXCEPT ![q] = k]
      BY <1>4, <3>1 DEF Resolve
    <3>3. held'[q] = k /\ k # None
      BY <3>2, HitsBacked, SiteAssumption DEF Backed, LInv, LinkTypeOK
    <3>4. QED
      BY <1>1, <3>3 DEF Unfound
  <2>3. Unclaimed(q)
    BY <1>2, <2>1, <2>2, NothingFound
  <2>4. QED
    BY <2>1, <2>3 DEF Unclaimed, Claims, Carries, Existing
<1>5. QED
  BY <1>1, <1>3, <1>4, UnfoundStays

LEMMA UniqueKept ==
  ASSUME RInv, LInv, AInv, VInv, [LinkedNext]_linkedVars, Clear'
  PROVE  Unique'
<1>1. edited' = {} /\ edited = {} /\ Clear /\ Unique /\ KnownTells
  BY NextOnwards DEF Onwards, Clear, VInv
<1>2. CASE site' = site
  BY <1>1, <1>2 DEF Unique, Claims, Carries, Existing
<1>3. ASSUME NEW p \in Pairs, Stamps(p) PROVE Unique'
  BY <1>1, <1>3, StampedOnce
<1>4. ASSUME NEW p \in Pairs, NEW i \in SiteIds, Creation(p, i) PROVE Unique'
  <2>1. Creates(p, i)
    BY <1>4 DEF Creation, EnsureCreates, CreateLost
  <2>2. QED
    BY <1>1, <1>4, <2>1, CreatedUnclaimed, CreatedOnce
<1>5. QED
  BY <1>1, <1>2, <1>3, <1>4, SiteChanges

\* No two sites have the value of one pair in one field, on any tables without
\* such a pair to begin with.
THEOREM OneSitePerOwner ==
  ASSUME \A table \in InitialSites : SingleOwners(table)
  PROVE  LinkedSpec => []ValueOnOneSite
<1>1. LinkedInit => VInv
  BY InitSingle DEF LinkedInit
<1>2. RInv /\ LInv /\ AInv /\ VInv /\ [LinkedNext]_linkedVars => VInv'
  BY UniqueKept, KnownKept, JudgedKept, HeldKept, NobodyKept DEF VInv, AInv
<1>3. RInv /\ LInv /\ AInv /\ [LinkedNext]_linkedVars => AInv'
  BY ApartKept, ToldKept, WrittenKept DEF AInv
<1>4. LInv /\ VInv => ValueOnOneSite
  <2>1. SUFFICES ASSUME LInv, VInv, Clear, NEW p \in Pairs, NEW f \in Fields
                 PROVE  Cardinality(Carriers(f, p)) <= 1
    BY DEF ValueOnOneSite, Clear
  <2>2. CASE Carriers(f, p) = {}
    BY <2>2, FS_EmptySet
  <2>3. CASE Carriers(f, p) # {}
    <3>1. PICK k \in Carriers(f, p) : TRUE
      BY <2>3
    <3>2. ASSUME NEW l \in Carriers(f, p) PROVE l = k
      <4>1. PICK i \in Existing : k = [at |-> i, rec |-> site[i]] /\ site[i][f] = p
        BY DEF Carriers, LiveCopies
      <4>2. PICK j \in Existing : l = [at |-> j, rec |-> site[j]] /\ site[j][f] = p
        BY <3>2 DEF Carriers, LiveCopies
      <4>3. i = j
        BY <2>1, <4>1, <4>2 DEF VInv, Unique, Claims, Carries, Fields
      <4>4. QED
        BY <4>1, <4>2, <4>3
    <3>3. Carriers(f, p) = {k}
      BY <3>2
    <3>4. Cardinality({k}) = 1
      BY FS_Singleton
    <3>5. QED
      BY <3>3, <3>4
  <2>4. QED
    BY <2>2, <2>3
<1>5. QED
  BY <1>1, <1>2, <1>3, <1>4, InitApart, LinkedIsSyncRun, RunInvariant, LinkInvariant, PTL DEF LinkedSpec

-------------------------------------------------------------------------------
(* After a run that reports success and met no fault, the identity fields of  *)
(* each pair lead to the site it was synced to.  A pair resolved to a site is *)
(* stamped there, or has its internal id there already; a pair resolved to    *)
(* none finds no site of its slug either, and creates one.                    *)

Untouched == budget = Budget
FaultFree == Untouched => edited = {} /\ Sighted

\* The table is as it was at the start until the last pair is resolved.
StillOrderly == Untouched => OwnSlugs(site) /\ (Reading => NoneForeign(site))

\* A listed site still has the values it was listed with.
KnownKeeps == edited = {} => \A k \in known : \A f \in Fields : k.rec[f] # None => site[k.at][f] = k.rec[f]

JudgedAfter == linked # {} => ~Reading
RefusedTold == Linked # {} => refused \subseteq errors

\* The field by which a pair is looked up first leads to the site.
Owned(i, p) == IF p \in Listed THEN Carries(i, p) ELSE site[i].id = p

\* No other site has the pair, and none its internal id.
Only(i, p)  == /\ p \in Listed => \A j \in Existing : ~Carries(j, p)
               /\ \A j \in Existing : Claims(j, p) => j = i

HeldRightly == Untouched => \A p \in Pairs \ linked : held[p] # None =>
                 (p \in Listed /\ Carries(held[p].at, p)) \/ Only(held[p].at, p)
Established == Untouched => \A p \in linked \ refused : held[p] # None /\ ~Clashing(p) => Owned(held[p].at, p)
FreeSlug    == Untouched => \A p \in Pairs : Unfound(p) => \A i \in Existing : site[i].slug # Desired[p]
Founded     == Untouched => \A p \in Pairs : written[p] # None /\ held[p] = None => Owned(written[p], p)

\* Every group that returned has settled on a site.
Wrote    == \A p \in Pairs : job[p] \in {"marking", "done"} => written[p] # None
Finished == exit = "ok" => errors = {} /\ \A p \in Pairs : job[p] = "done"

EInv == /\ FaultFree /\ StillOrderly /\ KnownKeeps /\ JudgedAfter /\ RefusedTold
        /\ HeldRightly /\ Established /\ FreeSlug /\ Founded /\ Wrote /\ Finished

LEMMA InitEstablished ==
  ASSUME LinkedInit, OwnSlugs(site), NoneForeign(site)
  PROVE  EInv
<1>1. FaultFree /\ StillOrderly /\ KnownKeeps /\ JudgedAfter /\ RefusedTold
  BY DEF LinkedInit, Init, FaultFree, Sighted, StillOrderly, KnownKeeps, JudgedAfter, RefusedTold, Linked
<1>2. HeldRightly /\ Established /\ FreeSlug /\ Founded /\ Wrote /\ Finished
  BY DEF LinkedInit, Init, HeldRightly, Established, FreeSlug, Founded, Wrote, Finished, Unfound
<1>3. QED
  BY <1>1, <1>2 DEF EInv

\* Every fault takes from the budget, and what is taken is not given back.
LEMMA FaultsCost ==
  ASSUME LInv, [LinkedNext]_linkedVars, Untouched'
  PROVE  Untouched /\ ~Faults
<1>1. budget \in 0..Budget /\ Budget \in Nat
  BY SiteAssumption DEF LInv, LinkTypeOK
<1>2. Untouched
  BY <1>1, NextOnwards DEF Onwards, Untouched
<1>3. Faults => budget' = budget - 1
  BY DEF Faults, ResolveFails, StampFails, FilterFails, CreateLost, OperatorEdits
<1>4. QED
  BY <1>1, <1>2, <1>3 DEF Untouched

\* The steps that leave sites, caches and resolutions alone.
Apace == UNCHANGED <<site, policy, answer, held, unusable, edited, refused>>

LEMMA StepsWithoutFaults ==
  ASSUME LInv, [LinkedNext]_linkedVars, ~Faults
  PROVE  \/ \E p \in Pairs : Resolve(p) /\ UNCHANGED vars
         \/ \E p \in Pairs : (NothingToRecord(p) \/ Refuse(p) \/ Withhold(p) \/ Stamp(p)) /\ UNCHANGED vars
         \/ \E p \in Pairs : EnsureFinds(p) \/ \E i \in SiteIds : EnsureCreates(p, i)
         \/ UNCHANGED siteVars
BY DEF LinkedNext, LinkedMain, LinkStep, LinkDone, PairStep, linkedVars

LEMMA FaultFreeKept ==
  ASSUME LInv, FaultFree, [LinkedNext]_linkedVars
  PROVE  FaultFree'
<1>1. SUFFICES ASSUME Untouched' PROVE edited' = {} /\ Sighted'
  BY DEF FaultFree
<1>2. Untouched /\ ~Faults /\ edited = {} /\ Sighted
  BY <1>1, FaultsCost DEF FaultFree
<1>3. ASSUME NEW p \in Pairs, Resolve(p) PROVE edited' = {} /\ Sighted'
  <2>1. \A q \in Pairs : answer'[q] \in {answer[q], "read"}
    BY <1>3 DEF Resolve, LInv, LinkTypeOK
  <2>2. QED
    BY <1>2, <1>3, <2>1 DEF Resolve, Sighted
<1>4. ASSUME NEW p \in Pairs, NothingToRecord(p) \/ Refuse(p) \/ Withhold(p) \/ Stamp(p)
      PROVE  UNCHANGED <<edited, unusable, answer>>
  BY <1>4 DEF NothingToRecord, Refuse, Withhold, Stamp, caches
<1>5. ASSUME NEW p \in Pairs, EnsureFinds(p) \/ \E i \in SiteIds : EnsureCreates(p, i)
      PROVE  UNCHANGED <<edited, unusable, answer>>
  BY <1>5 DEF EnsureFinds, EnsureCreates
<1>6. CASE UNCHANGED <<edited, unusable, answer>>
  BY <1>2, <1>6 DEF Sighted
<1>7. QED
  BY <1>2, <1>3, <1>4, <1>5, <1>6, StepsWithoutFaults DEF siteVars

LEMMA OrderKept ==
  ASSUME RInv, LInv, AInv, VInv, FaultFree, StillOrderly, [LinkedNext]_linkedVars
  PROVE  StillOrderly'
<1>1. SUFFICES ASSUME Untouched' PROVE OwnSlugs(site') /\ (Reading' => NoneForeign(site'))
  BY DEF StillOrderly
<1>2. Untouched /\ edited = {} /\ edited' = {} /\ OwnSlugs(site)
  BY <1>1, FaultsCost, FaultFreeKept DEF FaultFree, StillOrderly
<1>3. Reading' => Reading
  <2>1. \A q \in Pairs : answer'[q] = "unread" => answer[q] = "unread"
    <3>1. CASE UNCHANGED answer
      BY <3>1
    <3>2. ASSUME NEW p \in Pairs, Resolve(p) PROVE \A q \in Pairs : answer'[q] = "unread" => answer[q] = "unread"
      BY <3>2 DEF Resolve, LInv, LinkTypeOK
    <3>3. QED
      BY <1>1, <3>1, <3>2, FaultsCost, StepsWithoutFaults
         DEF NothingToRecord, Refuse, Withhold, Stamp, EnsureFinds, EnsureCreates, siteVars
  <2>2. QED
    BY <2>1 DEF Reading
<1>4. CASE site' = site
  BY <1>1, <1>2, <1>3, <1>4 DEF StillOrderly
<1>5. ASSUME NEW p \in Pairs, Stamps(p) PROVE OwnSlugs(site') /\ ~Reading'
  <2>1. Existing' = Existing /\ \A i \in Existing : site'[i].slug = site[i].slug
    BY <1>2, <1>5, StampsOwn, NextKeepsSlugs DEF SlugsStay
  <2>2. ~Reading'
    BY <1>3, <1>5 DEF Stamps, Mine, Judging, Reading
  <2>3. QED
    BY <1>2, <2>1, <2>2 DEF OwnSlugs, Rows, Existing
<1>6. ASSUME NEW p \in Pairs, NEW i \in SiteIds, Creation(p, i) PROVE OwnSlugs(site') /\ ~Reading'
  <2>1. /\ Existing' = Existing \cup {i} /\ i \notin Existing /\ site'[i] = NewSite(p)
        /\ \A j \in Existing : site'[j] = site[j]
    BY <1>6, CreatedOwn
  <2>2. Seen(Target(p)) = {} /\ job[p] = "syncing"
    BY <1>6 DEF Creation, EnsureCreates, CreateLost, Creates, Unsettled
  <2>3. \A j \in Existing : site[j].slug # Target(p)
    <3>1. \A k \in LiveCopies : k.rec.slug # Target(p)
      BY <2>2 DEF Seen
    <3>2. ASSUME NEW j \in Existing PROVE \E k \in LiveCopies : k.rec = site[j]
      <4>1. [at |-> j, rec |-> site[j]] \in LiveCopies
        BY DEF LiveCopies
      <4>2. QED
        BY <4>1
    <3>3. QED
      BY <3>1, <3>2
  <2>4. ~Reading
    BY <2>2 DEF AInv, Apart, Linked, Reading
  <2>5. NewSite(p).slug = Target(p)
    BY DEF NewSite
  <2>6. OwnSlugs(site')
    BY <1>2, <2>1, <2>3, <2>5 DEF OwnSlugs, Rows, Existing
  <2>7. QED
    BY <1>3, <2>4, <2>6
<1>7. QED
  BY <1>2, <1>4, <1>5, <1>6, SiteChanges

LEMMA KeepsKept ==
  ASSUME LInv, KnownKeeps, [LinkedNext]_linkedVars
  PROVE  KnownKeeps'
<1>1. SUFFICES ASSUME edited' = {}, NEW k \in known', NEW f \in Fields, k.rec[f] # None
               PROVE  site'[k.at][f] = k.rec[f]
  BY DEF KnownKeeps
<1>2. edited = {}
  BY <1>1, NextOnwards DEF Onwards
<1>3. k \in known \cup LiveCopies
  BY <1>1, KnownChanges DEF Listing
<1>4. k.at \in SiteIds /\ site[k.at] # None /\ site[k.at][f] = k.rec[f]
  BY <1>1, <1>2, <1>3, LiveIsCurrent DEF KnownKeeps, LInv, CachesBacked, Backed, Copy
<1>5. QED
  BY <1>1, <1>4, NextFills DEF IdentityStep

LEMMA AfterKept ==
  ASSUME LInv, JudgedAfter, [LinkedNext]_linkedVars
  PROVE  JudgedAfter'
<1>1. CASE linked = {}
  <2>1. SUFFICES ASSUME linked' # linked PROVE ~Reading'
    BY <1>1 DEF JudgedAfter
  <2>2. \E p \in Pairs : Judging(p) /\ answer' = answer
    BY <2>1 DEF LinkedNext, LinkedMain, LinkStep, LinkDone, PairStep, Faults, Resolve, ResolveFails, NothingToRecord,
         Refuse, Withhold, Stamp, StampFails, Mine, FilterFails, EnsureFinds, EnsureCreates, CreateLost, OperatorEdits,
         siteVars, linkedVars
  <2>3. QED
    BY <2>2 DEF Judging, Reading
<1>2. CASE linked # {}
  BY <1>2, Resolved DEF JudgedAfter, Reading
<1>3. QED
  BY <1>1, <1>2

LEMMA ReportKept ==
  ASSUME RInv, LInv, RefusedTold, [LinkedNext]_linkedVars
  PROVE  RefusedTold'
<1>1. CASE LinkDone
  BY <1>1 DEF LinkDone, LinkTo, siteVars, RefusedTold
<1>2. CASE ~LinkDone /\ Linked # {}
  <2>1. stage # "link"
    BY <1>2 DEF RInv, Early, Linked
  <2>2. refused' = refused
    BY <2>1 DEF LinkedNext, LinkedMain, LinkStep, LinkDone, PairStep, Faults, Resolve, ResolveFails, NothingToRecord,
         Refuse, Withhold, Stamp, StampFails, Mine, Judging, InTurn, FilterFails, EnsureFinds, EnsureCreates, CreateLost,
         OperatorEdits, siteVars, linkedVars
  <2>3. errors \subseteq errors'
    <3>1. Next \/ UNCHANGED vars
      BY StepsRefine
    <3>2. ~Link
      BY <2>1 DEF Link, LinkTo
    <3>3. QED
      BY <3>1, <3>2 DEF Next, MainStep, Advance, Discover, PrerequisitesFail, Collect, Abort, LeavePool, BeginUplinks,
           FinishUplinks, Report, WriteMarker, Return, Crash, WorkerStep, Take, SiteReturns, SiteRaises, MarkReturns,
           MarkRaises, Exited, vars, report
  <2>4. QED
    BY <1>2, <2>2, <2>3 DEF RefusedTold
<1>3. CASE ~LinkDone /\ Linked = {}
  BY <1>3, LinkedStays DEF RefusedTold
<1>4. QED
  BY <1>1, <1>2, <1>3

LEMMA FinishedKept ==
  ASSUME RInv, LInv, Finished, [LinkedNext]_linkedVars
  PROVE  Finished'
<1>1. Next \/ UNCHANGED vars
  BY StepsRefine
<1>2. SUFFICES ASSUME exit' = "ok" PROVE errors' = {} /\ \A p \in Pairs : job'[p] = "done"
  BY DEF Finished
<1>3. CASE Return
  <2>1. next = PairCount + 1 /\ errors = {} /\ UNCHANGED <<job, errors>>
    BY <1>2, <1>3 DEF Return, report, RInv, PastPool
  <2>2. \A p \in Pairs : job[p] \in Collected /\ job[p] \notin {"dropped", "failed"}
    BY <2>1, RunAssumption DEF RInv, Behind, Reported, Pairs
  <2>3. QED
    BY <2>1, <2>2 DEF Collected
<1>4. CASE ~Return
  <2>1. exit = "ok"
    BY <1>1, <1>2, <1>4 DEF Next, MainStep, Link, LinkTo, Advance, Discover, PrerequisitesFail, Collect, Abort, LeavePool,
         BeginUplinks, FinishUplinks, Report, WriteMarker, Crash, WorkerStep, Take, SiteReturns, SiteRaises, MarkReturns,
         MarkRaises, Exited, vars
  <2>2. stage = "exited" /\ errors = {} /\ \A p \in Pairs : job[p] = "done"
    BY <2>1 DEF RInv, ExitKnown, Finished
  <2>3. UNCHANGED <<job, errors>>
    BY <1>1, <1>4, <2>2 DEF Next, MainStep, Link, LinkTo, Advance, Discover, PrerequisitesFail, Collect, Abort, LeavePool,
         BeginUplinks, FinishUplinks, Report, WriteMarker, Crash, WorkerStep, Take, SiteReturns, SiteRaises, MarkReturns,
         MarkRaises, Exited, vars
  <2>4. QED
    BY <2>2, <2>3
<1>5. QED
  BY <1>3, <1>4

\* A stamp changes nothing about the values of other pairs.
LEMMA StampsApart ==
  ASSUME LInv, NEW p \in Pairs, Stamps(p), edited = {}, NEW q \in Pairs \ {p},
         NEW i \in Existing, NEW f \in Fields
  PROVE  site'[i][f] = q <=> site[i][f] = q
<1>1. CASE site'[i][f] = site[i][f]
  BY <1>1
<1>2. CASE i = held[p].at /\ site'[i][f] = p /\ Lacks(f, p)
  BY <1>2, StampsOwn, SiteAssumption DEF Lacks
<1>3. QED
  BY <1>1, <1>2, StampsFill

\* What a lookup that sees everything resolves a pair to.
LEMMA FoundRightly ==
  ASSUME LInv, Unique, NEW p \in Pairs, Sighted, Reading, edited = {},
         NEW k, k \in IF Identified(p) # {} THEN Identified(p) ELSE Similar(p)
  PROVE  (p \in Listed /\ Carries(k.at, p)) \/ Only(k.at, p)
<1>1. unusable = {}
  BY DEF Sighted
<1>2. \A f \in Fields : Askable(f, p) <=> (f = "internal" => p \in Listed)
  BY <1>1 DEF Askable
<1>3. \A f \in Fields : \A l \in Via(f, p) : Askable(f, p) /\ l.at \in Existing /\ site[l.at][f] = p
  BY LiveIsCurrent DEF Via, Carriers, Existing, Copy
<1>4. \A f \in Fields, i \in Existing : Askable(f, p) /\ site[i][f] = p => Via(f, p) # {}
  BY ViaFinds
<1>5. CASE Via("internal", p) # {}
  BY <1>2, <1>3, <1>5 DEF Identified, Carries, Fields
<1>6. CASE Via("internal", p) = {} /\ Identified(p) # {}
  <2>1. k \in Via("id", p) \cup Via("nm", p)
    BY <1>6 DEF Identified
  <2>2. Claims(k.at, p) /\ k.at \in Existing
    BY <1>3, <2>1 DEF Claims, Fields
  <2>3. \A j \in Existing : Claims(j, p) => j = k.at
    BY <2>2 DEF Unique
  <2>4. p \in Listed => \A j \in Existing : ~Carries(j, p)
    BY <1>2, <1>4, <1>6 DEF Carries, Fields
  <2>5. QED
    BY <2>3, <2>4 DEF Only
<1>7. CASE Identified(p) = {}
  <2>1. Unclaimed(p)
    BY <1>1, <1>7, NothingFound
  <2>2. QED
    BY <2>1 DEF Unclaimed, Only
<1>8. QED
  BY <1>5, <1>6, <1>7

LEMMA RightlyKept ==
  ASSUME LInv, VInv, FaultFree, HeldRightly, [LinkedNext]_linkedVars
  PROVE  HeldRightly'
<1>1. SUFFICES ASSUME Untouched', NEW p \in Pairs, p \notin linked', held'[p] # None
               PROVE  (p \in Listed /\ Carries(held[p].at, p)') \/ Only(held[p].at, p)'
  BY DEF HeldRightly
<1>2. Untouched /\ edited = {} /\ edited' = {} /\ Sighted /\ p \notin linked /\ Unique
  BY <1>1, FaultsCost, FaultFreeKept, NextOnwards DEF FaultFree, Onwards, VInv, Clear
<1>3. CASE held'[p] # held[p]
  <2>1. Resolve(p)
    BY <1>3, HeldChanges
  <2>2. held'[p] \in IF Identified(p) # {} THEN Identified(p) ELSE Similar(p)
    BY <1>3, <2>1 DEF Resolve, LInv, LinkTypeOK
  <2>3. Reading /\ site' = site
    BY <2>1 DEF Resolve, InTurn, Reading
  <2>4. (p \in Listed /\ Carries(held'[p].at, p)) \/ Only(held'[p].at, p)
    BY <1>2, <2>2, <2>3, FoundRightly
  <2>5. QED
    BY <2>3, <2>4 DEF Carries, Claims, Only, Existing
<1>4. CASE held'[p] = held[p]
  <2>. PICK h : h = held[p].at
    OBVIOUS
  <2>1. (p \in Listed /\ Carries(h, p)) \/ Only(h, p)
    BY <1>1, <1>2, <1>4 DEF HeldRightly
  <2>2. h \in Existing
    BY <1>1, <1>4 DEF LInv, HeldBacked, Backed, Copy, Existing
  <2>3. CASE site' = site
    BY <1>4, <2>1, <2>3 DEF Carries, Claims, Only, Existing
  <2>4. ASSUME NEW r \in Pairs, Stamps(r)
        PROVE  (p \in Listed /\ Carries(held[p].at, p)') \/ Only(held[p].at, p)'
    <3>1. r # p /\ Existing' = Existing
      BY <1>1, <1>2, <2>4, StampsOwn DEF Stamps, Mine, Judging
    <3>2. \A i \in Existing : (Carries(i, p)' <=> Carries(i, p)) /\ (Claims(i, p)' <=> Claims(i, p))
      BY <1>2, <2>4, <3>1, StampsApart DEF Carries, Claims, Fields
    <3>3. QED
      BY <1>4, <2>1, <2>2, <3>1, <3>2 DEF Only
  <2>5. ASSUME NEW r \in Pairs, NEW j \in SiteIds, Creation(r, j) PROVE FALSE
    BY <1>2, <2>5 DEF Creation, EnsureCreates, CreateLost, Creates, Unsettled, VInv, AllJudged, Linked
  <2>6. QED
    BY <1>2, <2>3, <2>4, <2>5, SiteChanges
<1>5. QED
  BY <1>3, <1>4

\* What a site is found by is not lost to it.
LEMMA OwnedStays ==
  ASSUME LInv, [LinkedNext]_linkedVars, edited' = {}, NEW p \in Pairs, NEW i \in Existing, Owned(i, p)
  PROVE  Owned(i, p)'
<1>1. IdentityStep /\ i \in SiteIds /\ site[i] # None /\ p # None
  BY NextFills, SiteAssumption DEF Existing
<1>2. QED
  BY <1>1 DEF IdentityStep, Owned, Carries, Fields

\* A judged pair is refused, found by its first field, or stamped with it.
LEMMA JudgedWell ==
  ASSUME LInv, ~DryRun, KnownKeeps, edited = {}, NEW p \in Pairs, held[p] # None, ~Clashing(p),
         (p \in Listed /\ Carries(held[p].at, p)) \/ Only(held[p].at, p),
         NothingToRecord(p) \/ Withhold(p) \/ Stamp(p)
  PROVE  Owned(held[p].at, p)'
<1>. PICK h : h = held[p].at
  OBVIOUS
<1>1. held' = held /\ p \notin linked /\ h \in Existing /\ site[h] = held[p].rec /\ ~Foreign(p)
  BY DEF NothingToRecord, Withhold, Stamp, Mine, Judging, LInv, HeldBacked, Backed, Current, Copy, Existing
<1>2. CASE NothingToRecord(p)
  <2>1. \A f \in Fields : ~Lacks(f, p)
    BY <1>2 DEF NothingToRecord, Lacking
  <2>2. IF p \in Listed THEN held[p].rec.internal = p ELSE held[p].rec.id = p
    BY <1>1, <2>1 DEF Lacks, Foreign, Fields
  <2>3. Owned(h, p)
    BY <1>1, <2>2 DEF Owned, Carries
  <2>4. QED
    BY <1>1, <1>2, <2>3 DEF NothingToRecord, Owned, Carries
<1>3. CASE Withhold(p)
  <2>1. CASE p \in Listed /\ Carries(h, p)
    BY <1>1, <1>3, <2>1 DEF Withhold, Owned, Carries
  <2>2. CASE Only(h, p)
    <3>1. PICK k \in Listing : /\ k.at # h
                               /\ \/ Lacks("id", p) /\ p \in {k.rec.id, k.rec.nm}
                                  \/ Lacks("internal", p) /\ k.rec.internal = p
      BY <1>3 DEF Withhold, Elsewhere
    <3>2. k.at \in Existing /\ \A f \in Fields : k.rec[f] # None => site[k.at][f] = k.rec[f]
      BY LiveIsCurrent, ListingBacked DEF KnownKeeps, Listing, Backed, Copy, Existing
    <3>3. p # None
      BY SiteAssumption
    <3>4. Claims(k.at, p) \/ (p \in Listed /\ Carries(k.at, p))
      BY <3>1, <3>2, <3>3 DEF Claims, Carries, Fields, Lacks
    <3>5. QED
      BY <2>2, <3>1, <3>2, <3>4 DEF Only
  <2>3. QED
    BY <2>1, <2>2
<1>4. CASE Stamp(p)
  <2>1. \A f \in Fields : site'[h][f] = Fill(f, p)
    BY <1>4, SavedSite DEF Stamp
  <2>2. IF p \in Listed THEN Fill("internal", p) = p ELSE Fill("id", p) = p
    BY <1>1 DEF Fill, Lacks, Foreign
  <2>3. QED
    BY <1>1, <2>1, <2>2 DEF Owned, Carries, Fields
<1>5. QED
  BY <1>2, <1>3, <1>4

LEMMA EstablishedKept ==
  ASSUME LInv, ~DryRun, FaultFree, KnownKeeps, JudgedAfter, HeldRightly, Established, [LinkedNext]_linkedVars
  PROVE  Established'
<1>1. SUFFICES ASSUME Untouched', NEW p \in Pairs, p \in linked', p \notin refused', held'[p] # None, ~Clashing(p)'
               PROVE  Owned(held[p].at, p)'
  BY NextOnwards DEF Established, Onwards
<1>2. Untouched /\ ~Faults /\ edited = {} /\ edited' = {}
  BY <1>1, FaultsCost, FaultFreeKept DEF FaultFree
<1>3. ~Reading'
  BY <1>1, AfterKept DEF JudgedAfter
<1>4. CASE p \in linked
  <2>1. held' = held
    BY <1>4, Resolved DEF JudgedAfter, Reading
  <2>2. ~Clashing(p)
    BY <1>1, <2>1 DEF Clashing, Target
  <2>3. p \notin refused
    BY <1>1, <1>2, StepsWithoutFaults DEF Resolve, NothingToRecord, Refuse, Withhold, Stamp, EnsureFinds, EnsureCreates, siteVars
  <2>. PICK h : h = held[p].at
    OBVIOUS
  <2>4. Owned(h, p) /\ h \in Existing
    BY <1>1, <1>2, <1>4, <2>1, <2>2, <2>3 DEF Established, LInv, HeldBacked, Backed, Copy, Existing
  <2>5. Owned(h, p)'
    BY <1>2, <2>4, OwnedStays
  <2>6. QED
    BY <2>1, <2>5 DEF Owned, Carries
<1>5. CASE p \notin linked
  <2>1. NothingToRecord(p) \/ Refuse(p) \/ Withhold(p) \/ Stamp(p)
    BY <1>1, <1>2, <1>5, StepsWithoutFaults
       DEF Resolve, NothingToRecord, Refuse, Withhold, Stamp, Mine, Judging, EnsureFinds, EnsureCreates, siteVars
  <2>2. ~Refuse(p)
    BY <1>1 DEF Refuse
  <2>3. held' = held
    BY <2>1 DEF NothingToRecord, Refuse, Withhold, Stamp
  <2>4. ~Clashing(p) /\ held[p] # None
    BY <1>1, <2>3 DEF Clashing, Target
  <2>5. (p \in Listed /\ Carries(held[p].at, p)) \/ Only(held[p].at, p)
    BY <1>2, <1>5, <2>4 DEF HeldRightly
  <2>6. QED
    BY <1>2, <2>1, <2>2, <2>3, <2>4, <2>5, JudgedWell
<1>6. QED
  BY <1>4, <1>5

LEMMA FreeKept ==
  ASSUME RInv, LInv, AInv, VInv, FaultFree, StillOrderly, FreeSlug, [LinkedNext]_linkedVars
  PROVE  FreeSlug'
<1>1. SUFFICES ASSUME Untouched', NEW p \in Pairs, Unfound(p)', NEW i \in Existing', site'[i].slug = Desired[p]
               PROVE  FALSE
  BY DEF FreeSlug
<1>2. Untouched /\ edited = {} /\ edited' = {} /\ Sighted /\ Unique /\ OwnSlugs(site)
  BY <1>1, FaultsCost, FaultFreeKept DEF FaultFree, VInv, Clear, StillOrderly
<1>3. CASE Unfound(p)
  <2>1. \A j \in Existing : site[j].slug # Desired[p]
    BY <1>2, <1>3 DEF FreeSlug
  <2>2. CASE site' = site
    BY <1>1, <2>1, <2>2 DEF Existing
  <2>3. ASSUME NEW r \in Pairs, Stamps(r) PROVE FALSE
    BY <1>1, <1>2, <2>1, <2>3, StampsOwn, NextKeepsSlugs DEF SlugsStay
  <2>4. ASSUME NEW r \in Pairs, NEW j \in SiteIds, Creation(r, j) PROVE FALSE
    <3>1. /\ Existing' = Existing \cup {j} /\ site'[j] = NewSite(r)
          /\ \A l \in Existing : site'[l] = site[l]
      BY <2>4, CreatedOwn
    <3>2. i = j /\ NewSite(r).slug = Target(r)
      BY <1>1, <2>1, <3>1 DEF NewSite
    <3>3. Target(r) = Target(p)
      BY <1>1, <1>3, <3>1, <3>2 DEF Target, Unfound
    <3>4. r \in Linked /\ ~Clashing(r)
      BY <2>4 DEF Creation, EnsureCreates, CreateLost, Creates, Unsettled, Linked, AInv, Apart
    <3>5. r = p
      BY <3>3, <3>4 DEF Clashing
    <3>6. EnsureCreates(p, j)
      BY <1>1, <2>4, <3>5, FaultsCost DEF Creation, Faults
    <3>7. written'[p] = j
      BY <3>6 DEF EnsureCreates, LInv, LinkTypeOK
    <3>8. QED
      BY <1>1, <3>7, SiteAssumption DEF Unfound
  <2>5. QED
    BY <1>2, <2>2, <2>3, <2>4, SiteChanges
<1>4. CASE Resolve(p)
  <2>1. site' = site /\ Reading /\ NoneForeign(site)
    BY <1>2, <1>4 DEF Resolve, InTurn, Reading, StillOrderly
  <2>2. Identified(p) = {} /\ Exact(p) = {}
    <3>1. SUFFICES ASSUME (IF Identified(p) # {} THEN Identified(p) ELSE Similar(p)) # {} PROVE FALSE
      BY DEF Similar
    <3>2. PICK k \in IF Identified(p) # {} THEN Identified(p) ELSE Similar(p) : held' = [held EXCEPT ![p] = k]
      BY <1>4, <3>1 DEF Resolve
    <3>3. held'[p] = k /\ k # None
      BY <3>2, HitsBacked, SiteAssumption DEF Backed, LInv, LinkTypeOK
    <3>4. QED
      BY <1>1, <3>3 DEF Unfound
  <2>3. Unclaimed(p)
    BY <1>2, <2>2, NothingFound DEF Sighted
  <2>4. i \in Existing /\ site[i].slug = Desired[p]
    BY <1>1, <2>1 DEF Existing
  <2>5. Allows(site[i], p)
    BY <2>1, <2>3, <2>4 DEF NoneForeign, Rows, Existing, Unclaimed, Claims, Carries
  <2>6. \E k \in Seen(Desired[p]) : k.rec = site[i]
    <3>1. CASE {k \in memo : k.rec.slug = Desired[p]} = {}
      <4>1. [at |-> i, rec |-> site[i]] \in LiveCopies
        BY <2>4 DEF LiveCopies
      <4>2. [at |-> i, rec |-> site[i]] \in Seen(Desired[p])
        BY <2>4, <3>1, <4>1 DEF Seen
      <4>3. QED
        BY <4>2
    <3>2. CASE {k \in memo : k.rec.slug = Desired[p]} # {}
      <4>1. PICK k \in memo : k.rec.slug = Desired[p]
        BY <3>2
      <4>2. k.at \in Existing /\ site[k.at] = k.rec
        BY <1>2, <2>1 DEF LInv, CachesBacked, Backed, Current, Copy, Existing
      <4>3. k.at = i
        BY <1>2, <2>4, <4>1, <4>2 DEF OwnSlugs, Rows, Existing
      <4>4. k \in Seen(Desired[p])
        BY <4>1 DEF Seen
      <4>5. QED
        BY <4>2, <4>3, <4>4
    <3>3. QED
      BY <3>1, <3>2
  <2>7. QED
    BY <2>2, <2>5, <2>6 DEF Exact
<1>5. QED
  BY <1>1, <1>3, <1>4, UnfoundStays

\* A pair resolved to no site finds none of its slug either, and creates one that
\* has its identity from the start.
LEMMA FoundedKept ==
  ASSUME RInv, LInv, AInv, FaultFree, FreeSlug, Founded, [LinkedNext]_linkedVars
  PROVE  Founded'
<1>1. SUFFICES ASSUME Untouched', NEW p \in Pairs, written'[p] # None, held'[p] = None
               PROVE  Owned(written[p], p)'
  BY DEF Founded
<1>2. Untouched /\ ~Faults /\ edited = {} /\ edited' = {} /\ Sighted
  BY <1>1, FaultsCost, FaultFreeKept DEF FaultFree
<1>3. p \in Linked
  BY <1>1, SettledWell DEF AInv, WrittenAt
<1>4. held' = held /\ answer[p] = "read"
  BY <1>2, <1>3, Resolved DEF AInv, Apart, Sighted, LInv, LinkTypeOK
<1>5. CASE written'[p] = written[p]
  <2>. PICK w : w = written[p]
    OBVIOUS
  <2>1. w \in Existing /\ Owned(w, p)
    BY <1>1, <1>2, <1>4, <1>5 DEF Founded, AInv, WrittenAt
  <2>2. Owned(w, p)'
    BY <1>2, <2>1, OwnedStays
  <2>3. QED
    BY <1>5, <2>2 DEF Owned, Carries
<1>6. CASE written'[p] # written[p]
  <2>1. EnsureFinds(p) \/ \E i \in SiteIds : EnsureCreates(p, i)
    <3>1. PICK q \in Pairs : EnsureFinds(q) \/ \E i \in SiteIds : EnsureCreates(q, i)
      BY <1>2, <1>6, StepsWithoutFaults DEF Resolve, NothingToRecord, Refuse, Withhold, Stamp, siteVars
    <3>2. \E i : written' = [written EXCEPT ![q] = i]
      BY <3>1 DEF EnsureFinds, EnsureCreates
    <3>3. q = p
      BY <1>6, <3>2 DEF LInv, LinkTypeOK
    <3>4. QED
      BY <3>1, <3>3
  <2>2. CASE EnsureFinds(p)
    <3>1. Unfound(p) /\ Target(p) = Desired[p]
      BY <1>1, <1>4, <2>2 DEF EnsureFinds, Unsettled, Unfound, Target
    <3>2. PICK k \in Seen(Target(p)) : written'[p] = k.at
      BY <2>2 DEF EnsureFinds, LInv, LinkTypeOK
    <3>3. k.at \in Existing /\ k.rec.slug = Desired[p]
      BY <3>1, <3>2, SeenBacked DEF Backed, Copy, Existing, Seen
    <3>4. site[k.at].slug = k.rec.slug
      BY <1>2, <3>2, LiveIsCurrent DEF Seen, AInv, SlugsTold
    <3>5. QED
      BY <1>2, <3>1, <3>3, <3>4 DEF FreeSlug
  <2>3. ASSUME NEW i \in SiteIds, EnsureCreates(p, i) PROVE Owned(written[p], p)'
    <3>1. written'[p] = i /\ site'[i] = NewSite(p)
      BY <2>3, CreatedOwn DEF EnsureCreates, Creation, LInv, LinkTypeOK
    <3>2. QED
      BY <3>1 DEF Owned, Carries, NewSite
  <2>4. QED
    BY <2>1, <2>2, <2>3
<1>7. QED
  BY <1>5, <1>6

LEMMA WroteKept ==
  ASSUME RInv, LInv, ~DryRun, Wrote, [LinkedNext]_linkedVars
  PROVE  Wrote'
<1>1. SUFFICES ASSUME NEW p \in Pairs, job'[p] \in {"marking", "done"} PROVE written'[p] # None
  BY DEF Wrote
<1>2. written[p] # None => written'[p] = written[p]
  <2>1. CASE written' = written
    BY <2>1
  <2>2. ASSUME NEW q \in Pairs, EnsureFinds(q) \/ \E i \in SiteIds : EnsureCreates(q, i)
        PROVE  written[p] # None => written'[p] = written[p]
    BY <2>2 DEF EnsureFinds, EnsureCreates, Creates, Unsettled, LInv, LinkTypeOK
  <2>3. QED
    BY <2>1, <2>2 DEF LinkedNext, LinkedMain, LinkStep, LinkDone, PairStep, Faults, Resolve, ResolveFails, NothingToRecord,
         Refuse, Withhold, Stamp, StampFails, FilterFails, CreateLost, OperatorEdits, siteVars, linkedVars
<1>3. CASE job[p] \in {"marking", "done"}
  BY <1>2, <1>3 DEF Wrote
<1>4. CASE job[p] \notin {"marking", "done"}
  <2>1. CASE job' = job
    BY <1>1, <1>4, <2>1
  <2>2. CASE LinkDone
    BY <1>1, <2>2 DEF LinkDone, LinkTo
  <2>3. CASE Advance
    BY <1>1, <1>4, <2>3 DEF Advance, Discover, PrerequisitesFail, Collect, Abort, LeavePool, BeginUplinks,
         FinishUplinks, Report, WriteMarker, Return, Crash
  <2>4. ASSUME NEW q \in Pairs, WorkerStep(q), Unsettled(q) => SiteRaises(q), UNCHANGED siteVars
        PROVE  written'[p] # None
    <3>1. q = p
      BY <1>1, <1>4, <2>4 DEF WorkerStep, Take, SiteReturns, SiteRaises, MarkReturns, MarkRaises, RInv, TypeOK
    <3>2. SiteReturns(p)
      BY <1>1, <1>4, <2>4, <3>1 DEF WorkerStep, Take, SiteRaises, MarkReturns, MarkRaises, RInv, TypeOK
    <3>3. job[p] = "syncing" /\ ~SiteRaises(p)
      BY <1>1, <3>2 DEF SiteReturns, SiteRaises, RInv, TypeOK
    <3>4. QED
      BY <2>4, <3>1, <3>3 DEF Unsettled, siteVars
  <2>5. ASSUME NEW q \in Pairs, NEW i \in SiteIds, CreateLost(q, i) PROVE FALSE
    BY <1>1, <1>4, <2>5 DEF CreateLost, SiteRaises, RInv, TypeOK
  <2>6. QED
    BY <2>1, <2>2, <2>3, <2>4, <2>5 DEF LinkedNext, LinkedMain, LinkStep, PairStep, Faults, EnsureFinds,
         EnsureCreates, OperatorEdits, Exited, vars, linkedVars
<1>5. QED
  BY <1>3, <1>4

\* When every group has returned, what is established of the pairs leads the next
\* run, which looks at identity fields first, to the sites of this one.
LEMMA FinishedLeads ==
  ASSUME RInv, LInv, AInv, VInv, EInv, exit = "ok", Untouched, NEW p \in Pairs
  PROVE  {k.at : k \in Identified(p)} = {written[p]}
<1>1. \A q \in Pairs : job[q] = "done"
  BY DEF EInv, Finished
<1>2. errors = {} /\ p \in Linked /\ linked = Pairs /\ refused = {}
  BY <1>1 DEF EInv, Finished, RefusedTold, VInv, AllJudged, Linked
<1>3. edited = {} /\ unusable = {} /\ Unique /\ OwnSlugs(site)
  BY DEF EInv, FaultFree, StillOrderly, Sighted, VInv, Clear
<1>. PICK w : w = written[p]
  OBVIOUS
<1>4. w # None /\ w \in Existing /\ site[w].slug = Target(p) /\ ~Clashing(p)
  BY <1>1, <1>2, <1>3 DEF EInv, Wrote, AInv, Apart, WrittenAt
<1>5. Owned(w, p)
  <2>1. CASE held[p] = None
    BY <1>4, <2>1 DEF EInv, Founded
  <2>2. CASE held[p] # None
    <3>. PICK h : h = held[p].at
      OBVIOUS
    <3>1. h \in Existing /\ site[h].slug = Target(p)
      BY <1>3, <2>2 DEF LInv, HeldBacked, Backed, Copy, Existing, VInv, HeldTold, Target
    <3>2. h = w
      BY <1>3, <1>4, <3>1 DEF OwnSlugs, Rows, Existing
    <3>3. QED
      BY <1>2, <1>4, <2>2, <3>2 DEF EInv, Established
  <2>3. QED
    BY <2>1, <2>2
<1>6. Identified(p) = {[at |-> w, rec |-> site[w]]}
  <2>1. CASE p \in Listed
    <3>1. Askable("internal", p) /\ site[w]["internal"] = p
      BY <1>3, <1>5, <2>1 DEF Askable, Owned, Carries
    <3>2. Via("internal", p) = {[at |-> w, rec |-> site[w]]}
      BY <1>3, <1>4, <3>1, ViaFinds DEF Fields
    <3>3. QED
      BY <3>2 DEF Identified
  <2>2. CASE p \notin Listed
    <3>1. Askable("id", p) /\ site[w]["id"] = p
      BY <1>3, <1>5, <2>2 DEF Askable, Owned
    <3>2. Via("id", p) = {[at |-> w, rec |-> site[w]]}
      BY <1>3, <1>4, <3>1, ViaFinds DEF Fields
    <3>3. Via("internal", p) = {}
      BY <2>2 DEF Via, Askable
    <3>4. QED
      BY <3>2, <3>3 DEF Identified
  <2>3. QED
    BY <2>1, <2>2
<1>7. QED
  BY <1>6

\* After a run that reports success and met no fault or edit, the identity fields
\* alone lead every pair to the site it was synced to, for every number of pairs,
\* of sites and of caches that the run fills: the next run follows a renamed site.
\* It supposes what a table in order has: one site per UniFi site, one slug per
\* site, and no derived slug that is another UniFi site's.
THEOREM LinksLead ==
  ASSUME ~DryRun,
         \A table \in InitialSites : SingleOwners(table) /\ OwnSlugs(table) /\ NoneForeign(table)
  PROVE  LinkedSpec => []LinksLast
<1>1. LinkedInit => VInv /\ EInv
  BY InitSingle, InitEstablished DEF LinkedInit
<1>2. RInv /\ LInv /\ AInv /\ [LinkedNext]_linkedVars => AInv'
  BY ApartKept, ToldKept, WrittenKept DEF AInv
<1>3. RInv /\ LInv /\ AInv /\ VInv /\ [LinkedNext]_linkedVars => VInv'
  BY UniqueKept, KnownKept, JudgedKept, HeldKept, NobodyKept DEF VInv, AInv
<1>4. RInv /\ LInv /\ AInv /\ VInv /\ EInv /\ [LinkedNext]_linkedVars => EInv'
  BY FaultFreeKept, OrderKept, KeepsKept, AfterKept, ReportKept, RightlyKept, EstablishedKept, FreeKept, FoundedKept,
     WroteKept, FinishedKept DEF EInv
<1>5. RInv /\ LInv /\ AInv /\ VInv /\ EInv => LinksLast
  BY FinishedLeads DEF LinksLast, Untouched
<1>6. QED
  BY <1>1, <1>2, <1>3, <1>4, <1>5, InitApart, LinkedIsSyncRun, RunInvariant, LinkInvariant, PTL DEF LinkedSpec

=============================================================================
