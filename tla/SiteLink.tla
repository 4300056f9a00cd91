------------------------------- MODULE SiteLink -------------------------------
(***************************************************************************)
(* Which NetBox site a UniFi site is: SyncRun with its Link step carried   *)
(* out pair by pair (resolve_existing_site, the conflict check,            *)
(* remember_site_link) and with ensure_site at the start of each group,    *)
(* over a table of sites that people edit meanwhile.                       *)
(*                                                                         *)
(* A NetBox site carries three identity fields: unifi_site_id, its copy    *)
(* unifi_site_name, and unifi_site_internal_id.  The API name and the _id  *)
(* of a pair both are its number here; the fields keep them apart.         *)
(***************************************************************************)
EXTENDS SyncRun

CONSTANTS
    SiteIds,       \* NetBox ids
    Names, Keys,   \* site names; what slugs and names fold to
    Fold,          \* normalize_key
    Desired,       \* pair -> the slug it derives or SITE_MAP names
    Label,         \* pair -> its description
    Title,         \* the name made of a slug
    Listed,        \* pairs whose _id and description the controller's list gave
    Stranger,      \* a UniFi site that is no pair of this run
    None,
    SiteMatch,     \* SITE_MATCH
    InitialSites,  \* tables of sites at the start of the run
    Budget         \* bound: edits and faults

Owners == Pairs \cup {Stranger, None}
Fields == {"internal", "id", "nm"}
Site   == [slug : Slugs, name : Names, internal : Owners, id : Owners, nm : Owners]
Copy   == [at : SiteIds, rec : Site]

ASSUME SiteAssumption ==
    /\ None \notin Pairs /\ None \notin SiteIds /\ None \notin Site /\ None \notin Copy
    /\ Fold \in [Slugs \cup Names -> Keys]
    /\ Desired \in [Pairs -> Slugs] /\ Label \in [Pairs -> Names]
    /\ Title \in [Slugs -> Names] /\ Listed \subseteq Pairs
    /\ SiteMatch \in {"slug", "name", "normalized"}
    /\ InitialSites \subseteq [SiteIds -> Site \cup {None}]
    /\ Budget \in Nat

VARIABLES
    site,      \* NetBox: id -> site
    policy,    \* SITE_POLICY
    answer,    \* pair -> "unread", "read" or "failed"
    held,      \* pair -> the site object that resolve_existing_site returned
    memo,      \* _site_memo: objects by slug
    known,     \* _all_sites: every site as listed, empty when not listed
    unusable,  \* identity fields whose filter failed
    linked,    \* pairs that _link_existing_sites is through with
    refused,   \* pairs with a link error of their own
    written,   \* pair -> the site its group writes to
    edited,    \* history: sites that a person edited during the run
    budget

siteVars == <<site, policy, answer, held, memo, known, unusable, linked, refused, written, edited, budget>>
caches   == <<memo, known, unusable>>
linkedVars == <<vars, siteVars>>

Existing   == {i \in SiteIds : site[i] # None}
LiveCopies == {[at |-> i, rec |-> site[i]] : i \in Existing}

LinkedInit ==
    /\ Init
    /\ site \in InitialSites
    /\ policy \in {"create", "require"}
    /\ answer = [p \in Pairs |-> "unread"]
    /\ held = [p \in Pairs |-> None]
    /\ memo = {} /\ known = {} /\ unusable = {}
    /\ linked = {} /\ refused = {}
    /\ written = [p \in Pairs |-> None]
    /\ edited = {}
    /\ budget = Budget

-------------------------------------------------------------------------------
(* resolve_existing_site: the identity fields, then slug, name and fold.      *)

\* A site bound to another UniFi site is no match (_site_id_allows).
Allows(rec, p) == /\ rec.id \in {None, p} /\ rec.nm \in {None, p}
                  /\ p \in Listed => rec.internal \in {None, p}

\* One site with the field is a hit, several are none.  Without a filter for the
\* id its copy is not asked for either.
Carriers(f, p) == {k \in LiveCopies : k.rec[f] = p}
Askable(f, p)  == /\ f \notin unusable
                  /\ f = "internal" => p \in Listed
                  /\ f = "nm" => "id" \notin unusable
Via(f, p)      == IF Askable(f, p) /\ Cardinality(Carriers(f, p)) = 1 THEN Carriers(f, p) ELSE {}
Identified(p)  == IF Via("internal", p) # {} THEN Via("internal", p)
                  ELSE IF Via("id", p) # {} THEN Via("id", p) ELSE Via("nm", p)

\* find_site remembers what it found, list_sites what it listed.
Seen(slug) == LET old == {k \in memo : k.rec.slug = slug} IN
                IF old # {} THEN old ELSE {k \in LiveCopies : k.rec.slug = slug}
Listing    == IF known = {} THEN LiveCopies ELSE known

Alike(rec, p) == {Fold[rec.slug], Fold[rec.name]}
                   \cap ({Fold[Desired[p]]} \cup {Fold[Label[q]] : q \in {p} \cap Listed}) # {}
Exact(p)  == {k \in Seen(Desired[p]) : Allows(k.rec, p)}
Named(p)  == {k \in LiveCopies : /\ SiteMatch # "slug" /\ p \in Listed
                                 /\ k.rec.name = Label[p] /\ Allows(k.rec, p)}
Folded(p) == {k \in Listing : SiteMatch = "normalized" /\ Allows(k.rec, p) /\ Alike(k.rec, p)}
Similar(p) == IF Exact(p) # {} THEN Exact(p) ELSE IF Named(p) # {} THEN Named(p) ELSE Folded(p)

InTurn(p) == /\ stage = "link" /\ answer[p] = "unread"
             /\ \A q \in 1..(p - 1) : answer[q] # "unread"

Resolve(p) ==
    /\ InTurn(p)
    /\ answer' = [answer EXCEPT ![p] = "read"]
    /\ LET hits == IF Identified(p) # {} THEN Identified(p) ELSE Similar(p) IN
         \/ \E k \in hits : held' = [held EXCEPT ![p] = k]
         \/ hits = {} /\ UNCHANGED held
    /\ memo' = IF Identified(p) # {} THEN memo ELSE memo \cup Seen(Desired[p])
    /\ known' = IF Identified(p) = {} /\ Exact(p) = {} /\ Named(p) = {} /\ SiteMatch = "normalized"
                THEN Listing ELSE known
    /\ UNCHANGED <<site, policy, unusable, linked, refused, written, edited, budget>>

\* An error other than NetBox refusing a filter: the pair keeps its derived slug.
ResolveFails(p) ==
    /\ InTurn(p) /\ budget > 0
    /\ budget' = budget - 1
    /\ answer' = [answer EXCEPT ![p] = "failed"]
    /\ memo' \in {memo, memo \cup Seen(Desired[p])}
    /\ UNCHANGED <<site, policy, held, known, unusable, linked, refused, written, edited>>

\* NetBox refuses or ignores the filter: not asked again in this run.
FilterFails(f) ==
    /\ stage = "link" /\ f \notin unusable /\ budget > 0
    /\ budget' = budget - 1
    /\ unusable' = unusable \cup {f}
    /\ UNCHANGED <<site, policy, answer, held, memo, known, linked, refused, written, edited>>

-------------------------------------------------------------------------------
(* The conflict check and remember_site_link.                                 *)

Target(p)   == IF held[p] = None THEN Desired[p] ELSE held[p].rec.slug
Clashing(p) == \E q \in Pairs \ {p} : Target(q) = Target(p)

Judging(p) == /\ stage = "link" /\ \A q \in Pairs : answer[q] # "unread"
              /\ p \notin linked /\ 1..(p - 1) \subseteq linked
              /\ linked' = linked \cup {p}
Mine(p)    == Judging(p) /\ ~Clashing(p) /\ held[p] # None

Foreign(p) == \/ held[p].rec.id \notin {None, p}
              \/ p \in Listed /\ held[p].rec.internal \notin {None, p}
Lacks(f, p) == held[p].rec[f] = None /\ (f = "internal" => p \in Listed)
Lacking(p) == ~DryRun /\ \E f \in Fields : Lacks(f, p)

\* The same value is not recorded on a second site; who has it is looked up in
\* the list of sites.
MutantNowhere(p) == FALSE
Elsewhere(p) ==
    \E k \in Listing : /\ k.at # held[p].at
                       /\ \/ Lacks("id", p) /\ p \in {k.rec.id, k.rec.nm}
                          \/ Lacks("internal", p) /\ k.rec.internal = p
Looked(p) == IF Lacks("id", p) \/ Lacks("internal", p) THEN Listing ELSE known

\* save sends the fields of the object as it was read, the empty ones filled.
MutantOwnNumber(f, p) == p
Fill(f, p) == IF Lacks(f, p) THEN p ELSE held[p].rec[f]
Saved(p)   == [site EXCEPT ![held[p].at] =
                 [@ EXCEPT !.internal = Fill("internal", p), !.id = Fill("id", p), !.nm = Fill("nm", p)]]

NothingToRecord(p) ==
    /\ Judging(p)
    /\ ~Clashing(p) /\ held[p] # None => ~Foreign(p) /\ ~Lacking(p)
    /\ UNCHANGED <<site, policy, answer, held, caches, refused, written, edited, budget>>
Refuse(p) ==
    /\ Mine(p) /\ Foreign(p)
    /\ refused' = refused \cup {p}
    /\ UNCHANGED <<site, policy, answer, held, caches, written, edited, budget>>
Withhold(p) ==
    /\ Mine(p) /\ ~Foreign(p) /\ Lacking(p) /\ Elsewhere(p)
    /\ known' = Looked(p)
    /\ UNCHANGED <<site, policy, answer, held, memo, unusable, refused, written, edited, budget>>
Stamp(p) ==
    /\ Mine(p) /\ ~Foreign(p) /\ Lacking(p) /\ ~Elsewhere(p)
    /\ site' = Saved(p)
    /\ known' = {}
    /\ UNCHANGED <<policy, answer, held, memo, unusable, refused, written, edited, budget>>

\* The site is then matched by name until a stamp succeeds; no error is recorded.
StampFails(p) ==
    /\ Mine(p) /\ ~Foreign(p) /\ Lacking(p) /\ ~Elsewhere(p) /\ budget > 0
    /\ budget' = budget - 1
    /\ site' \in {site, Saved(p)}
    /\ known' = Looked(p)
    /\ UNCHANGED <<policy, answer, held, memo, unusable, refused, written, edited>>

LinkDone ==
    /\ linked = Pairs /\ \A p \in Pairs : answer[p] # "unread"
    /\ LinkTo([p \in Pairs |-> Target(p)], refused)
    /\ UNCHANGED siteVars

-------------------------------------------------------------------------------
(* ensure_site, the first request of a group.                                 *)

Unsettled(p) == job[p] = "syncing" /\ ~DryRun /\ written[p] = None

MutantKeepsSlug(p) ==
    /\ Unsettled(p) /\ Seen(Target(p)) # {}
    /\ written' = [written EXCEPT ![p] = Target(p)]
    /\ memo' = memo \cup Seen(Target(p))
    /\ UNCHANGED <<vars, site, policy, answer, held, known, unusable, linked, refused, edited, budget>>
EnsureFinds(p) ==
    /\ Unsettled(p)
    /\ \E k \in Seen(Target(p)) : written' = [written EXCEPT ![p] = k.at]
    /\ memo' = memo \cup Seen(Target(p))
    /\ UNCHANGED <<vars, site, policy, answer, held, known, unusable, linked, refused, edited, budget>>

\* NetBox refuses a second site of a name, and the group raises.
NameFor(p) == IF p \in Listed THEN Label[p] ELSE Title[Target(p)]
MutantPlain(p) == [slug |-> Target(p), name |-> NameFor(p), internal |-> None, id |-> None, nm |-> None]
NewSite(p) == [slug |-> Target(p), name |-> NameFor(p), id |-> p, nm |-> p,
               internal |-> IF p \in Listed THEN p ELSE None]
Creates(p, i) ==
    /\ Unsettled(p) /\ policy = "create" /\ Seen(Target(p)) = {}
    /\ \A j \in Existing : site[j].name # NameFor(p)
    /\ i \notin Existing
    /\ site' = [site EXCEPT ![i] = NewSite(p)]
EnsureCreates(p, i) ==
    /\ Creates(p, i)
    /\ written' = [written EXCEPT ![p] = i]
    /\ memo' = memo \cup {[at |-> i, rec |-> NewSite(p)]}
    /\ known' = {}
    /\ UNCHANGED <<vars, policy, answer, held, unusable, linked, refused, edited, budget>>
CreateLost(p, i) ==
    /\ Creates(p, i) /\ budget > 0
    /\ budget' = budget - 1
    /\ SiteRaises(p)
    /\ UNCHANGED <<policy, answer, held, caches, linked, refused, written, edited>>

\* A person renames a site or sets, changes or clears one of its identity fields,
\* while the run still reads sites.
OperatorEdits(i) ==
    /\ stage \in {"link", "sites"} /\ i \in Existing /\ budget > 0
    /\ budget' = budget - 1
    /\ edited' = edited \cup {i}
    /\ \/ \E s \in Slugs \ {site[j].slug : j \in Existing} : site' = [site EXCEPT ![i].slug = s]
       \/ \E n \in Names \ {site[j].name : j \in Existing} : site' = [site EXCEPT ![i].name = n]
       \/ \E o \in Owners : \/ site' = [site EXCEPT ![i].internal = o]
                            \/ site' = [site EXCEPT ![i].id = o]
                            \/ site' = [site EXCEPT ![i].nm = o]
    /\ UNCHANGED <<vars, policy, answer, held, caches, linked, refused, written>>

-------------------------------------------------------------------------------

LinkStep ==
    /\ \E p \in Pairs : \/ Resolve(p) \/ NothingToRecord(p) \/ Refuse(p) \/ Withhold(p) \/ Stamp(p)
    /\ UNCHANGED vars
\* A group whose site was not found or created can only raise.
PairStep(p) ==
    \/ EnsureFinds(p) \/ \E i \in SiteIds : EnsureCreates(p, i)
    \/ WorkerStep(p) /\ (Unsettled(p) => SiteRaises(p)) /\ UNCHANGED siteVars
Faults ==
    \/ \E p \in Pairs : (ResolveFails(p) \/ StampFails(p)) /\ UNCHANGED vars
    \/ \E f \in Fields : FilterFails(f) /\ UNCHANGED vars
    \/ \E p \in Pairs, i \in SiteIds : CreateLost(p, i)
    \/ \E i \in SiteIds : OperatorEdits(i)

LinkedMain == LinkStep \/ LinkDone \/ (Advance /\ UNCHANGED siteVars)
LinkedNext == LinkedMain \/ (\E p \in Pairs : PairStep(p)) \/ Faults \/ (Exited /\ UNCHANGED siteVars)

LinkedSpec == LinkedInit /\ [][LinkedNext]_linkedVars

\* As in SyncRun, every thread keeps running.
LinkedFairSpec ==
    LinkedSpec /\ WF_linkedVars(LinkedMain) /\ \A p \in Pairs : WF_linkedVars(PairStep(p))

-------------------------------------------------------------------------------
(* Tables of sites that the sync leaves in order.                            *)

Rows(table) == {i \in SiteIds : table[i] # None}

\* No UniFi site of a pair is recorded on two sites, be it as an id, in the field
\* or in its copy, or as an internal id.
SingleOwners(table) ==
    \A p \in Pairs : \A i, j \in Rows(table) :
        \/ p \in {table[i].id, table[i].nm} \cap {table[j].id, table[j].nm}
        \/ table[i].internal = p /\ table[j].internal = p
        => i = j

\* No two sites have one slug; NetBox sees to it.
OwnSlugs(table) == \A i, j \in Rows(table) : table[i].slug = table[j].slug => i = j

\* The slug that a pair derives is not that of a site bound to another UniFi site,
\* unless some site has the pair in an identity field.
NoneForeign(table) ==
    \A p \in Pairs : \A i \in Rows(table) :
        table[i].slug = Desired[p] =>
            \/ Allows(table[i], p)
            \/ \E j \in Rows(table) :
                 p \in {table[j].id, table[j].nm} \/ (p \in Listed /\ table[j].internal = p)

-------------------------------------------------------------------------------
(* Properties.                                                               *)

LinkTypeOK ==
    /\ site \in [SiteIds -> Site \cup {None}]
    /\ policy \in {"create", "require"}
    /\ answer \in [Pairs -> {"unread", "read", "failed"}]
    /\ held \in [Pairs -> Copy \cup {None}]
    /\ memo \in SUBSET Copy /\ known \in SUBSET Copy
    /\ unusable \in SUBSET Fields
    /\ linked \in SUBSET Pairs /\ refused \in SUBSET Pairs
    /\ written \in [Pairs -> SiteIds \cup {None}]
    /\ edited \in SUBSET SiteIds
    /\ budget \in 0..Budget
SitesTypeOK == TypeOK /\ LinkTypeOK

\* Two pairs never write one NetBox site, whatever they were matched by and
\* whatever lookup failed (README: "Each pair is synced independently"; two pairs
\* that resolve to one site are both skipped), unless a person renames a site
\* between linking and syncing.
NoSharedSite ==
    edited = {} => \A p, q \in Pairs : p # q /\ written[p] # None => written[p] # written[q]

\* An identity field that has a value keeps it: the sync fills fields and changes
\* none, although it writes what it read before other pairs were resolved and
\* stamped (README: "A non-empty field that already holds a different value is
\* not overwritten").  A person's edit of the same site meanwhile may be lost.
IdentityKept ==
    [][\A i \in SiteIds \ edited' : \A f \in Fields :
         site[i] # None /\ site[i][f] # None => site'[i][f] = site[i][f]]_linkedVars

\* No UniFi site is recorded on two NetBox sites (README: "the same value is never
\* copied onto a second site").  A lookup that fails under SITE_POLICY=create is
\* the exception: the site is created once more.
Sighted == unusable = {} /\ \A p \in Pairs : answer[p] # "failed"
ValueOnOneSite ==
    edited = {} /\ (policy = "create" => Sighted)
      => \A p \in Pairs, f \in Fields : Cardinality(Carriers(f, p)) <= 1

\* After a run that reports success and met no fault or edit, the identity fields
\* alone lead every pair to the site it was synced to: whatever the sites are
\* renamed to later, the next run goes there (README: "a later run follows the
\* renamed site instead of creating the old name again").
LinksLast ==
    exit = "ok" /\ budget = Budget
      => \A p \in Pairs : {k.at : k \in Identified(p)} = {written[p]}

\* No pair writes a site that belongs to another UniFi site
\* (resolve_existing_site: "A site already bound to a different UniFi site is not
\* a match: those fields are never overwritten and are never shared").
ForeignSitesKept ==
    edited = {} => \A p \in Pairs : written[p] # None => Allows(site[written[p]], p)

===============================================================================
