------------------------------ MODULE MCSiteLink ------------------------------
(* Three pairs, the last two with the same description and so the same       *)
(* derived slug; sx and nx are other spellings of the first pair's slug and  *)
(* name.  The tables are what edits, other releases and earlier runs leave.  *)
EXTENDS SiteLink

CONSTANTS s1, s2, s3, sx, n1, n2, n3, nx, k1, k2, k3

SlugOf   == <<s1, s2, s2>>
NameOf   == <<n1, n2, n2>>
TitleOf  == [s \in Slugs |-> CASE s = s1 -> n1 [] s = s2 -> n2 [] s = s3 -> n3 [] OTHER -> nx]
FoldOf   == [x \in Slugs \cup Names |-> CASE x \in {s1, n1, sx, nx} -> k1
                                          [] x \in {s2, n2} -> k2
                                          [] OTHER -> k3]

New(s, n, in, id, nm) == [slug |-> s, name |-> n, internal |-> in, id |-> id, nm |-> nm]
Blank(s, n) == New(s, n, None, None, None)
Sites(a, b) == [i \in SiteIds |-> CASE i = 1 -> a [] i = 2 -> b [] OTHER -> None]

Tables ==
    { Sites(None, None),                                         \* nothing yet
      Sites(Blank(sx, nx), Blank(s2, n3)),                       \* another spelling
      Sites(New(s1, n1, None, 1, None), Blank(s3, n2)),          \* an older release
      Sites(New(sx, nx, 1, None, None), New(s1, n1, None, 1, 1)),  \* two claims
      Sites(New(s3, n3, 1, 1, 1), Blank(s1, n1)),                \* renamed, old slug reused
      Sites(New(s3, n3, None, 3, 3), Blank(s1, nx)),             \* one of the clashing pairs is known
      Sites(New(s1, n1, 1, Stranger, None), Blank(s2, n2)),      \* bound to two UniFi sites
      Sites(New(sx, n1, 1, None, 3), None) }                     \* the copy names another pair

\* Tables that meet what SiteLink_proofs supposes of them.
ASSUME OrderlyTables ==
    \A table \in Tables : SingleOwners(table) /\ OwnSlugs(table) /\ NoneForeign(table)

\* One that does not: the site of the first pair's slug is another UniFi site's.
BoundToStranger == {Sites(New(s1, n1, None, Stranger, Stranger), None)}

=============================================================================
