--------------------------- MODULE MCSchemaEnsure ---------------------------
(* A small instance of SchemaEnsure: a custom field that an older release   *)
(* may have made for sites only, a switch type of two sites, a vendor's     *)
(* client type with its manufacturer at one or both.                        *)
EXTENDS SchemaEnsure, TLC

CONSTANTS A, B, field, switch, maker, phone, onSite, onDevice

ParentOf  == [o \in Objects |-> IF o = phone THEN maker ELSE None]
NeededBy  == [f \in Fields |-> {onSite, onDevice}]
First     == <<field>>
BothSites == [w \in {A, B} |-> <<switch, phone>>]
Tables    == {{}, {field, maker}}

=============================================================================
