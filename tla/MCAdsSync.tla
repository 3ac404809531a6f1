------------------------------ MODULE MCAdsSync ------------------------------
(* AdsSync with one campaign, its ad set and two ads in it, of which one   *)
(* has no page.                                                            *)
EXTENDS AdsSync

CONSTANTS c1, a1, d1, d2

ParentOf == [u \in Unit |-> IF u = a1 THEN c1 ELSE a1]
=============================================================================
