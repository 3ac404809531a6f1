---------------------------- MODULE LinkContract ----------------------------
(***************************************************************************)
(* What the API promises of the links between its rows and the objects at  *)
(* Meta, with no requests, retries, lost answers or crashes in it:         *)
(*                                                                         *)
(*   - an object is made for one row, under an object of that row's        *)
(*     parent, and both are so for ever;                                   *)
(*   - objects are made from the top: of an ad set or an ad only once the  *)
(*     row of its parent is linked;                                        *)
(*   - a row is linked to an object made for it; it may be linked anew,    *)
(*     and is never unlinked.                                              *)
(*                                                                         *)
(* AdsSync implements it (LinksKept).  That every object is linked, or     *)
(* that a row has one object, is not promised: retries and launches that   *)
(* overlap leave others at Meta.                                           *)
(***************************************************************************)
CONSTANTS Campaign, Unit, Parent, Obj, None

VARIABLES
  owner,  \* owner[o]: the row object o was made for, or None
  above,  \* above[o]: the object o was made under, or None
  link    \* link[e]: the object of row e, or None

linkVars == <<owner, above, link>>

Init ==
  /\ owner = [o \in Obj |-> None]
  /\ above = [o \in Obj |-> None]
  /\ link = [e \in Campaign \cup Unit |-> None]

Make(o, e, p) ==
  /\ owner[o] = None
  /\ owner' = [owner EXCEPT ![o] = e]
  /\ above' = [above EXCEPT ![o] = p]
  /\ UNCHANGED link

MakeCampaign(o, c) == Make(o, c, None)

MakeUnit(o, u, p) ==
  /\ link[Parent[u]] # None
  /\ owner[p] = Parent[u]
  /\ Make(o, u, p)

Link(e, o) ==
  /\ owner[o] = e
  /\ link' = [link EXCEPT ![e] = o]
  /\ UNCHANGED <<owner, above>>

Next ==
  \E o \in Obj :
    \/ \E c \in Campaign : MakeCampaign(o, c)
    \/ \E u \in Unit, p \in Obj : MakeUnit(o, u, p)
    \/ \E e \in Campaign \cup Unit : Link(e, o)

Spec == Init /\ [][Next]_linkVars
=============================================================================
