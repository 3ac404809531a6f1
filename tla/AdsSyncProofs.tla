---------------------------- MODULE AdsSyncProofs ----------------------------
(***************************************************************************)
(* Proofs about AdsSync: rows are linked to their own objects at Meta, a   *)
(* campaign is created twice only by launches that overlap, the inline     *)
(* pause of a campaign writes only what Meta has done, and the links are   *)
(* made as LinkContract says.                                              *)
(***************************************************************************)
EXTENDS AdsSync, TLAPS

Steps == {"idle", "create", "store", "push", "post", "write", "update",
          "bulk", "list", "sync"}

Requests ==
  [pc : Steps, kind : {"none", "launch", "toggle", "bulk", "sync"},
   e : Entity \cup {None}, to : Status, todo : SUBSET Entity,
   seen : SUBSET Reading, ids : [Entity -> Obj \cup {None}],
   got : Obj \cup {None}, tries : Nat]

Objects == [of : Entity \cup {None}, status : Status, under : Obj \cup {None}]

Rows == [status : Status, ext : Obj \cup {None}]

(* Object o was created for e, under an object of e's parent.              *)
Own(e, o) ==
  /\ meta[o].of = e
  /\ e \in Unit => /\ meta[o].under # None
                   /\ meta[meta[o].under].of = Parent[e]

(* What a request knows: only a launch creates; what it creates has its    *)
(* parent at Meta; every id it carries is of the entity it stands for.     *)
Knows(r) ==
  /\ r.pc \in {"create", "store", "push"} => r.kind = "launch"
  /\ r.pc \in {"update", "bulk", "list", "sync"} => r.kind # "toggle"
  /\ r.pc \in {"create", "store", "post", "write"} => r.e \in Entity
  /\ r.pc = "create" /\ r.e \in Unit => r.ids[Parent[r.e]] # None
  /\ r.pc = "store" => r.got # None /\ Own(r.e, r.got)
  /\ \A e \in Entity : r.ids[e] # None => meta[r.ids[e]].of = e

(* The inductive invariant of the links.                                   *)
IInv == AdsTypeOK /\ LinkedIsOwn /\ \A s \in Slot : Knows(req[s])

(* An object keeps its owner and its parent for ever.                      *)
Kept ==
  \A o \in Obj : meta[o].of # None =>
    meta'[o].of = meta[o].of /\ meta'[o].under = meta[o].under
-----------------------------------------------------------------------------
(* Steps change the request of one slot and the object of one entity.      *)

(* The type invariant in the terms of these proofs.                        *)
LEMMA Typed ==
  AdsTypeOK <=>
    /\ row \in [Entity -> Rows] /\ meta \in [Obj -> Objects]
    /\ req \in [Slot -> Requests]
    /\ worker \in SUBSET Reading
    /\ requests \in Nat /\ faults \in Nat
    /\ alone \in SUBSET Slot /\ solo \in SUBSET Obj
  BY DEF AdsTypeOK, Rows, Objects, Requests, Steps

(* The idle request is one, and knows nothing.                             *)
LEMMA IdleIsOne == Idle \in Requests /\ \A e \in Entity : Idle.ids[e] = None
  BY DEF Idle, NoIds, Requests, Steps, Status

(* The new object is one that was free.                                    *)
LEMMA NewIsFree ==
  ASSUME Free # {} PROVE NewObj \in Obj /\ meta[NewObj].of = None
  BY DEF Free, NewObj

(* At first nothing is linked.                                             *)
LEMMA InitIInv == Init => IInv
<1> SUFFICES ASSUME Init PROVE IInv
  OBVIOUS
<1>1. AdsTypeOK
  BY AdsAssumption, IdleIsOne, Typed DEF Init, Rows, Objects, Status
<1>2. LinkedIsOwn
  BY AdsAssumption DEF Init, LinkedIsOwn
<1>3. ASSUME NEW s \in Slot PROVE Knows(req[s])
  BY AdsAssumption, IdleIsOne DEF Init, Knows, Idle
<1> QED
  BY <1>1, <1>2, <1>3 DEF IInv

(* What a request knows stays true, whatever happens at Meta.              *)
LEMMA KnowsKept ==
  ASSUME IInv, Kept, NEW r \in Requests, Knows(r)
  PROVE  Knows(r)'
<1>1. meta \in [Obj -> Objects]
  BY Typed DEF IInv
<1>2. ASSUME NEW e \in Entity, NEW o \in Obj, Own(e, o) PROVE Own(e, o)'
  BY AdsAssumption, <1>1, <1>2 DEF Own, Kept, Objects, Entity
<1>3. ASSUME NEW e \in Entity, r.ids[e] # None
      PROVE  meta'[r.ids[e]].of = e
  BY AdsAssumption, <1>1, <1>3 DEF Knows, Kept, Requests
<1>4. r.pc = "store" => r.got # None /\ Own(r.e, r.got)'
  BY <1>1, <1>2 DEF Knows, Requests
<1> QED
  BY <1>3, <1>4 DEF Knows, Own

(* The links survive a step that changes no external id.                   *)
LEMMA OwnKept ==
  ASSUME IInv, Kept, row' \in [Entity -> Rows],
         \A e \in Entity : row'[e].ext = row[e].ext
  PROVE  LinkedIsOwn'
<1>1. row \in [Entity -> Rows] /\ meta \in [Obj -> Objects]
  BY Typed DEF IInv
<1> SUFFICES ASSUME NEW e \in Entity, row[e].ext # None
             PROVE  Own(e, row[e].ext)'
  BY DEF LinkedIsOwn, Own
<1>2. row[e].ext \in Obj /\ Own(e, row[e].ext)
  BY <1>1 DEF IInv, LinkedIsOwn, Own, Rows
<1> QED
  BY AdsAssumption, <1>1, <1>2 DEF Own, Kept, Objects, Entity

(* A step that changes one request.                                        *)
LEMMA RequestsKnow ==
  ASSUME IInv, Kept, NEW s \in Slot, NEW r \in Requests,
         req' = [req EXCEPT ![s] = r], Knows(r)'
  PROVE  req' \in [Slot -> Requests] /\ \A q \in Slot : Knows(req[q])'
<1>1. req \in [Slot -> Requests]
  BY Typed DEF IInv
<1>2. req' \in [Slot -> Requests] /\ req'[s] = r
        /\ \A q \in Slot : q # s => req'[q] = req[q]
  BY <1>1
<1>3. ASSUME NEW q \in Slot, q # s PROVE Knows(req[q])'
  <2>1. req[q] \in Requests /\ Knows(req[q]) /\ req'[q] = req[q]
    BY <1>1, <1>2, <1>3 DEF IInv
  <2> QED
    BY <2>1, KnowsKept DEF Knows, Own
<1> QED
  BY <1>2, <1>3 DEF Knows, Own

(* ... and no external id.                                                 *)
LEMMA OneRequest ==
  ASSUME IInv, Kept, NEW s \in Slot, NEW r \in Requests,
         req' = [req EXCEPT ![s] = r], Knows(r)',
         row' \in [Entity -> Rows], \A e \in Entity : row'[e].ext = row[e].ext,
         meta' \in [Obj -> Objects], worker' \in SUBSET Reading,
         requests' \in Nat, faults' \in Nat,
         alone' \in SUBSET Slot, solo' \in SUBSET Obj
  PROVE  IInv'
<1>1. req' \in [Slot -> Requests] /\ \A q \in Slot : Knows(req[q])'
  BY RequestsKnow
<1>2. AdsTypeOK'
  BY <1>1 DEF AdsTypeOK, Rows, Objects, Requests, Steps
<1> QED
  BY <1>1, <1>2, OwnKept DEF IInv

(* A step that changes one request and nothing it could know.              *)
LEMMA Quiet ==
  ASSUME IInv, NEW s \in Slot, NEW r \in Requests,
         req' = [req EXCEPT ![s] = r], Knows(r),
         UNCHANGED <<row, meta, worker, solo>>,
         requests' \in Nat, faults' \in Nat, alone' \in SUBSET Slot
  PROVE  IInv'
<1>1. Kept
  BY DEF Kept
<1>2. Knows(r)'
  BY DEF Knows, Own
<1>3. /\ row \in [Entity -> Rows] /\ meta \in [Obj -> Objects]
      /\ worker \in SUBSET Reading /\ solo \in SUBSET Obj
  BY Typed DEF IInv
<1> QED
  BY <1>1, <1>2, <1>3, OneRequest
-----------------------------------------------------------------------------
(* Handlers begin.                                                         *)

(* What a handler reads of external ids is linked.                         *)
LEMMA ExtsOwn ==
  ASSUME IInv, NEW S \in SUBSET Entity
  PROVE  /\ Exts(S) \in [Entity -> Obj \cup {None}]
         /\ \A e \in Entity : Exts(S)[e] # None => meta[Exts(S)[e]].of = e
  BY Typed DEF IInv, Exts, Rows, LinkedIsOwn

(* A request that begins with what it knows breaks nothing.                *)
LEMMA BeginKeeps ==
  ASSUME IInv, NEW s \in Slot, NEW r \in Requests, Knows(r), Begin(s, r)
  PROVE  IInv'
<1>1. requests' \in Nat /\ faults' \in Nat /\ alone' \in SUBSET Slot
  BY Typed DEF IInv, Begin
<1> QED
  BY <1>1, Quiet DEF Begin

(* Nor does any handler a seller starts.                                   *)
LEMMA RequestedKeeps ==
  ASSUME IInv, NEW s \in Slot, Requested(s)
  PROVE  IInv'
<1>1. row \in [Entity -> Rows] /\ Entity = Campaign \cup Unit
  BY Typed DEF IInv, Entity
<1>2. ASSUME NEW c \in Campaign, Launch(s, c) PROVE IInv'
  <2> DEFINE r == [Idle EXCEPT !.pc = "create", !.kind = "launch", !.e = c,
                               !.to = row[c].status]
  <2>1. r \in Requests /\ Knows(r)
    BY <1>1, IdleIsOne, AdsAssumption DEF Requests, Steps, Knows, Rows
  <2> QED
    BY <1>2, <2>1, BeginKeeps DEF Launch
<1>3. ASSUME NEW e \in Entity, Toggle(s, e) PROVE IInv'
  <2> DEFINE r == [Idle EXCEPT
       !.pc = IF row[e].ext # None THEN "post" ELSE "write",
       !.kind = "toggle", !.e = e, !.to = Flip(row[e].status),
       !.ids = Exts({e})]
  <2>1. Flip(row[e].status) \in Status
    BY <1>1 DEF Flip, Status
  <2>2. /\ Exts({e}) \in [Entity -> Obj \cup {None}]
        /\ \A x \in Entity : Exts({e})[x] # None => meta[Exts({e})[x]].of = x
    BY ExtsOwn
  <2>3. r \in Requests
    BY <2>1, <2>2, IdleIsOne DEF Requests, Steps
  <2>4. Knows(r)
    BY <2>2, IdleIsOne DEF Requests, Knows
  <2> QED
    BY <1>3, <2>3, <2>4, BeginKeeps DEF Toggle
<1>4. ASSUME NEW es \in SUBSET Entity, NEW v \in Status, Bulk(s, es, v)
      PROVE  IInv'
  <2> DEFINE r == [Idle EXCEPT !.pc = "update", !.kind = "bulk", !.to = v,
                               !.todo = es, !.ids = Exts(es)]
  <2>1. r \in Requests
    BY IdleIsOne, ExtsOwn DEF Requests, Steps
  <2>2. Knows(r)
    BY IdleIsOne, ExtsOwn DEF Requests, Knows
  <2> QED
    BY <1>4, <2>1, <2>2, BeginKeeps DEF Bulk
<1>5. ASSUME Sync(s) PROVE IInv'
  <2> DEFINE r == [Idle EXCEPT !.pc = "list", !.kind = "sync", !.todo = Entity]
  <2>1. r \in Requests /\ Knows(r)
    BY IdleIsOne DEF Requests, Steps, Knows
  <2> QED
    BY <1>5, <2>1, BeginKeeps DEF Sync
<1>6. \A L \in Levels : \A es \in SUBSET L \ {{}} : es \in SUBSET Entity
  BY DEF Levels, AdSets, Ads, Entity
<1> QED
  BY <1>2, <1>3, <1>4, <1>5, <1>6 DEF Requested
-----------------------------------------------------------------------------
(* Calls of Meta.                                                          *)

(* A new object is its entity's own, and nobody's object is touched.       *)
LEMMA CreateKeeps ==
  ASSUME IInv, NEW s \in Slot, At(s, "create"), Create(s)
  PROVE  /\ Kept /\ meta' \in [Obj -> Objects] /\ solo' \in SUBSET Obj
         /\ NewObj \in Obj /\ meta'[NewObj].of = req[s].e
         /\ req[s].e \in Unit =>
              /\ meta'[NewObj].under # None
              /\ meta'[meta'[NewObj].under].of = Parent[req[s].e]
<1> DEFINE r == req[s]
<1>1. /\ meta \in [Obj -> Objects] /\ solo \in SUBSET Obj /\ r \in Requests
      /\ Knows(r) /\ r.pc = "create"
  BY Typed DEF IInv, At
<1>2. NewObj \in Obj /\ meta[NewObj].of = None
  BY NewIsFree DEF Create
<1>3. /\ r.e \in Entity
      /\ r.e \in Unit => /\ Parent[r.e] \in Entity
                         /\ r.ids[Parent[r.e]] \in Obj
                         /\ meta[r.ids[Parent[r.e]]].of = Parent[r.e]
  BY <1>1, AdsAssumption DEF Knows, Requests
<1>4. r.e \notin Campaign => r.e \in Unit
  BY <1>3 DEF Entity
<1> DEFINE new == [of |-> r.e,
        status |-> IF r.e \in Campaign THEN r.to ELSE "ACTIVE",
        under |-> IF r.e \in Campaign THEN None ELSE r.ids[Parent[r.e]]]
<1>5. meta' = [meta EXCEPT ![NewObj] = new]
  BY DEF Create
<1>6. new \in Objects
  BY <1>1, <1>3, <1>4 DEF Objects, Requests, Status
<1>7. new.of = r.e /\ (r.e \in Unit => new.under = r.ids[Parent[r.e]])
  BY AdsAssumption
<1> HIDE DEF new
<1>8. meta' \in [Obj -> Objects] /\ Kept
  BY <1>1, <1>2, <1>5, <1>6 DEF Kept
<1>9. solo' \in SUBSET Obj
  BY <1>1, <1>2 DEF Create
<1>10. meta'[NewObj] = new
  BY <1>1, <1>2, <1>5
<1>11. r.e \in Unit => /\ meta'[NewObj].under # None
                      /\ meta'[meta'[NewObj].under].of = Parent[r.e]
  BY <1>1, <1>2, <1>3, <1>5, <1>7, <1>10, AdsAssumption
<1> QED
  BY <1>2, <1>7, <1>8, <1>9, <1>10, <1>11

(* A change of a status leaves owners and parents.                         *)
LEMMA StatusKeeps ==
  ASSUME IInv, NEW o \in Obj \cup {None}, NEW v \in Status,
         meta' = [meta EXCEPT ![o].status = v]
  PROVE  Kept /\ meta' \in [Obj -> Objects]
<1>1. meta \in [Obj -> Objects]
  BY Typed DEF IInv
<1>2. meta' = [p \in Obj |-> IF p = o THEN [meta[p] EXCEPT !.status = v]
                             ELSE meta[p]]
  BY <1>1
<1> QED
  BY <1>1, <1>2, ZenonT(30) DEF Kept, Objects

(* A handler that gives a call up knows no more than before.               *)
LEMMA GaveUpKnows ==
  ASSUME IInv, NEW r \in Requests, Knows(r)
  PROVE  GaveUp(r) \in Requests /\ Knows(GaveUp(r))
<1> DEFINE pushed == [r EXCEPT !.pc = "push", !.tries = 0, !.e = None,
                        !.todo = {u \in @ : u # r.e /\ Parent[u] # r.e}]
           wrote == [r EXCEPT !.pc = "write", !.tries = 0]
           next == [r EXCEPT !.pc = "bulk", !.tries = 0, !.e = None,
                             !.todo = @ \ {r.e}]
<1>1. pushed \in Requests /\ (r.kind = "launch" => Knows(pushed))
  BY DEF Requests, Steps, Knows
<1>2. wrote \in Requests /\ (r.e \in Unit => Knows(wrote))
  BY DEF Requests, Steps, Knows, Entity
<1>3. next \in Requests /\ (r.kind = "bulk" => Knows(next))
  BY DEF Requests, Steps, Knows
<1>4. Idle \in Requests /\ Knows(Idle)
  BY IdleIsOne DEF Knows, Idle
<1> QED
  BY <1>1, <1>2, <1>3, <1>4 DEF GaveUp

(* A call that is tried again, or given up, leaves what is known.          *)
LEMMA AgainKnows ==
  ASSUME IInv, NEW r \in Requests, Knows(r)
  PROVE  Again(r) \in Requests /\ Knows(Again(r))
<1>1. [r EXCEPT !.tries = @ + 1] \in Requests
        /\ Knows([r EXCEPT !.tries = @ + 1])
  BY DEF Requests, Knows
<1> QED
  BY <1>1, GaveUpKnows DEF Again

(* A failure may leave an object at Meta: the one that was asked for.      *)
LEMMA FailsKeeps ==
  ASSUME IInv, NEW s \in Slot, Fails(s)
  PROVE  IInv'
<1> DEFINE r == req[s]
<1>1. /\ r \in Requests /\ Knows(r)
      /\ meta \in [Obj -> Objects] /\ row \in [Entity -> Rows]
      /\ worker \in SUBSET Reading /\ alone \in SUBSET Slot
      /\ solo \in SUBSET Obj /\ requests \in Nat /\ faults \in Nat
  BY Typed DEF IInv
<1>2. ASSUME CallFails(s) PROVE IInv'
  <2>1. /\ Kept /\ meta' \in [Obj -> Objects] /\ solo' \in SUBSET Obj
    <3>1. CASE UNCHANGED <<meta, solo>>
      BY <1>1, <3>1 DEF Kept
    <3>2. CASE At(s, "create") /\ Create(s)
      BY <3>2, CreateKeeps
    <3>3. CASE At(s, "post") /\ Apply(s)
      <4>1. r.ids[r.e] \in Obj \cup {None} /\ r.to \in Status
        BY <1>1, <3>3 DEF Knows, Requests, At
      <4> QED
        BY <1>1, <3>3, <4>1, StatusKeeps DEF Apply
    <3> QED
      BY <1>2, <3>1, <3>2, <3>3 DEF CallFails
  <2>2. Again(r) \in Requests /\ Knows(Again(r))
    BY <1>1, AgainKnows
  <2>3. ASSUME NEW x \in Requests, Knows(x), req' = [req EXCEPT ![s] = x]
        PROVE  IInv'
    <3>1. Knows(x)'
      BY <2>1, <2>3, KnowsKept
    <3>2. faults' \in Nat /\ UNCHANGED <<row, worker, requests, alone>>
      BY <1>1, <1>2 DEF CallFails, Fault
    <3> QED
      BY <1>1, <2>1, <2>3, <3>1, <3>2, OneRequest
  <2> QED
    BY <1>2, <2>2, <2>3 DEF CallFails, Step
<1>3. ASSUME NEW x \in Requests, Knows(x), req' = [req EXCEPT ![s] = x],
             Fault, UNCHANGED <<row, meta, worker, requests, history>>
      PROVE  IInv'
  <2>1. /\ UNCHANGED <<row, meta, worker, solo>>
        /\ requests' \in Nat /\ faults' \in Nat /\ alone' \in SUBSET Slot
    BY <1>1, <1>3 DEF Fault, history
  <2> QED
    BY <1>3, <2>1, Quiet
<1>4. ASSUME CallRefused(s) PROVE IInv'
  <2>1. GaveUp(r) \in Requests /\ Knows(GaveUp(r))
    BY <1>1, GaveUpKnows
  <2> QED
    BY <1>3, <1>4, <2>1 DEF CallRefused, Step
<1>5. ASSUME QueryFails(s) PROVE IInv'
  <2>1. /\ GaveUp(r) \in Requests /\ Knows(GaveUp(r))
        /\ Idle \in Requests /\ Knows(Idle)
    BY <1>1, GaveUpKnows, IdleIsOne DEF Knows, Idle
  <2> QED
    BY <1>3, <1>5, <2>1 DEF QueryFails, Step
<1>6. ASSUME NEW u \in Unit, PushFails(s, u) PROVE IInv'
  <2>1. LET x == [r EXCEPT !.todo = @ \ {u}] IN x \in Requests /\ Knows(x)
    BY <1>1 DEF Requests, Knows
  <2> QED
    BY <1>3, <1>6, <2>1 DEF PushFails, Step
<1> QED
  BY <1>2, <1>4, <1>5, <1>6 DEF Fails
-----------------------------------------------------------------------------
(* Handlers go on.                                                         *)

(* A step that only moves one request on.                                  *)
LEMMA Moves ==
  ASSUME IInv, NEW s \in Slot, NEW x \in Requests, Knows(x),
         req' = [req EXCEPT ![s] = x],
         UNCHANGED <<row, meta, worker, requests, faults, history>>
  PROVE  IInv'
<1>1. /\ UNCHANGED <<row, meta, worker, solo>>
      /\ requests' \in Nat /\ faults' \in Nat /\ alone' \in SUBSET Slot
  BY Typed DEF IInv, history
<1> QED
  BY <1>1, Quiet

(* A step that writes statuses and moves one request on.                   *)
LEMMA Writes ==
  ASSUME IInv, NEW s \in Slot, NEW x \in Requests, Knows(x),
         req' = [req EXCEPT ![s] = x], row' \in [Entity -> Rows],
         \A e \in Entity : row'[e].ext = row[e].ext,
         UNCHANGED <<meta, worker, requests, faults, history>>
  PROVE  IInv'
<1>1. /\ meta' \in [Obj -> Objects] /\ worker' \in SUBSET Reading
      /\ requests' \in Nat /\ faults' \in Nat
      /\ alone' \in SUBSET Slot /\ solo' \in SUBSET Obj
  BY Typed DEF IInv, history
<1>2. Kept
  BY DEF Kept
<1>3. Knows(x)'
  BY <1>2, KnowsKept
<1> QED
  BY <1>1, <1>2, <1>3, OneRequest

(* A created object is of the row and the parent of the request.           *)
LEMMA CallCreateKeeps ==
  ASSUME IInv, NEW s \in Slot, CallCreate(s)
  PROVE  IInv'
<1> DEFINE r == req[s]
<1>1. /\ r \in Requests /\ Knows(r) /\ r.pc = "create"
      /\ row \in [Entity -> Rows] /\ worker \in SUBSET Reading
      /\ alone \in SUBSET Slot /\ requests \in Nat /\ faults \in Nat
  BY Typed DEF IInv, CallCreate, At
<1>2. /\ Kept /\ meta' \in [Obj -> Objects] /\ solo' \in SUBSET Obj
      /\ NewObj \in Obj /\ meta'[NewObj].of = r.e
      /\ r.e \in Unit => /\ meta'[NewObj].under # None
                         /\ meta'[meta'[NewObj].under].of = Parent[r.e]
  BY CreateKeeps DEF CallCreate
<1>3. \A e \in Entity : r.ids[e] # None => meta'[r.ids[e]].of = e
  BY <1>1, <1>2, AdsAssumption DEF Knows, Kept, Requests
<1>4. ASSUME NEW x,
             x = [r EXCEPT !.pc = "store", !.got = NewObj, !.tries = 0]
      PROVE  x \in Requests /\ Knows(x)'
  BY <1>1, <1>2, <1>3, <1>4, AdsAssumption DEF Requests, Steps, Knows, Own
<1> QED
  BY <1>1, <1>2, <1>4, OneRequest DEF CallCreate, Step

(* An object's status changes, not what it is of.                          *)
LEMMA CallPostKeeps ==
  ASSUME IInv, NEW s \in Slot, CallPost(s)
  PROVE  IInv'
<1> DEFINE r == req[s]
           x == IF r.kind = "bulk"
                THEN [r EXCEPT !.pc = "bulk", !.tries = 0, !.e = None,
                               !.todo = @ \ {r.e}]
                ELSE [r EXCEPT !.pc = "write", !.tries = 0]
<1>1. /\ r \in Requests /\ Knows(r) /\ r.pc = "post" /\ r.e \in Entity
      /\ row \in [Entity -> Rows] /\ worker \in SUBSET Reading
      /\ alone \in SUBSET Slot /\ solo \in SUBSET Obj
      /\ requests \in Nat /\ faults \in Nat
  BY Typed DEF IInv, CallPost, At, Knows
<1>2. r.ids[r.e] \in Obj \cup {None} /\ r.to \in Status
  BY <1>1 DEF Requests
<1>3. Kept /\ meta' \in [Obj -> Objects]
  BY <1>2, StatusKeeps DEF CallPost, Apply
<1>4. x \in Requests /\ Knows(x)
  BY <1>1 DEF Requests, Steps, Knows
<1>5. req' = [req EXCEPT ![s] = x]
        /\ UNCHANGED <<row, worker, requests, faults, alone>> /\ UNCHANGED solo
  BY DEF CallPost, Step, Apply
<1> HIDE DEF x
<1>6. ASSUME NEW y \in Requests, y = x PROVE Knows(y)'
  BY <1>3, <1>4, <1>6, KnowsKept
<1> QED
  BY <1>1, <1>3, <1>4, <1>5, <1>6, OneRequest

(* The id that is stored is that of the row's own object.                  *)
LEMMA StoreKeeps ==
  ASSUME IInv, NEW s \in Slot, Store(s)
  PROVE  IInv'
<1> DEFINE r == req[s]
           x == [r EXCEPT !.pc = "push", !.e = None, !.got = None,
                          !.ids[r.e] = r.got,
                          !.todo = IF r.e \in Campaign THEN UnitsOf(r.e)
                                   ELSE @ \ {r.e}]
<1>1. /\ r \in Requests /\ Knows(r) /\ r.pc = "store" /\ r.e \in Entity
      /\ r.got \in Obj /\ Own(r.e, r.got) /\ r.kind = "launch"
      /\ row \in [Entity -> Rows] /\ meta \in [Obj -> Objects]
  BY Typed DEF IInv, Store, At, Knows, Requests
<1>2. UnitsOf(r.e) \in SUBSET Entity
  BY DEF UnitsOf, Entity
<1>3. x \in Requests
  BY <1>1, <1>2 DEF Requests, Steps
<1>4. /\ x.pc = "push" /\ x.kind = "launch"
      /\ x.ids = [r.ids EXCEPT ![r.e] = r.got]
  BY <1>1 DEF Requests
<1>5. Knows(x)
  BY <1>1, <1>4 DEF Knows, Own, Requests
<1>6. /\ row' = [row EXCEPT ![r.e] = [status |-> r.to, ext |-> r.got]]
      /\ req' = [req EXCEPT ![s] = x]
      /\ UNCHANGED <<meta, worker, requests, faults, alone, solo>>
  BY DEF Store, Step, history
<1> HIDE DEF x
<1>7. Kept
  BY <1>6 DEF Kept
<1>8. ASSUME NEW y \in Requests, y = x PROVE Knows(y)'
  BY <1>5, <1>7, <1>8, KnowsKept
<1>9. req' \in [Slot -> Requests] /\ \A q \in Slot : Knows(req[q])'
  BY <1>3, <1>6, <1>7, <1>8, RequestsKnow
<1>10. row' \in [Entity -> Rows]
  BY <1>1, <1>6 DEF Rows, Requests
<1>11. AdsTypeOK'
  BY <1>6, <1>9, <1>10 DEF IInv, AdsTypeOK, Rows, Objects, Requests, Steps
<1>12. LinkedIsOwn'
  BY <1>1, <1>6 DEF IInv, LinkedIsOwn, Own
<1> QED
  BY <1>9, <1>11, <1>12 DEF IInv

(* A row's status changes, not its id.                                     *)
LEMMA WriteKeeps ==
  ASSUME IInv, NEW s \in Slot, Write(s)
  PROVE  IInv'
<1> DEFINE r == req[s]
           x == IF r.kind = "sync"
                THEN [r EXCEPT !.pc = "sync", !.e = None, !.to = "PAUSED"]
                ELSE Idle
<1>1. /\ r \in Requests /\ Knows(r) /\ row \in [Entity -> Rows]
      /\ Idle \in Requests /\ Knows(Idle)
  BY Typed, IdleIsOne DEF IInv, Knows, Idle
<1>2. LET y == [r EXCEPT !.pc = "sync", !.e = None, !.to = "PAUSED"]
      IN  y \in Requests /\ (r.kind # "toggle" => Knows(y))
  <2> DEFINE y == [r EXCEPT !.pc = "sync", !.e = None, !.to = "PAUSED"]
  <2>1. y \in Requests
    BY <1>1 DEF Requests, Steps, Status
  <2>2. y.pc = "sync" /\ y.kind = r.kind /\ y.ids = r.ids
    BY <1>1 DEF Requests
  <2>3. r.kind # "toggle" => Knows(y)
    <3> HIDE DEF y
    <3> QED
      BY <1>1, <2>2 DEF Knows
  <2> QED
    BY <2>1, <2>3
<1>4. x \in Requests /\ Knows(x)
  BY <1>1, <1>2
<1>3. row' \in [Entity -> Rows] /\ \A e \in Entity : row'[e].ext = row[e].ext
  BY <1>1 DEF Write, Rows, Requests
<1> QED
  BY <1>3, <1>4, Writes DEF Write, Step

(* The rows of a bulk update keep their ids.                               *)
LEMMA BulkUpdateKeeps ==
  ASSUME IInv, NEW s \in Slot, BulkUpdate(s)
  PROVE  IInv'
<1> DEFINE r == req[s]
           x == [r EXCEPT !.pc = "bulk", !.todo = {e \in @ : r.ids[e] # None}]
<1>1. r \in Requests /\ Knows(r) /\ row \in [Entity -> Rows]
        /\ r.pc = "update"
  BY Typed DEF IInv, BulkUpdate, At
<1>2. x \in Requests /\ Knows(x)
  BY <1>1 DEF Requests, Steps, Knows
<1>3. row' \in [Entity -> Rows] /\ \A e \in Entity : row'[e].ext = row[e].ext
  BY <1>1 DEF BulkUpdate, Rows, Requests
<1> QED
  BY <1>2, <1>3, Writes DEF BulkUpdate, Step

(* Every step of a handler keeps the invariant.                            *)
LEMMA ProgressKeeps ==
  ASSUME IInv, NEW s \in Slot, Progress(s)
  PROVE  IInv'
<1> DEFINE r == req[s]
<1>1. /\ r \in Requests /\ Knows(r) /\ row \in [Entity -> Rows]
      /\ meta \in [Obj -> Objects] /\ Idle \in Requests /\ Knows(Idle)
  BY Typed, IdleIsOne DEF IInv, Knows, Idle
<1>2. ASSUME NEW u \in Unit, PushNext(s, u) PROVE IInv'
  <2>1. r.pc = "push" /\ r.kind = "launch" /\ r.ids[Parent[u]] # None
    BY <1>1, <1>2 DEF PushNext, At, Knows
  <2>2. /\ [r EXCEPT !.pc = "create", !.e = u] \in Requests
        /\ Knows([r EXCEPT !.pc = "create", !.e = u])
    BY <1>1, <2>1 DEF Requests, Steps, Knows, Entity
  <2> QED
    BY <1>2, <2>2, Moves DEF PushNext, Step
<1>3. ASSUME NEW e \in Entity, BulkNext(s, e) PROVE IInv'
  <2>1. /\ [r EXCEPT !.pc = "post", !.e = e] \in Requests
        /\ Knows([r EXCEPT !.pc = "post", !.e = e])
    BY <1>1 DEF Requests, Steps, Knows
  <2> QED
    BY <1>3, <2>1, Moves DEF BulkNext, Step
<1>4. ASSUME PushDone(s) \/ BulkDone(s) PROVE IInv'
  BY <1>1, <1>4, Moves DEF PushDone, BulkDone, Step
<1>5. ASSUME SyncList(s) PROVE IInv'
  <2> DEFINE level == NextLevel(s)
             x == [r EXCEPT !.pc = "sync", !.todo = @ \ level,
                            !.seen = {<<o, MapStatus(meta[o].status)>> :
                                o \in {p \in Obj : meta[p].of \in level}}]
  <2>1. \A v : MapStatus(v) \in Status
    BY DEF MapStatus, Status
  <2>2. x.seen \in SUBSET Reading /\ x.seen =
          {<<o, MapStatus(meta[o].status)>> :
              o \in {p \in Obj : meta[p].of \in level}}
    BY <1>1, <2>1 DEF Requests, Reading
  <2>3. x.todo \in SUBSET Entity
    BY <1>1 DEF Requests
  <2>4. x \in Requests
    BY <1>1, <2>2, <2>3 DEF Requests, Steps
  <2>5. x.pc = "sync" /\ x.kind = r.kind /\ x.ids = r.ids /\ r.pc = "list"
    BY <1>1, <1>5 DEF Requests, SyncList, At
  <2> HIDE DEF x
  <2>6. Knows(x)
    BY <1>1, <2>5 DEF Knows
  <2>7. req' = [req EXCEPT ![s] = x] \/ req' = [req EXCEPT ![s] = Idle]
    BY <1>5 DEF SyncList, Step, x
  <2> QED
    BY <1>1, <1>5, <2>4, <2>6, <2>7, Moves DEF SyncList
<1>6. ASSUME NEW o \in Obj, SyncFind(s, o) PROVE IInv'
  <2>1. PICK v \in Status :
          \/ \E e \in Entity :
               Step(s, [r EXCEPT !.pc = "write", !.e = e, !.to = v,
                                 !.seen = @ \ {<<o, v>>}])
          \/ Step(s, [r EXCEPT !.seen = @ \ {<<o, v>>}])
    BY <1>6 DEF SyncFind
  <2>2. UNCHANGED <<row, meta, worker, requests, faults, history>>
          /\ r.pc = "sync"
    BY <1>6 DEF SyncFind, At
  <2>3. ASSUME NEW e \in Entity
        PROVE  LET x == [r EXCEPT !.pc = "write", !.e = e, !.to = v,
                                  !.seen = @ \ {<<o, v>>}]
               IN x \in Requests /\ Knows(x)
    BY <1>1 DEF Requests, Steps, Knows
  <2>4. LET x == [r EXCEPT !.seen = @ \ {<<o, v>>}]
        IN x \in Requests /\ Knows(x)
    BY <1>1, <2>2 DEF Requests, Knows
  <2> QED
    BY <2>1, <2>2, <2>3, <2>4, Moves DEF Step
<1>7. ASSUME SyncLevelDone(s) PROVE IInv'
  <2>1. /\ [r EXCEPT !.pc = "list"] \in Requests
        /\ Knows([r EXCEPT !.pc = "list"])
    BY <1>1, <1>7 DEF Requests, Steps, Knows, SyncLevelDone, At
  <2> QED
    BY <1>7, <2>1, Moves DEF SyncLevelDone, Step
<1>8. ASSUME NEW u \in Unit, PushSkip(s, u) PROVE IInv'
  <2>1. LET x == [r EXCEPT !.todo = @ \ {u}] IN x \in Requests /\ Knows(x)
    BY <1>1 DEF Requests, Knows
  <2>2. row' \in [Entity -> Rows] /\ \A e \in Entity : row'[e].ext = row[e].ext
    BY <1>1, <1>8 DEF PushSkip, Rows, Requests
  <2> QED
    BY <1>8, <2>1, <2>2, Writes DEF PushSkip, Step
<1> QED
  BY <1>2, <1>3, <1>4, <1>5, <1>6, <1>7, <1>8, CallCreateKeeps, CallPostKeeps,
     StoreKeeps, WriteKeeps, BulkUpdateKeeps DEF Progress
-----------------------------------------------------------------------------
(* Steps of the seller at Meta, of the worker, and crashes.                *)

(* So do edits, the worker and crashes.                                    *)
LEMMA OthersKeep ==
  ASSUME IInv,
         \/ \E u \in Unit : EditUnit(u)
         \/ \E o \in Obj : EditAtMeta(o) \/ WorkerWrite(o)
         \/ WorkerList \/ ApiCrash \/ WorkerCrash \/ UNCHANGED vars
  PROVE  IInv'
<1>1. /\ row \in [Entity -> Rows] /\ meta \in [Obj -> Objects]
      /\ req \in [Slot -> Requests] /\ worker \in SUBSET Reading
      /\ requests \in Nat /\ faults \in Nat
      /\ alone \in SUBSET Slot /\ solo \in SUBSET Obj
      /\ Idle \in Requests /\ Knows(Idle)
      /\ \A s \in Slot : Knows(req[s])
  BY Typed, IdleIsOne DEF IInv, Knows, Idle
<1>2. ASSUME Kept, row' \in [Entity -> Rows], meta' \in [Obj -> Objects],
             \A e \in Entity : row'[e].ext = row[e].ext,
             req' = req \/ req' = [s \in Slot |-> Idle],
             worker' \in SUBSET Reading,
             requests' \in Nat, faults' \in Nat,
             alone' \in SUBSET Slot, solo' \in SUBSET Obj
      PROVE  IInv'
  <2>1. req' \in [Slot -> Requests]
    BY <1>1, <1>2
  <2>2. ASSUME NEW s \in Slot PROVE Knows(req[s])'
    <3>1. CASE req' = req
      <4>1. req[s] \in Requests /\ Knows(req[s]) /\ req'[s] = req[s]
        BY <1>1, <3>1
      <4> QED
        BY <1>2, <4>1, KnowsKept DEF Knows, Own
    <3>2. CASE req' = [q \in Slot |-> Idle]
      <4>1. req'[s] = Idle
        BY <3>2
      <4> QED
        BY <4>1, IdleIsOne DEF Knows, Idle
    <3> QED
      BY <1>2, <3>1, <3>2
  <2>3. LinkedIsOwn'
    BY <1>2, OwnKept
  <2>4. AdsTypeOK'
    BY <1>2, <2>1 DEF AdsTypeOK, Rows, Objects, Requests, Steps
  <2> QED
    BY <2>2, <2>3, <2>4 DEF IInv
<1>3. ASSUME UNCHANGED <<row, meta>>,
             req' = req \/ req' = [s \in Slot |-> Idle],
             worker' \in SUBSET Reading, requests' \in Nat, faults' \in Nat,
             alone' \in SUBSET Slot, solo' \in SUBSET Obj
      PROVE  IInv'
  BY <1>1, <1>2, <1>3 DEF Kept
<1>4. ASSUME NEW u \in Unit, EditUnit(u) PROVE IInv'
  <2>1. row' \in [Entity -> Rows] /\ \A e \in Entity : row'[e].ext = row[e].ext
    BY <1>1, <1>4 DEF EditUnit, Rows, Flip, Status, Entity
  <2>2. Kept /\ UNCHANGED <<meta, req, worker, faults, alone, solo>>
          /\ requests' \in Nat
    BY <1>1, <1>4 DEF EditUnit, Kept, history
  <2> QED
    BY <1>1, <1>2, <2>1, <2>2
<1>5. ASSUME NEW o \in Obj, EditAtMeta(o) PROVE IInv'
  <2>1. Flip(meta[o].status) \in Status
    BY DEF Flip, Status
  <2>2. meta' = [meta EXCEPT ![o].status = Flip(meta[o].status)]
    BY <1>1, <1>5 DEF EditAtMeta
  <2>3. Kept /\ meta' \in [Obj -> Objects]
    BY <2>1, <2>2, StatusKeeps
  <2>4. UNCHANGED <<row, req, worker, faults, solo>> /\ alone' = {}
          /\ requests' \in Nat
    BY <1>1, <1>5 DEF EditAtMeta
  <2> QED
    BY <1>1, <1>2, <2>3, <2>4
<1>6. ASSUME NEW o \in Obj, WorkerWrite(o) PROVE IInv'
  <2>1. PICK v \in Status :
          /\ worker' = worker \ {<<o, v>>}
          /\ row' = [e \in Entity |->
                      IF e \in Campaign /\ row[e].ext = o
                      THEN [row[e] EXCEPT !.status = v] ELSE row[e]]
    BY <1>6 DEF WorkerWrite
  <2>2. row' \in [Entity -> Rows] /\ \A e \in Entity : row'[e].ext = row[e].ext
    BY <1>1, <2>1 DEF Rows
  <2>3. Kept /\ UNCHANGED <<meta, req, requests, faults, alone, solo>>
          /\ worker' \in SUBSET Reading
    BY <1>1, <1>6, <2>1 DEF WorkerWrite, Kept, history
  <2> QED
    BY <1>1, <1>2, <2>2, <2>3
<1>7. ASSUME WorkerList PROVE IInv'
  <2>1. worker' \in SUBSET Reading
    BY <1>7 DEF WorkerList, Reading, MapStatus, Status
  <2>2. UNCHANGED <<row, meta, req, requests, faults, alone, solo>>
    BY <1>7 DEF WorkerList, history
  <2> QED
    BY <1>1, <1>3, <2>1, <2>2
<1>8. ASSUME ApiCrash PROVE IInv'
  BY <1>1, <1>3, <1>8 DEF ApiCrash, Fault, history
<1>9. ASSUME WorkerCrash PROVE IInv'
  BY <1>1, <1>3, <1>9 DEF WorkerCrash, Fault, history
<1>10. ASSUME UNCHANGED vars PROVE IInv'
  BY <1>1, <1>3, <1>10 DEF vars
<1> QED
  BY <1>4, <1>5, <1>6, <1>7, <1>8, <1>9, <1>10

(* Every step keeps the invariant.                                         *)
LEMMA StepIInv == IInv /\ [Next]_vars => IInv'
  BY ProgressKeeps, RequestedKeeps, FailsKeeps, OthersKeep DEF Next

(* In every state rows are linked to their own objects, and requests carry *)
(* ids that are true.                                                      *)
THEOREM LinkInvariant == Spec => []IInv
  BY InitIInv, StepIInv, PTL DEF Spec

(* The variables have their types.                                         *)
THEOREM AdsTypes == Spec => []AdsTypeOK
<1>1. IInv => AdsTypeOK
  BY DEF IInv
<1> QED
  BY <1>1, LinkInvariant, PTL

(* No retry, lost answer, crash or overlapping launch links a row to an    *)
(* object of another row, or a unit to one under another parent            *)
(* (campaigns.service.ts launchCampaign, pushAdsetsAndAds).                *)
THEOREM LinksAreOwn == Spec => []LinkedIsOwn
<1>1. IInv => LinkedIsOwn
  BY DEF IInv
<1> QED
  BY <1>1, LinkInvariant, PTL
-----------------------------------------------------------------------------
(* The contract.                                                           *)

(* An id that a request knows is in its row, or was and was replaced.      *)
Stored ==
  \A s \in Slot : \A e \in Entity :
    req[s].ids[e] # None => row[e].ext # None

(* Requests keep the ids they know, lose them all, or read them anew.      *)
IdsOf(r, x) ==
  \/ x.ids = r.ids
  \/ x.ids = NoIds
  \/ \E S \in SUBSET Entity : x.ids = Exts(S)

Steady ==
  /\ \A s \in Slot : IdsOf(req[s], req'[s])
  /\ \A e \in Entity : row'[e].ext = row[e].ext

SameObjects ==
  \A o \in Obj : meta'[o].of = meta[o].of /\ meta'[o].under = meta[o].under

(* A handler creates an object, whether or not it hears of it.             *)
Creates(s) == At(s, "create") /\ Create(s)

Makes == \E s \in Slot : Creates(s)

(* The step of one handler.                                                *)
Only(s) == \A q \in Slot : q # s => req'[q] = req[q]

(* A step of one slot that writes no id is steady.                         *)
LEMMA OneSteady ==
  ASSUME NEW s \in Slot, Only(s), IdsOf(req[s], req'[s]),
         \A e \in Entity : row'[e].ext = row[e].ext
  PROVE  Steady
  BY DEF Steady, IdsOf, Only

(* A change of a status leaves the objects' owners and parents.            *)
LEMMA SameStatus ==
  ASSUME IInv, NEW o \in Obj \cup {None}, NEW v,
         meta' = [meta EXCEPT ![o].status = v]
  PROVE  SameObjects
<1>1. meta \in [Obj -> Objects]
  BY Typed DEF IInv
<1> QED
  BY <1>1 DEF SameObjects, Objects

(* Handlers begin with no ids, or with those of the rows.                  *)
LEMMA RequestedSteady ==
  ASSUME IInv, NEW s \in Slot, Requested(s)
  PROVE  Steady /\ SameObjects
<1>1. ASSUME NEW r, Begin(s, r), IdsOf(req[s], r) PROVE Steady /\ SameObjects
  <2>1. Only(s) /\ req'[s] = r
    BY <1>1, Typed DEF Begin, Only, IInv
  <2> QED
    BY <1>1, <2>1, OneSteady DEF Begin, SameObjects
<1>2. Idle.ids = NoIds
  BY DEF Idle
<1>3. \A c \in Campaign : Launch(s, c) => Steady /\ SameObjects
  BY <1>1, <1>2 DEF Launch, IdsOf, Idle
<1>4. \A e \in Entity : Toggle(s, e) => Steady /\ SameObjects
  BY <1>1 DEF Toggle, IdsOf, Idle
<1>5. ASSUME NEW es \in SUBSET Entity, NEW v \in Status, Bulk(s, es, v)
      PROVE  Steady /\ SameObjects
  BY <1>1, <1>5 DEF Bulk, IdsOf, Idle
<1>6. Sync(s) => Steady /\ SameObjects
  BY <1>1, <1>2 DEF Sync, IdsOf, Idle
<1>7. \A L \in Levels : \A es \in SUBSET L \ {{}} : es \in SUBSET Entity
  BY DEF Levels, AdSets, Ads, Entity
<1> QED
  BY <1>3, <1>4, <1>5, <1>6, <1>7 DEF Requested

(* What a handler goes on with after a failed call.                        *)
LEMMA GaveUpIds ==
  ASSUME NEW r \in Requests
  PROVE  /\ GaveUp(r).ids = r.ids \/ GaveUp(r).ids = NoIds
         /\ Again(r).ids = r.ids \/ Again(r).ids = NoIds
<1>1. GaveUp(r).ids = r.ids \/ GaveUp(r).ids = NoIds
  BY DEF GaveUp, Idle, Requests
<1> QED
  BY <1>1 DEF Again, Requests

(* A failure creates at most the object that was asked for.                *)
LEMMA FailsSteady ==
  ASSUME IInv, NEW s \in Slot, Fails(s)
  PROVE  Steady /\ (SameObjects \/ Creates(s))
<1> DEFINE r == req[s]
<1>1. r \in Requests /\ Knows(r) /\ Idle.ids = NoIds
  BY Typed DEF IInv, Idle
<1>2. row' = row
  BY DEF Fails, CallFails, CallRefused, QueryFails, PushFails
<1>3. Only(s) /\ IdsOf(r, req'[s])
  <2>1. CASE CallFails(s) \/ CallRefused(s) \/ QueryFails(s)
    BY <1>1, <2>1, GaveUpIds, Typed
    DEF CallFails, CallRefused, QueryFails, Step, IdsOf, Only, IInv
  <2>2. CASE \E u \in Unit : PushFails(s, u)
    <3>1. PICK u \in Unit :
            req' = [req EXCEPT ![s] = [r EXCEPT !.todo = @ \ {u}]]
      BY <2>2 DEF PushFails, Step
    <3> QED
      BY <1>1, <3>1, Typed DEF IdsOf, Only, IInv, Requests
  <2> QED
    BY <2>1, <2>2 DEF Fails
<1>4. Steady
  BY <1>2, <1>3, OneSteady
<1>5. CASE CallFails(s)
  <2>1. CASE UNCHANGED meta
    BY <1>4, <2>1 DEF SameObjects
  <2>2. CASE At(s, "post") /\ Apply(s)
    <3>1. r.ids[r.e] \in Obj \cup {None}
      BY <1>1, <2>2 DEF Knows, Requests, At
    <3> QED
      BY <1>4, <2>2, <3>1, SameStatus DEF Apply
  <2> QED
    BY <1>4, <1>5, <2>1, <2>2 DEF CallFails, Creates
<1>6. CASE \/ CallRefused(s) \/ QueryFails(s)
           \/ \E u \in Unit : PushFails(s, u)
  BY <1>4, <1>6 DEF CallRefused, QueryFails, PushFails, SameObjects
<1> QED
  BY <1>5, <1>6 DEF Fails

(* Only Store writes an id, and only a create makes an object.             *)
LEMMA ProgressSteady ==
  ASSUME IInv, NEW s \in Slot, Progress(s), ~Store(s)
  PROVE  Steady /\ (SameObjects \/ Creates(s))
<1> DEFINE r == req[s]
<1>1. /\ r \in Requests /\ Knows(r) /\ Idle.ids = NoIds
      /\ row \in [Entity -> Rows] /\ req \in [Slot -> Requests]
  BY Typed DEF IInv, Idle
<1>2. ASSUME CallCreate(s) PROVE Steady /\ Creates(s)
  <2>1. Only(s) /\ req'[s].ids = r.ids
    BY <1>1, <1>2 DEF CallCreate, Step, Only, Requests
  <2>2. Steady
    BY <1>2, <2>1, OneSteady DEF CallCreate, IdsOf
  <2> QED
    BY <1>2, <2>2 DEF CallCreate, Creates
<1>3. ASSUME CallPost(s) PROVE Steady /\ SameObjects
  <2>1. Only(s) /\ req'[s].ids = r.ids
    BY <1>1, <1>3 DEF CallPost, Step, Only, Requests
  <2>2. Steady
    BY <1>3, <2>1, OneSteady DEF CallPost, IdsOf
  <2>3. r.ids[r.e] \in Obj \cup {None}
    BY <1>1, <1>3 DEF CallPost, At, Knows, Requests
  <2> QED
    BY <1>3, <2>2, <2>3, SameStatus DEF CallPost, Apply
<1>4. ASSUME meta' = meta, \A e \in Entity : row'[e].ext = row[e].ext,
             Only(s), req'[s].ids = r.ids \/ req'[s].ids = NoIds
      PROVE  Steady /\ SameObjects
  BY <1>4, OneSteady DEF IdsOf, SameObjects
<1>5. ASSUME Write(s) PROVE Steady /\ SameObjects
  <2>1. Only(s) /\ (req'[s].ids = r.ids \/ req'[s].ids = NoIds)
    BY <1>1, <1>5 DEF Write, Step, Only, Requests
  <2> QED
    BY <1>1, <1>4, <1>5, <2>1 DEF Write, Rows
<1>6. ASSUME BulkUpdate(s) PROVE Steady /\ SameObjects
  <2>1. Only(s) /\ req'[s].ids = r.ids
    BY <1>1, <1>6 DEF BulkUpdate, Step, Only, Requests
  <2> QED
    BY <1>1, <1>4, <1>6, <2>1 DEF BulkUpdate, Rows
<1>7. ASSUME \/ PushDone(s) \/ BulkDone(s) \/ SyncList(s)
             \/ SyncLevelDone(s)
             \/ \E u \in Unit : PushNext(s, u)
             \/ \E e \in Entity : BulkNext(s, e)
             \/ \E o \in Obj : SyncFind(s, o)
      PROVE  Steady /\ SameObjects
  <2>1. row' = row /\ meta' = meta
    BY <1>7
    DEF PushDone, BulkDone, SyncList, SyncLevelDone, PushNext, BulkNext,
        SyncFind
  <2>2. Only(s) /\ (req'[s].ids = r.ids \/ req'[s].ids = NoIds)
    <3>1. CASE PushDone(s) \/ BulkDone(s)
      BY <1>1, <3>1 DEF PushDone, BulkDone, Step, Only
    <3>2. CASE SyncList(s)
      BY <1>1, <3>2 DEF SyncList, Step, Only, Requests
    <3>3. CASE SyncLevelDone(s)
      BY <1>1, <3>3 DEF SyncLevelDone, Step, Only, Requests
    <3>4. CASE \/ \E u \in Unit : PushNext(s, u)
               \/ \E e \in Entity : BulkNext(s, e)
      BY <1>1, <3>4, ZenonT(30) DEF PushNext, BulkNext, Step, Only, Requests
    <3>5. CASE \E o \in Obj : SyncFind(s, o)
      BY <1>1, <3>5, ZenonT(30) DEF SyncFind, Step, Only, Requests
    <3> QED
      BY <1>7, <3>1, <3>2, <3>3, <3>4, <3>5
  <2> QED
    BY <1>4, <2>1, <2>2
<1>8. ASSUME NEW u \in Unit, PushSkip(s, u) PROVE Steady /\ SameObjects
  <2>1. Only(s) /\ req'[s].ids = r.ids
    BY <1>1, <1>8 DEF PushSkip, Step, Only, Requests
  <2> QED
    BY <1>1, <1>4, <1>8, <2>1 DEF PushSkip, Rows
<1> QED
  BY <1>2, <1>3, <1>5, <1>6, <1>7, <1>8 DEF Progress

(* Edits, the worker and crashes do neither.                               *)
LEMMA OthersSteady ==
  ASSUME IInv,
         \/ \E u \in Unit : EditUnit(u)
         \/ \E o \in Obj : EditAtMeta(o) \/ WorkerWrite(o)
         \/ WorkerList \/ ApiCrash \/ WorkerCrash \/ UNCHANGED vars
  PROVE  Steady /\ SameObjects
<1>1. row \in [Entity -> Rows] /\ Idle.ids = NoIds
  BY Typed DEF IInv, Idle
<1>2. \A s \in Slot : IdsOf(req[s], req'[s])
  <2>1. req' = req \/ req' = [s \in Slot |-> Idle]
    BY DEF EditUnit, EditAtMeta, WorkerWrite, WorkerList, ApiCrash,
           WorkerCrash, vars
  <2> QED
    BY <1>1, <2>1 DEF IdsOf
<1>3. \A e \in Entity : row'[e].ext = row[e].ext
  <2>1. CASE row' = row
    BY <2>1
  <2>2. CASE \E u \in Unit : EditUnit(u)
    BY <1>1, <2>2 DEF EditUnit, Rows
  <2>3. CASE \E o \in Obj : WorkerWrite(o)
    BY <1>1, <2>3 DEF WorkerWrite, Rows
  <2> QED
    BY <2>1, <2>2, <2>3
    DEF EditAtMeta, WorkerList, ApiCrash, WorkerCrash, vars
<1>4. SameObjects
  <2>1. CASE meta' = meta
    BY <2>1 DEF SameObjects
  <2>2. CASE \E o \in Obj : EditAtMeta(o)
    <3>1. PICK o \in Obj :
            meta' = [meta EXCEPT ![o].status = Flip(meta[o].status)]
      BY <2>2, Typed DEF EditAtMeta, IInv
    <3> QED
      BY <3>1, SameStatus
  <2> QED
    BY <2>1, <2>2
    DEF EditUnit, WorkerWrite, WorkerList, ApiCrash, WorkerCrash, vars
<1> QED
  BY <1>2, <1>3, <1>4 DEF Steady

(* A step stores an id, or leaves links alone and creates at most one      *)
(* object.                                                                 *)
LEMMA StepKinds ==
  ASSUME IInv, [Next]_vars
  PROVE  \/ \E s \in Slot : Store(s)
         \/ Steady /\ (SameObjects \/ Makes)
  BY RequestedSteady, FailsSteady, ProgressSteady, OthersSteady
  DEF Next, Makes

(* What Store changes.                                                     *)
LEMMA StoreLinks ==
  ASSUME IInv, NEW s \in Slot, Store(s)
  PROVE  /\ req[s].e \in Entity /\ req[s].got \in Obj
         /\ meta[req[s].got].of = req[s].e
         /\ row'[req[s].e].ext = req[s].got
         /\ \A e \in Entity : e # req[s].e => row'[e] = row[e]
         /\ meta' = meta
         /\ req'[s].ids = [req[s].ids EXCEPT ![req[s].e] = req[s].got]
         /\ \A q \in Slot : q # s => req'[q] = req[q]
<1>1. /\ req[s] \in Requests /\ Knows(req[s]) /\ req[s].pc = "store"
      /\ row \in [Entity -> Rows] /\ req \in [Slot -> Requests]
  BY Typed DEF IInv, Store, At
<1>2. /\ req[s].e \in Entity /\ req[s].got \in Obj
      /\ meta[req[s].got].of = req[s].e
  BY <1>1 DEF Knows, Own, Requests
<1>3. /\ row'[req[s].e].ext = req[s].got
      /\ \A e \in Entity : e # req[s].e => row'[e] = row[e]
      /\ meta' = meta
  BY <1>1, <1>2 DEF Store
<1>4. /\ req'[s].ids = [req[s].ids EXCEPT ![req[s].e] = req[s].got]
      /\ \A q \in Slot : q # s => req'[q] = req[q]
  BY <1>1 DEF Store, Step, Requests
<1> QED
  BY <1>2, <1>3, <1>4

(* No row loses its id, so what a request knows stays stored.              *)
LEMMA StepStored ==
  ASSUME IInv, Stored, [Next]_vars PROVE Stored'
<1>1. CASE Steady
  <2> SUFFICES ASSUME NEW s \in Slot, NEW e \in Entity,
                      req'[s].ids[e] # None
               PROVE  row[e].ext # None
    BY <1>1 DEF Steady, Stored
  <2>1. IdsOf(req[s], req'[s])
    BY <1>1 DEF Steady
  <2>2. CASE req'[s].ids = req[s].ids
    BY <2>2 DEF Stored
  <2>3. CASE req'[s].ids = NoIds
    BY <2>3 DEF NoIds
  <2>4. CASE \E S \in SUBSET Entity : req'[s].ids = Exts(S)
    BY <2>4 DEF Exts
  <2> QED
    BY <2>1, <2>2, <2>3, <2>4 DEF IdsOf
<1>2. ASSUME NEW s \in Slot, Store(s) PROVE Stored'
  <2>0. None \notin Obj
    BY AdsAssumption
  <2>1. \A e \in Entity : row[e].ext # None => row'[e].ext # None
    BY <1>2, <2>0, StoreLinks
  <2>2. \A e \in Entity :
          req'[s].ids[e] # None => req[s].ids[e] # None \/ e = req[s].e
    BY <1>2, StoreLinks, Typed, ZenonT(30) DEF IInv, Requests
  <2>3. row'[req[s].e].ext # None
    BY <1>2, <2>0, StoreLinks
  <2>4. \A e \in Entity : req'[s].ids[e] # None => row'[e].ext # None
    BY <2>1, <2>2, <2>3 DEF Stored
  <2>5. \A q \in Slot : q # s => req'[q] = req[q]
    BY <1>2, StoreLinks
  <2>6. ASSUME NEW q \in Slot, q # s
        PROVE  \A e \in Entity : req'[q].ids[e] # None => row'[e].ext # None
    BY <2>1, <2>5, <2>6 DEF Stored
  <2> QED
    BY <2>4, <2>6 DEF Stored
<1> QED
  BY <1>1, <1>2, StepKinds

(* Storing an id is the contract's link.                                   *)
LEMMA StoreIsLink ==
  ASSUME IInv, NEW s \in Slot, Store(s) PROVE Links!Next
<1>1. PICK e \in Campaign \cup Unit, o \in Obj :
        e = req[s].e /\ o = req[s].got
  BY StoreLinks DEF Entity
<1>2. Links!Link(e, o)
  BY <1>1, StoreLinks, ZenonT(30) DEF Links!Link, Entity
<1> QED
  BY <1>2 DEF Links!Next

(* An object that appears at Meta is one the contract makes.               *)
LEMMA CreateIsMake ==
  ASSUME IInv, Stored, NEW s \in Slot, Creates(s),
         \A e \in Entity : row'[e].ext = row[e].ext
  PROVE  Links!Next
<1> DEFINE r == req[s]
<1>1. /\ r \in Requests /\ Knows(r) /\ r.pc = "create" /\ r.e \in Entity
      /\ meta \in [Obj -> Objects] /\ NewObj \in Obj
      /\ meta[NewObj].of = None
  BY Typed, NewIsFree DEF IInv, Creates, Create, At, Knows
<1>2. meta' = [meta EXCEPT ![NewObj] =
        [of |-> r.e,
         status |-> IF r.e \in Campaign THEN r.to ELSE "ACTIVE",
         under |-> IF r.e \in Campaign THEN None ELSE r.ids[Parent[r.e]]]]
  BY DEF Creates, Create
<1>3. [e \in Entity |-> row'[e].ext] = [e \in Entity |-> row[e].ext]
  OBVIOUS
<1>4. PICK n \in Obj, e \in Entity : n = NewObj /\ e = r.e
  BY <1>1
<1>5. PICK p : p = IF r.e \in Campaign THEN None ELSE r.ids[Parent[r.e]]
  OBVIOUS
<1>6. Links!Make(n, e, p)
  <2>1. /\ [o \in Obj |-> meta'[o].of]
             = [[o \in Obj |-> meta[o].of] EXCEPT ![n] = e]
        /\ [o \in Obj |-> meta'[o].under]
             = [[o \in Obj |-> meta[o].under] EXCEPT ![n] = p]
    BY <1>1, <1>2, <1>4, <1>5
  <2> QED
    BY <1>1, <1>3, <1>4, <2>1 DEF Links!Make
<1>7. CASE e \in Campaign
  <2>1. p = None
    BY <1>4, <1>5, <1>7
  <2> QED
    BY <1>6, <1>7, <2>1 DEF Links!MakeCampaign, Links!Next
<1>8. CASE e \in Unit
  <2>1. /\ Parent[e] \in Entity /\ e \notin Campaign
        /\ p \in Obj /\ meta[p].of = Parent[e]
    BY <1>1, <1>4, <1>5, <1>8, AdsAssumption DEF Knows, Requests
  <2>2. row[Parent[e]].ext # None
    BY <1>1, <1>4, <1>8, <2>1 DEF Stored, Knows
  <2>3. Links!MakeUnit(n, e, p)
    BY <1>6, <2>1, <2>2 DEF Links!MakeUnit
  <2> QED
    BY <1>8, <2>1, <2>3 DEF Links!Next
<1> QED
  BY <1>7, <1>8 DEF Entity

(* The contract sees nothing of the other steps.                           *)
LEMMA SteadyIsStutter ==
  ASSUME Steady, SameObjects PROVE UNCHANGED Links!linkVars
  BY DEF Steady, SameObjects, Links!linkVars

(* Through every retry, lost answer, crash and overlap, objects are made   *)
(* from the top, for one row each, and rows are linked only to their own   *)
(* (campaigns.service.ts launchCampaign, pushAdsetsAndAds): AdsSync        *)
(* implements LinkContract.                                                *)
THEOREM LinksAreKept == Spec => LinksKept
<1>1. Init => Stored /\ Links!Init
  <2> SUFFICES ASSUME Init PROVE Stored /\ Links!Init
    OBVIOUS
  <2>1. Stored
    BY DEF Init, Stored, Idle, NoIds
  <2>2. Links!Init
    BY DEF Init, Links!Init, Entity
  <2> QED
    BY <2>1, <2>2
<1>2. IInv /\ Stored /\ [Next]_vars => Stored'
  BY StepStored
<1>3. IInv /\ Stored /\ [Next]_vars => [Links!Next]_(Links!linkVars)
  <2> SUFFICES ASSUME IInv, Stored, [Next]_vars
               PROVE  Links!Next \/ UNCHANGED Links!linkVars
    OBVIOUS
  <2> QED
    BY StepKinds, StoreIsLink, CreateIsMake, SteadyIsStutter
    DEF Makes, Steady
<1> QED
  BY <1>1, <1>2, <1>3, LinkInvariant, PTL DEF Spec, LinksKept, Links!Spec

-----------------------------------------------------------------------------
(* Requests that are alone.                                                *)

(* Nobody else is at work beside a request that is alone.                  *)
Lone == \A s \in alone : \A q \in Slot : q # s => At(q, "idle")

(* What such a request read is still so: the campaign it creates is not at *)
(* Meta, the one it pauses or resumes is linked to the object it was; and  *)
(* before the row is written Meta has done it.                             *)
Sound(r) ==
  /\ r.pc = "create" /\ r.e \in Campaign => row[r.e].ext = None
  /\ r.kind = "toggle" /\ r.e \in Campaign /\ r.pc \in {"post", "write"} =>
       /\ row[r.e].ext = r.ids[r.e] /\ row[r.e].ext # None
       /\ r.pc = "write" => meta[row[r.e].ext].status = r.to

Finds == \A s \in alone : Sound(req[s])

(* The campaign is linked, or a launch is about to link it.                *)
Known(c) == \/ row[c].ext # None
            \/ \E s \in Slot : At(s, "store") /\ req[s].e = c

Recorded ==
  /\ \A o \in solo : meta[o].of # None
  /\ faults = 0 =>
       \A o \in solo : meta[o].of \in Campaign => Known(meta[o].of)

(* The inductive invariant of requests that are alone.                     *)
AInv == IInv /\ Lone /\ Finds /\ Recorded /\ LaunchedOnce

(* At first nobody works.                                                  *)
LEMMA InitAInv == Init => AInv
<1> SUFFICES ASSUME Init PROVE AInv
  OBVIOUS
<1>1. alone = {} /\ solo = {}
  BY DEF Init
<1> QED
  BY <1>1, InitIInv DEF AInv, Lone, Finds, Recorded, LaunchedOnce

(* A step of one handler leaves the others what they were.                 *)
LEMMA AloneKept ==
  ASSUME AInv, NEW s \in Slot, ~At(s, "idle"), NEW x \in Requests,
         req' = [req EXCEPT ![s] = x], alone' = alone, s \in alone => Sound(x)'
  PROVE  Lone' /\ Finds'
<1>1. req \in [Slot -> Requests] /\ alone \in SUBSET Slot
  BY Typed DEF AInv, IInv
<1>2. \A q \in alone : q = s
  BY <1>1 DEF AInv, Lone
<1>3. Lone'
  BY <1>1, <1>2 DEF AInv, Lone, At
<1>4. s \in alone => req'[s] = x
  BY <1>1
<1> QED
  BY <1>2, <1>3, <1>4 DEF Finds, Sound

(* What was created alone stays so.                                        *)
LEMMA SoloKept ==
  ASSUME AInv, Kept, solo' = solo,
         faults' = 0 => /\ faults = 0
                        /\ \A c \in Campaign : Known(c) => Known(c)'
  PROVE  Recorded' /\ LaunchedOnce'
<1>1. \A o \in solo : o \in Obj /\ meta[o].of # None
                        /\ meta'[o].of = meta[o].of
  BY Typed DEF AInv, IInv, Recorded, Kept
<1>2. Recorded'
  BY <1>1 DEF AInv, Recorded
<1>3. LaunchedOnce'
  BY <1>1 DEF AInv, LaunchedOnce
<1> QED
  BY <1>2, <1>3

(* A campaign whose object is known stays so.                              *)
LEMMA KnownKept ==
  ASSUME IInv, NEW s \in Slot, ~At(s, "store"), NEW x \in Requests,
         req' = [req EXCEPT ![s] = x],
         \A e \in Entity : row'[e].ext = row[e].ext
  PROVE  \A c \in Campaign : Known(c) => Known(c)'
<1>1. req \in [Slot -> Requests]
  BY Typed DEF IInv
<1>2. \A q \in Slot : At(q, "store") => req'[q] = req[q]
  BY <1>1 DEF At
<1> QED
  BY <1>2 DEF Known, At, Entity

(* A step of one handler that creates and links nothing.                   *)
LEMMA HandlerMoves ==
  ASSUME AInv, NEW s \in Slot, ~At(s, "idle"), ~At(s, "store"),
         NEW x \in Requests, req' = [req EXCEPT ![s] = x],
         s \in alone => Sound(x)', Kept,
         \A e \in Entity : row'[e].ext = row[e].ext,
         UNCHANGED <<faults, alone, solo>>
  PROVE  Lone' /\ Finds' /\ Recorded' /\ LaunchedOnce'
<1>1. Lone' /\ Finds'
  BY AloneKept
<1>2. \A c \in Campaign : Known(c) => Known(c)'
  BY KnownKept DEF AInv
<1> QED
  BY <1>1, <1>2, SoloKept

(* A request that neither creates nor pauses is sound.                     *)
LEMMA OthersSound ==
  ASSUME NEW x \in Requests,
         \/ x.pc \notin {"create", "post", "write"}
         \/ x.kind # "toggle" /\ (x.pc = "create" => x.e \in Unit)
         \/ x.kind = "toggle" /\ x.pc = "write" /\ x.e \in Unit
  PROVE  Sound(x)'
  BY AdsAssumption DEF Sound

(* A handler begins with what it reads.                                    *)
LEMMA BeginAlone ==
  ASSUME AInv, NEW s \in Slot, NEW x \in Requests, Sound(x), Begin(s, x)
  PROVE  Lone' /\ Finds' /\ Recorded' /\ LaunchedOnce'
<1>1. req \in [Slot -> Requests] /\ alone \in SUBSET Slot
  BY Typed DEF AInv, IInv
<1>2. /\ req' = [req EXCEPT ![s] = x] /\ At(s, "idle")
      /\ UNCHANGED <<row, meta, faults, solo>>
      /\ \/ alone' = {s} /\ \A q \in Slot : At(q, "idle")
         \/ alone' = {}
  BY DEF Begin
<1>3. Lone'
  BY <1>1, <1>2 DEF Lone, At
<1>4. Finds'
  <2>1. req'[s] = x
    BY <1>1, <1>2
  <2> QED
    BY <1>2, <2>1 DEF Finds, Sound
<1>5. \A c \in Campaign : Known(c) => Known(c)'
  BY <1>2, KnownKept DEF AInv, At
<1>6. Kept
  BY <1>2 DEF Kept
<1> QED
  BY <1>2, <1>3, <1>4, <1>5, <1>6, SoloKept

(* Who begins with nobody else at work reads what stays true.              *)
LEMMA RequestedAlone ==
  ASSUME AInv, NEW s \in Slot, Requested(s)
  PROVE  Lone' /\ Finds' /\ Recorded' /\ LaunchedOnce'
<1>1. row \in [Entity -> Rows] /\ IInv
  BY Typed DEF AInv, IInv
<1>2. ASSUME NEW c \in Campaign, Launch(s, c)
      PROVE  Lone' /\ Finds' /\ Recorded' /\ LaunchedOnce'
  <2> DEFINE r == [Idle EXCEPT !.pc = "create", !.kind = "launch", !.e = c,
                               !.to = row[c].status]
  <2>1. r \in Requests /\ r.e = c /\ r.kind = "launch" /\ r.pc = "create"
    BY <1>1, IdleIsOne DEF Requests, Steps, Rows, Entity
  <2>2. Sound(r)
    <3> HIDE DEF r
    <3> QED
      BY <1>2, <2>1 DEF Sound, Launch
  <2> QED
    BY <1>2, <2>1, <2>2, BeginAlone DEF Launch
<1>3. ASSUME NEW e \in Entity, Toggle(s, e)
      PROVE  Lone' /\ Finds' /\ Recorded' /\ LaunchedOnce'
  <2> DEFINE r == [Idle EXCEPT
       !.pc = IF row[e].ext # None THEN "post" ELSE "write",
       !.kind = "toggle", !.e = e, !.to = Flip(row[e].status),
       !.ids = Exts({e})]
  <2>1. Flip(row[e].status) \in Status
    BY DEF Flip, Status
  <2>2. r \in Requests
    BY <2>1, <1>1, ExtsOwn, IdleIsOne DEF Requests, Steps
  <2>3. /\ r.e = e /\ r.ids[e] = row[e].ext
        /\ r.pc = IF row[e].ext # None THEN "post" ELSE "write"
    BY IdleIsOne DEF Exts, Requests
  <2>4. e \in Campaign => row[e].ext # None
    BY <1>3 DEF Toggle
  <2>5. Sound(r)
    <3> HIDE DEF r
    <3> QED
      BY <2>3, <2>4 DEF Sound
  <2> QED
    BY <1>3, <2>2, <2>5, BeginAlone DEF Toggle
<1>4. ASSUME NEW es \in SUBSET Entity, NEW v \in Status, Bulk(s, es, v)
      PROVE  Lone' /\ Finds' /\ Recorded' /\ LaunchedOnce'
  <2> DEFINE r == [Idle EXCEPT !.pc = "update", !.kind = "bulk", !.to = v,
                               !.todo = es, !.ids = Exts(es)]
  <2>1. r \in Requests
    BY <1>1, IdleIsOne, ExtsOwn DEF Requests, Steps
  <2>2. Sound(r)
    BY IdleIsOne DEF Requests, Sound
  <2> QED
    BY <1>4, <2>1, <2>2, BeginAlone DEF Bulk
<1>5. ASSUME Sync(s) PROVE Lone' /\ Finds' /\ Recorded' /\ LaunchedOnce'
  <2> DEFINE r == [Idle EXCEPT !.pc = "list", !.kind = "sync", !.todo = Entity]
  <2>1. r \in Requests /\ Sound(r)
    BY IdleIsOne DEF Requests, Steps, Sound
  <2> QED
    BY <1>5, <2>1, BeginAlone DEF Sync
<1>6. \A L \in Levels : \A es \in SUBSET L \ {{}} : es \in SUBSET Entity
  BY DEF Levels, AdSets, Ads, Entity
<1> QED
  BY <1>2, <1>3, <1>4, <1>5, <1>6 DEF Requested, Entity

(* A failure: it may leave an object nobody knows.                         *)
LEMMA FailsAlone ==
  ASSUME AInv, NEW s \in Slot, Fails(s)
  PROVE  Lone' /\ Finds' /\ Recorded' /\ LaunchedOnce'
<1> DEFINE r == req[s]
<1>1. /\ req \in [Slot -> Requests] /\ r \in Requests /\ Knows(r)
      /\ IInv /\ faults \in Nat
  BY Typed DEF AInv, IInv
<1>2. faults' # 0 /\ UNCHANGED <<row, alone>> /\ ~At(s, "idle")
  <2>1. faults' = faults + 1 /\ UNCHANGED <<row, alone>>
    BY DEF Fails, CallFails, CallRefused, QueryFails, PushFails, Fault, history
  <2>2. ~At(s, "idle")
    BY DEF Fails, CallFails, CallRefused, QueryFails, PushFails, At
  <2> QED
    BY <1>1, <2>1, <2>2
<1>3. LaunchedOnce'
  BY <1>2 DEF LaunchedOnce
<1>4. \A o \in solo' : meta'[o].of # None
  <2>1. ASSUME UNCHANGED <<meta, solo>>
        PROVE  \A o \in solo' : meta'[o].of # None
    BY <2>1 DEF AInv, Recorded
  <2>2. ASSUME At(s, "create"), Create(s)
        PROVE  \A o \in solo' : meta'[o].of # None
    <3>1. Kept /\ NewObj \in Obj /\ meta'[NewObj].of = r.e
      BY <1>1, <2>2, CreateKeeps
    <3>2. r.e # None
      BY <1>1, <2>2, AdsAssumption DEF Knows, At
    <3>3. \A o \in solo : o \in Obj /\ meta[o].of # None
      BY Typed DEF AInv, IInv, Recorded
    <3> QED
      BY <2>2, <3>1, <3>2, <3>3 DEF Create, Kept
  <2>3. ASSUME At(s, "post"), Apply(s)
        PROVE  \A o \in solo' : meta'[o].of # None
    <3>1. r.ids[r.e] \in Obj \cup {None} /\ r.to \in Status
      BY <1>1, <2>3 DEF Knows, Requests, At
    <3>2. Kept
      BY <1>1, <2>3, <3>1, StatusKeeps DEF Apply
    <3>3. \A o \in solo : o \in Obj /\ meta[o].of # None
      BY Typed DEF AInv, IInv, Recorded
    <3> QED
      BY <2>3, <3>2, <3>3 DEF Apply, Kept
  <2> QED
    BY <2>1, <2>2, <2>3
    DEF Fails, CallFails, CallRefused, QueryFails, PushFails, history
<1>5. Recorded'
  BY <1>2, <1>4 DEF Recorded
<1>6. PICK x \in Requests : req' = [req EXCEPT ![s] = x]
        /\ \/ x = GaveUp(r) \/ x = Idle \/ x.pc = "push"
           \/ x = [r EXCEPT !.tries = @ + 1] /\ r.pc \in {"create", "post"}
  <2>1. GaveUp(r) \in Requests /\ Again(r) \in Requests /\ Idle \in Requests
    BY <1>1, GaveUpKnows, AgainKnows, IdleIsOne
  <2>2. Again(r) = GaveUp(r) \/ Again(r) = [r EXCEPT !.tries = @ + 1]
    BY DEF Again
  <2>3. \A u \in Unit : PushFails(s, u) =>
          LET y == [r EXCEPT !.todo = @ \ {u}]
          IN  y \in Requests /\ y.pc = "push" /\ req' = [req EXCEPT ![s] = y]
    BY <1>1 DEF PushFails, Step, At, Requests
  <2> QED
    BY <2>1, <2>2, <2>3 DEF Fails, CallFails, CallRefused, QueryFails, Step
<1>7. CASE x = GaveUp(r) \/ x = Idle \/ x.pc = "push"
  <2>1. \/ x.pc \notin {"create", "post", "write"}
        \/ x.kind = "toggle" /\ x.pc = "write" /\ x.e \in Unit
    <3> DEFINE pushed == [r EXCEPT !.pc = "push", !.tries = 0, !.e = None,
                            !.todo = {u \in @ : u # r.e /\ Parent[u] # r.e}]
               wrote == [r EXCEPT !.pc = "write", !.tries = 0]
               next == [r EXCEPT !.pc = "bulk", !.tries = 0, !.e = None,
                                 !.todo = @ \ {r.e}]
    <3>1. pushed.pc = "push" /\ next.pc = "bulk" /\ Idle.pc = "idle"
      BY <1>1 DEF Requests, Idle
    <3>2. wrote.pc = "write" /\ wrote.kind = r.kind /\ wrote.e = r.e
      BY <1>1 DEF Requests
    <3>3. \/ x \in {pushed, next, Idle} \/ x.pc = "push"
          \/ x = wrote /\ r.kind = "toggle" /\ r.e \in Unit
      BY <1>7 DEF GaveUp
    <3> HIDE DEF pushed, wrote, next
    <3> QED
      BY <3>1, <3>2, <3>3
  <2>2. Sound(x)'
    BY <2>1, OthersSound
  <2> QED
    BY <1>2, <1>3, <1>5, <1>6, <2>2, AloneKept
<1>8. CASE x = [r EXCEPT !.tries = @ + 1] /\ r.pc \in {"create", "post"}
  <2>1. /\ x.pc = r.pc /\ x.kind = r.kind /\ x.e = r.e /\ x.ids = r.ids
        /\ x.to = r.to
    BY <1>1, <1>8 DEF Requests
  <2>2. s \in alone => Sound(x)'
    BY <1>2, <1>8, <2>1 DEF AInv, Finds, Sound
  <2> QED
    BY <1>2, <1>3, <1>5, <1>6, <2>2, AloneKept
<1> QED
  BY <1>6, <1>7, <1>8

(* An object created alone is the first of its campaign: the campaign was  *)
(* not linked, and nobody else was about to link it.                       *)
LEMMA CallCreateAlone ==
  ASSUME AInv, NEW s \in Slot, CallCreate(s)
  PROVE  Lone' /\ Finds' /\ Recorded' /\ LaunchedOnce'
<1> DEFINE r == req[s]
<1>1. /\ req \in [Slot -> Requests] /\ r \in Requests /\ Knows(r)
      /\ r.pc = "create" /\ solo \in SUBSET Obj /\ alone \in SUBSET Slot
      /\ IInv /\ r.e \in Entity
  BY Typed DEF AInv, IInv, CallCreate, At, Knows
<1>2. /\ Kept /\ NewObj \in Obj /\ meta'[NewObj].of = r.e
      /\ meta[NewObj].of = None
  BY <1>1, CreateKeeps, NewIsFree DEF CallCreate, Create
<1>3. PICK x \in Requests : /\ x.pc = "store" /\ x.e = r.e
                            /\ req' = [req EXCEPT ![s] = x]
  <2>1. [r EXCEPT !.pc = "store", !.got = NewObj, !.tries = 0] \in Requests
    BY <1>1, <1>2 DEF Requests, Steps
  <2>2. LET y == [r EXCEPT !.pc = "store", !.got = NewObj, !.tries = 0]
        IN  y.pc = "store" /\ y.e = r.e
    BY <1>1 DEF Requests
  <2> QED
    BY <2>1, <2>2 DEF CallCreate, Step
<1>4. Lone' /\ Finds'
  <2>1. Sound(x)'
    BY <1>3, OthersSound
  <2> QED
    BY <1>1, <1>3, <2>1, AloneKept DEF CallCreate, At
<1>5. UNCHANGED <<row, faults>>
        /\ solo' = IF s \in alone THEN solo \cup {NewObj} ELSE solo
  BY DEF CallCreate, Create
<1>6. \A c \in Campaign : Known(c) => Known(c)'
  BY <1>1, <1>3, <1>5, KnownKept DEF At
<1>7. \A o \in solo : o \in Obj /\ meta[o].of # None
                        /\ meta'[o].of = meta[o].of
  BY <1>1, <1>2 DEF AInv, Recorded, Kept
<1>8. r.e # None
  BY <1>1, AdsAssumption
<1>9. Recorded'
  <2>1. \A o \in solo' : meta'[o].of # None
    BY <1>2, <1>5, <1>7, <1>8
  <2>2. ASSUME NEW c \in Campaign, r.e = c PROVE Known(c)'
    <3>1. At(s, "store")' /\ req'[s].e = c
      BY <1>1, <1>3, <2>2 DEF At
    <3> QED
      BY <3>1 DEF Known
  <2>3. ASSUME faults' = 0, NEW o \in solo', NEW c \in Campaign,
               meta'[o].of = c
        PROVE  Known(c)'
    <3>1. CASE o \in solo
      BY <1>5, <1>6, <1>7, <2>3, <3>1 DEF AInv, Recorded
    <3>2. CASE o \notin solo
      BY <1>2, <1>5, <2>2, <2>3, <3>2
    <3> QED
      BY <3>1, <3>2
  <2> QED
    BY <2>1, <2>3 DEF Recorded, Known
<1>10. ASSUME faults = 0, s \in alone, NEW o \in solo, meta[o].of \in Campaign
       PROVE  meta[o].of # r.e
  <2>1. Known(meta[o].of)
    BY <1>10 DEF AInv, Recorded
  <2>2. \A q \in Slot : ~At(q, "store")
    BY <1>1, <1>10 DEF AInv, Lone, At
  <2>3. row[meta[o].of].ext # None
    BY <2>1, <2>2 DEF Known
  <2> QED
    BY <1>1, <1>10, <2>3 DEF AInv, Finds, Sound
<1>11. LaunchedOnce'
  BY <1>2, <1>5, <1>7, <1>10 DEF AInv, LaunchedOnce
<1> QED
  BY <1>4, <1>9, <1>11

(* Meta has done what is written next.                                     *)
LEMMA CallPostAlone ==
  ASSUME AInv, NEW s \in Slot, CallPost(s)
  PROVE  Lone' /\ Finds' /\ Recorded' /\ LaunchedOnce'
<1> DEFINE r == req[s]
<1>1. /\ r \in Requests /\ Knows(r) /\ r.pc = "post" /\ r.e \in Entity
      /\ meta \in [Obj -> Objects] /\ IInv
  BY Typed DEF AInv, IInv, CallPost, At, Knows
<1>2. r.ids[r.e] \in Obj \cup {None} /\ r.to \in Status
  BY <1>1 DEF Requests
<1>3. meta' = [meta EXCEPT ![r.ids[r.e]].status = r.to]
        /\ UNCHANGED <<row, faults, alone, solo>>
  BY DEF CallPost, Apply
<1>4. Kept
  BY <1>1, <1>2, <1>3, StatusKeeps
<1>5. PICK x \in Requests :
        /\ req' = [req EXCEPT ![s] = x]
        /\ \/ x.pc = "bulk"
           \/ /\ x.pc = "write" /\ x.kind = r.kind /\ x.e = r.e
              /\ x.to = r.to /\ x.ids = r.ids
  <2> DEFINE y == [r EXCEPT !.pc = "bulk", !.tries = 0, !.e = None,
                            !.todo = @ \ {r.e}]
             z == [r EXCEPT !.pc = "write", !.tries = 0]
  <2>1. y \in Requests /\ y.pc = "bulk"
    BY <1>1 DEF Requests, Steps
  <2>2. /\ z \in Requests /\ z.pc = "write" /\ z.kind = r.kind /\ z.e = r.e
        /\ z.to = r.to /\ z.ids = r.ids
    BY <1>1 DEF Requests, Steps
  <2> QED
    BY <2>1, <2>2 DEF CallPost, Step
<1>6. ASSUME s \in alone, r.kind = "toggle", r.e \in Campaign
      PROVE  /\ row'[r.e].ext = r.ids[r.e] /\ row'[r.e].ext # None
             /\ meta'[row'[r.e].ext].status = r.to
  <2>1. row[r.e].ext = r.ids[r.e] /\ row[r.e].ext # None
    BY <1>1, <1>6 DEF AInv, Finds, Sound
  <2>2. r.ids[r.e] \in Obj
    BY <1>2, <2>1
  <2> QED
    BY <1>1, <1>3, <2>1, <2>2 DEF Objects
<1>7. s \in alone => Sound(x)'
  BY <1>5, <1>6 DEF Sound
<1>8. ~At(s, "idle") /\ ~At(s, "store")
  BY <1>1 DEF At
<1> QED
  BY <1>3, <1>4, <1>5, <1>7, <1>8, HandlerMoves

(* The launch links the campaign.                                          *)
LEMMA StoreAlone ==
  ASSUME AInv, NEW s \in Slot, Store(s)
  PROVE  Lone' /\ Finds' /\ Recorded' /\ LaunchedOnce'
<1> DEFINE r == req[s]
<1>1. /\ req \in [Slot -> Requests] /\ r \in Requests /\ Knows(r)
      /\ r.pc = "store" /\ r.e \in Entity /\ r.got # None
      /\ row \in [Entity -> Rows] /\ IInv
  BY Typed DEF AInv, IInv, Store, At, Knows
<1>2. PICK x \in Requests : x.pc = "push" /\ req' = [req EXCEPT ![s] = x]
  <2> DEFINE y == [r EXCEPT !.pc = "push", !.e = None, !.got = None,
                            !.ids[r.e] = r.got,
                            !.todo = IF r.e \in Campaign THEN UnitsOf(r.e)
                                     ELSE @ \ {r.e}]
  <2>1. UnitsOf(r.e) \in SUBSET Entity
    BY DEF UnitsOf, Entity
  <2>2. y \in Requests /\ y.pc = "push"
    BY <1>1, <2>1 DEF Requests, Steps
  <2> QED
    BY <2>2 DEF Store, Step
<1>3. /\ row' = [row EXCEPT ![r.e] = [status |-> r.to, ext |-> r.got]]
      /\ UNCHANGED <<meta, faults, alone, solo>>
  BY DEF Store, history
<1>4. Lone' /\ Finds'
  <2>1. Sound(x)'
    BY <1>2, OthersSound
  <2> QED
    BY <1>1, <1>2, <1>3, <2>1, AloneKept DEF At
<1>5. ASSUME NEW c \in Campaign, Known(c) PROVE Known(c)'
  <2>1. CASE row[c].ext # None \/ r.e = c
    <3>1. row'[c].ext # None
      BY <1>1, <1>3, <2>1 DEF Rows, Entity
    <3> QED
      BY <3>1 DEF Known
  <2>2. CASE \E q \in Slot : q # s /\ At(q, "store") /\ req[q].e = c
    BY <1>1, <1>2, <2>2 DEF Known, At
  <2> QED
    BY <1>5, <2>1, <2>2 DEF Known
<1>6. Kept
  BY <1>3 DEF Kept
<1> QED
  BY <1>3, <1>4, <1>5, <1>6, SoloKept

(* The other steps of a handler write statuses at most.                    *)
LEMMA ProgressAlone ==
  ASSUME AInv, NEW s \in Slot, Progress(s)
  PROVE  Lone' /\ Finds' /\ Recorded' /\ LaunchedOnce'
<1> DEFINE r == req[s]
<1>1. /\ r \in Requests /\ Knows(r) /\ row \in [Entity -> Rows]
      /\ Idle \in Requests /\ Idle.pc = "idle" /\ IInv
  BY Typed, IdleIsOne DEF AInv, IInv, Idle
<1>2. ASSUME NEW x \in Requests, req' = [req EXCEPT ![s] = x],
             \/ x.pc \notin {"create", "post", "write"}
             \/ x.kind # "toggle" /\ (x.pc = "create" => x.e \in Unit),
             ~At(s, "idle"), ~At(s, "store"),
             \A e \in Entity : row'[e].ext = row[e].ext,
             UNCHANGED <<meta, faults, history>>
      PROVE  Lone' /\ Finds' /\ Recorded' /\ LaunchedOnce'
  <2>1. Sound(x)'
    BY <1>2, OthersSound
  <2>2. Kept /\ UNCHANGED <<faults, alone, solo>>
    BY <1>2 DEF Kept, history
  <2> QED
    BY <1>2, <2>1, <2>2, HandlerMoves
<1>3. ASSUME NEW u \in Unit, PushNext(s, u)
      PROVE  Lone' /\ Finds' /\ Recorded' /\ LaunchedOnce'
  <2>1. r.pc = "push" /\ r.kind = "launch"
    BY <1>1, <1>3 DEF PushNext, At, Knows
  <2>2. LET x == [r EXCEPT !.pc = "create", !.e = u]
        IN  x \in Requests /\ x.pc = "create" /\ x.kind = "launch" /\ x.e = u
    BY <1>1, <2>1 DEF Requests, Steps, Entity
  <2> QED
    BY <1>2, <1>3, <2>1, <2>2 DEF PushNext, Step, At
<1>4. ASSUME NEW e \in Entity, BulkNext(s, e)
      PROVE  Lone' /\ Finds' /\ Recorded' /\ LaunchedOnce'
  <2>1. r.pc = "bulk" /\ r.kind # "toggle"
    BY <1>1, <1>4 DEF BulkNext, At, Knows
  <2>2. LET x == [r EXCEPT !.pc = "post", !.e = e]
        IN  x \in Requests /\ x.pc = "post" /\ x.kind = r.kind
    BY <1>1 DEF Requests, Steps
  <2> QED
    BY <1>2, <1>4, <2>1, <2>2 DEF BulkNext, Step, At
<1>5. ASSUME PushDone(s) \/ BulkDone(s)
      PROVE  Lone' /\ Finds' /\ Recorded' /\ LaunchedOnce'
  <2>1. /\ ~At(s, "idle") /\ ~At(s, "store")
        /\ UNCHANGED <<row, meta, faults, history>>
        /\ req' = [req EXCEPT ![s] = Idle]
    BY <1>5 DEF PushDone, BulkDone, Step, At
  <2> QED
    BY <1>1, <1>2, <2>1
<1>6. ASSUME Write(s) PROVE Lone' /\ Finds' /\ Recorded' /\ LaunchedOnce'
  <2>1. \A e \in Entity : row'[e].ext = row[e].ext
    BY <1>1, <1>6 DEF Write, Rows
  <2>2. LET x == [r EXCEPT !.pc = "sync", !.e = None, !.to = "PAUSED"]
        IN  x \in Requests /\ x.pc = "sync"
    BY <1>1 DEF Requests, Steps, Status
  <2>3. /\ ~At(s, "idle") /\ ~At(s, "store")
        /\ UNCHANGED <<meta, faults, history>>
    BY <1>6 DEF Write, At
  <2> QED
    BY <1>1, <1>2, <1>6, <2>1, <2>2, <2>3 DEF Write, Step
<1>7. ASSUME BulkUpdate(s) PROVE Lone' /\ Finds' /\ Recorded' /\ LaunchedOnce'
  <2>1. \A e \in Entity : row'[e].ext = row[e].ext
    BY <1>1, <1>7 DEF BulkUpdate, Rows
  <2>2. LET x == [r EXCEPT !.pc = "bulk", !.todo = {e \in @ : r.ids[e] # None}]
        IN  x \in Requests /\ x.pc = "bulk"
    BY <1>1 DEF Requests, Steps
  <2> QED
    BY <1>2, <1>7, <2>1, <2>2 DEF BulkUpdate, Step, At
<1>8. ASSUME SyncList(s) PROVE Lone' /\ Finds' /\ Recorded' /\ LaunchedOnce'
  <2>1. PICK x \in Requests : x.pc \in {"idle", "sync"}
                                /\ req' = [req EXCEPT ![s] = x]
    <3> DEFINE level == NextLevel(s)
               seen == {<<o, MapStatus(meta[o].status)>> :
                          o \in {p \in Obj : meta[p].of \in level}}
               x == [r EXCEPT !.pc = "sync", !.todo = @ \ level,
                              !.seen = seen]
    <3>1. seen \in SUBSET Reading
      BY DEF Reading, MapStatus, Status
    <3>2. r.todo \ level \in SUBSET Entity
      BY <1>1 DEF Requests
    <3>3. req' = [req EXCEPT ![s] = Idle] \/ req' = [req EXCEPT ![s] = x]
      BY <1>8 DEF SyncList, Step
    <3> HIDE DEF seen, level
    <3>4. x \in Requests /\ x.pc = "sync"
      BY <1>1, <3>1, <3>2 DEF Requests, Steps
    <3> HIDE DEF x
    <3> QED
      BY <1>1, <3>3, <3>4
  <2> QED
    BY <1>2, <1>8, <2>1 DEF SyncList, At
<1>9. ASSUME NEW o \in Obj, SyncFind(s, o)
      PROVE  Lone' /\ Finds' /\ Recorded' /\ LaunchedOnce'
  <2>1. PICK v \in Status :
          \/ \E e \in Entity :
               Step(s, [r EXCEPT !.pc = "write", !.e = e, !.to = v,
                                 !.seen = @ \ {<<o, v>>}])
          \/ Step(s, [r EXCEPT !.seen = @ \ {<<o, v>>}])
    BY <1>9 DEF SyncFind
  <2>2. r.pc = "sync" /\ r.kind # "toggle"
    BY <1>1, <1>9 DEF SyncFind, At, Knows
  <2>3. ASSUME NEW e \in Entity
        PROVE  LET x == [r EXCEPT !.pc = "write", !.e = e, !.to = v,
                                  !.seen = @ \ {<<o, v>>}]
               IN x \in Requests /\ x.pc = "write" /\ x.kind = r.kind
    BY <1>1 DEF Requests, Steps
  <2>4. LET x == [r EXCEPT !.seen = @ \ {<<o, v>>}]
        IN x \in Requests /\ x.pc = r.pc
    BY <1>1 DEF Requests
  <2>5. PICK x \in Requests : /\ req' = [req EXCEPT ![s] = x]
                              /\ \/ x.pc = "sync"
                                 \/ x.pc = "write" /\ x.kind # "toggle"
    BY <2>1, <2>2, <2>3, <2>4 DEF Step
  <2> QED
    BY <1>2, <1>9, <2>2, <2>5 DEF SyncFind, At
<1>10. ASSUME SyncLevelDone(s)
       PROVE  Lone' /\ Finds' /\ Recorded' /\ LaunchedOnce'
  <2>1. LET x == [r EXCEPT !.pc = "list"] IN x \in Requests /\ x.pc = "list"
    BY <1>1 DEF Requests, Steps
  <2> QED
    BY <1>2, <1>10, <2>1 DEF SyncLevelDone, Step, At
<1>11. ASSUME NEW u \in Unit, PushSkip(s, u)
       PROVE  Lone' /\ Finds' /\ Recorded' /\ LaunchedOnce'
  <2>1. \A e \in Entity : row'[e].ext = row[e].ext
    BY <1>1, <1>11 DEF PushSkip, Rows
  <2>2. LET x == [r EXCEPT !.todo = @ \ {u}]
        IN  x \in Requests /\ x.pc = "push"
    BY <1>1, <1>11 DEF PushSkip, At, Requests
  <2> QED
    BY <1>2, <1>11, <2>1, <2>2 DEF PushSkip, Step, At
<1> QED
  BY <1>3, <1>4, <1>5, <1>6, <1>7, <1>8, <1>9, <1>10, <1>11, CallCreateAlone,
     CallPostAlone, StoreAlone DEF Progress

(* Other parties' steps: an edit at Meta ends what was alone.              *)
LEMMA OthersAlone ==
  ASSUME AInv,
         \/ \E u \in Unit : EditUnit(u)
         \/ \E o \in Obj : EditAtMeta(o) \/ WorkerWrite(o)
         \/ WorkerList \/ ApiCrash \/ WorkerCrash \/ UNCHANGED vars
  PROVE  Lone' /\ Finds' /\ Recorded' /\ LaunchedOnce'
<1>1. /\ row \in [Entity -> Rows] /\ meta \in [Obj -> Objects]
      /\ req \in [Slot -> Requests] /\ faults \in Nat
      /\ alone \in SUBSET Slot /\ Idle.pc = "idle" /\ IInv
  BY Typed DEF AInv, IInv, Idle
<1>2. ASSUME \A e \in Entity : row'[e].ext = row[e].ext,
             \/ req' = req
             \/ req' = [s \in Slot |-> Idle] /\ faults' = faults + 1,
             \/ UNCHANGED <<meta, alone>>
             \/ Kept /\ alone' = {},
             faults' \in {faults, faults + 1}, solo' = solo
      PROVE  Lone' /\ Finds' /\ Recorded' /\ LaunchedOnce'
  <2>1. Kept
    BY <1>2 DEF Kept
  <2>2. Lone'
    BY <1>1, <1>2 DEF AInv, Lone, At
  <2>3. Finds'
    <3>1. CASE alone' = {}
      BY <3>1 DEF Finds
    <3>2. CASE UNCHANGED <<meta, alone>> /\ req' = req
      BY <1>1, <1>2, <3>2 DEF AInv, Finds, Sound, Entity
    <3>3. CASE UNCHANGED <<meta, alone>> /\ req' = [s \in Slot |-> Idle]
      BY <1>1, <3>3 DEF Finds, Sound
    <3> QED
      BY <1>2, <3>1, <3>2, <3>3
  <2>4. faults' = 0 => faults = 0 /\ req' = req
    BY <1>1, <1>2
  <2>5. req' = req => \A c \in Campaign : Known(c) => Known(c)'
    BY <1>2 DEF Known, At, Entity
  <2> QED
    BY <1>2, <2>1, <2>2, <2>3, <2>4, <2>5, SoloKept
<1>3. \A u \in Unit : EditUnit(u) =>
        /\ \A e \in Entity : row'[e].ext = row[e].ext
        /\ UNCHANGED <<meta, req, faults, alone, solo>>
  BY <1>1 DEF EditUnit, Rows, history
<1>4. ASSUME NEW o \in Obj, EditAtMeta(o) PROVE Kept
  <2>1. Flip(meta[o].status) \in Status
    BY DEF Flip, Status
  <2>2. meta' = [meta EXCEPT ![o].status = Flip(meta[o].status)]
    BY <1>1, <1>4 DEF EditAtMeta
  <2> QED
    BY <1>1, <2>1, <2>2, StatusKeeps
<1>5. \A o \in Obj : EditAtMeta(o) =>
        alone' = {} /\ UNCHANGED <<row, req, faults, solo>>
  BY DEF EditAtMeta
<1>6. \A o \in Obj : WorkerWrite(o) =>
        /\ \A e \in Entity : row'[e].ext = row[e].ext
        /\ UNCHANGED <<meta, req, faults, alone, solo>>
  BY <1>1 DEF WorkerWrite, Rows, history
<1>7. WorkerList => UNCHANGED <<row, meta, req, faults, alone, solo>>
  BY DEF WorkerList, history
<1>8. ApiCrash => /\ UNCHANGED <<row, meta, alone, solo>>
                  /\ req' = [s \in Slot |-> Idle] /\ faults' = faults + 1
  BY DEF ApiCrash, Fault, history
<1>9. WorkerCrash => /\ UNCHANGED <<row, meta, req, alone, solo>>
                     /\ faults' = faults + 1
  BY DEF WorkerCrash, Fault, history
<1>10. UNCHANGED vars => UNCHANGED <<row, meta, req, faults, alone, solo>>
  BY DEF vars
<1>11. CASE \E u \in Unit : EditUnit(u)
  BY <1>2, <1>3, <1>11
<1>12. CASE \E o \in Obj : EditAtMeta(o)
  BY <1>2, <1>4, <1>5, <1>12
<1>13. CASE \E o \in Obj : WorkerWrite(o)
  BY <1>2, <1>6, <1>13
<1>14. CASE WorkerList \/ ApiCrash \/ WorkerCrash \/ UNCHANGED vars
  BY <1>2, <1>7, <1>8, <1>9, <1>10, <1>14
<1> QED
  BY <1>11, <1>12, <1>13, <1>14

(* Every step keeps what lone requests know.                               *)
LEMMA StepAInv == AInv /\ [Next]_vars => AInv'
<1> SUFFICES ASSUME AInv, [Next]_vars PROVE AInv'
  OBVIOUS
<1>1. IInv'
  BY StepIInv DEF AInv
<1>2. Lone' /\ Finds' /\ Recorded' /\ LaunchedOnce'
  BY ProgressAlone, RequestedAlone, FailsAlone, OthersAlone DEF Next
<1> QED
  BY <1>1, <1>2 DEF AInv

(* What lone requests know holds in every state.                           *)
LEMMA AloneInvariant == Spec => []AInv
  BY InitAInv, StepAInv, PTL DEF Spec

(* Unless something fails, a campaign is created at Meta twice only by     *)
(* launches that overlap: a later launch finds the id the first stored     *)
(* (campaigns.service.ts launchCampaign).                                  *)
THEOREM CreatedOnce == Spec => []LaunchedOnce
<1>1. AInv => LaunchedOnce
  BY DEF AInv
<1> QED
  BY <1>1, AloneInvariant, PTL

(* The inline pause or resume of a campaign that nobody disturbs writes    *)
(* what Meta has done (campaigns.service.ts pauseCampaign, resumeCampaign).*)
THEOREM MetaIsFirst == Spec => []MetaFirst
<1>1. AInv => MetaFirst
  BY DEF AInv, Finds, Sound, MetaFirst, At
<1> QED
  BY <1>1, AloneInvariant, PTL
=============================================================================
