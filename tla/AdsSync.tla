------------------------------- MODULE AdsSync -------------------------------
(***************************************************************************)
(* Campaigns, ad sets and ads in the database and at Meta.  A seller       *)
(* launches, pauses and resumes them through apps/api/src/campaigns and    *)
(* .../ads-manager, one handler per slot and one query or Meta call at a   *)
(* time; the API's manual sync and the worker's stats sync copy Meta's     *)
(* status back; the seller may also use Meta's own page.                   *)
(*                                                                         *)
(* Meta's calls go through apps/api/src/meta: a call that fails in transit *)
(* is repeated, also when Meta had done what it asked.                     *)
(***************************************************************************)
EXTENDS Integers, FiniteSets

CONSTANTS
  Campaign,
  Unit,        \* ad sets and ads
  Parent,      \* the campaign of an ad set, the ad set of an ad
  Pageless,    \* ads without a post, or whose post has no Facebook page
  Slot,        \* requests the API executes at the same time
  Obj,         \* objects at Meta
  None,
  MaxRequests, \* bound: requests and edits at Meta
  MaxFaults,   \* bound: failed calls, lost answers, crashes
  MaxAttempts  \* attempts of one Meta call: 4 in the code

Entity == Campaign \cup Unit

ASSUME AdsAssumption ==
  /\ Campaign \cap Unit = {}
  /\ Parent \in [Unit -> Entity]
  /\ Pageless \subseteq {u \in Unit : Parent[u] \in Unit}
  /\ None \notin Obj /\ None \notin Entity
  /\ MaxRequests \in Nat /\ MaxFaults \in Nat /\ MaxAttempts \in Nat \ {0}

VARIABLES
  row,      \* row[e]: status and external id of a campaign, ad set or ad
  meta,     \* meta[o]: whose object o is, its status and its parent object
  req,      \* req[s]: the request slot s executes
  worker,   \* what the worker's sync has read and not yet written
  requests, \* requests so far
  faults,   \* faults so far
  alone,    \* history: the slot whose request began with nobody else at
            \* work, while nobody else has begun anything
  solo      \* history: the objects created by such requests

vars == <<row, meta, req, worker, requests, faults, alone, solo>>
history == <<alone, solo>>

Status == {"ACTIVE", "PAUSED"}
Flip(v) == IF v = "ACTIVE" THEN "PAUSED" ELSE "ACTIVE"

AdSets == {u \in Unit : Parent[u] \in Campaign}
Ads == Unit \ AdSets
Levels == {Campaign, AdSets, Ads}
UnitsOf(c) == {u \in Unit : \/ Parent[u] = c
                            \/ Parent[u] \in Unit /\ Parent[Parent[u]] = c}

(* Mutant: Meta's status is stored as it is.                               *)
MapStatusAsIs(v) == v

(* mapMetaStatus and mapMetaCampaignStatus: what is unknown is PAUSED.     *)
MapStatus(v) == IF v = "ACTIVE" THEN "ACTIVE" ELSE "PAUSED"

NoIds == [e \in Entity |-> None]

(* ids: the objects the handler knows; got: the one it just created.       *)
Idle == [pc |-> "idle", kind |-> "none", e |-> None, to |-> "PAUSED",
         todo |-> {}, seen |-> {}, ids |-> NoIds, got |-> None,
         tries |-> 0]

Reading == Obj \X Status

(* The type invariant of the ads.                                          *)
AdsTypeOK ==
  /\ row \in [Entity -> [status : Status, ext : Obj \cup {None}]]
  /\ meta \in [Obj -> [of : Entity \cup {None}, status : Status,
                       under : Obj \cup {None}]]
  /\ req \in [Slot ->
       [pc : {"idle", "create", "store", "push", "post", "write", "update",
              "bulk", "list", "sync"},
        kind : {"none", "launch", "toggle", "bulk", "sync"},
        e : Entity \cup {None}, to : Status, todo : SUBSET Entity,
        seen : SUBSET Reading, ids : [Entity -> Obj \cup {None}],
        got : Obj \cup {None}, tries : Nat]]
  /\ worker \in SUBSET Reading
  /\ requests \in Nat /\ faults \in Nat
  /\ alone \in SUBSET Slot /\ solo \in SUBSET Obj

(* createCampaignBatch: everything is PAUSED and nothing is at Meta.       *)
Init ==
  /\ row = [e \in Entity |-> [status |-> "PAUSED", ext |-> None]]
  /\ meta = [o \in Obj |-> [of |-> None, status |-> "PAUSED", under |-> None]]
  /\ req = [s \in Slot |-> Idle]
  /\ worker = {}
  /\ requests = 0
  /\ faults = 0
  /\ alone = {} /\ solo = {}

At(s, pc) == req[s].pc = pc
Fault == faults < MaxFaults /\ faults' = faults + 1

(* A handler begins with what it read; the others are no longer alone.     *)
Begin(s, r) ==
  /\ At(s, "idle")
  /\ requests < MaxRequests /\ requests' = requests + 1
  /\ req' = [req EXCEPT ![s] = r]
  /\ alone' = IF \A p \in Slot : At(p, "idle") THEN {s} ELSE {}
  /\ UNCHANGED <<row, meta, worker, faults, solo>>

Step(s, r) == req' = [req EXCEPT ![s] = r]

Exts(S) == [e \in Entity |-> IF e \in S THEN row[e].ext ELSE None]
-----------------------------------------------------------------------------
(* Calls of Meta (MetaService.requestWithRetry).                           *)

Free == {o \in Obj : meta[o].of = None}
NewObj == CHOOSE o \in Free : TRUE

(* A campaign is created as its row says, everything else ACTIVE.          *)
Create(s) ==
  LET r == req[s] IN
  /\ Free # {}
  /\ meta' = [meta EXCEPT ![NewObj] =
       [of |-> r.e,
        status |-> IF r.e \in Campaign THEN r.to ELSE "ACTIVE",
        under |-> IF r.e \in Campaign THEN None ELSE r.ids[Parent[r.e]]]]
  /\ solo' = IF s \in alone THEN solo \cup {NewObj} ELSE solo

Apply(s) ==
  LET r == req[s] IN
  /\ meta' = [meta EXCEPT ![r.ids[r.e]].status = r.to]
  /\ UNCHANGED solo

(* Mutant: the inline pause of a campaign goes on as that of an ad set.    *)
GaveUpGracefully(r) ==
  CASE r.kind = "launch" /\ r.e \in Unit ->
         [r EXCEPT !.pc = "push", !.tries = 0, !.e = None,
                   !.todo = {u \in @ : u # r.e /\ Parent[u] # r.e}]
    [] r.kind = "toggle" -> [r EXCEPT !.pc = "write", !.tries = 0]
    [] r.kind = "bulk" ->
         [r EXCEPT !.pc = "bulk", !.tries = 0, !.e = None, !.todo = @ \ {r.e}]
    [] OTHER -> Idle

(* The handler after a call that failed for good: launchCampaign and the   *)
(* inline pause of a campaign throw; the push leaves out what it could not *)
(* create and what belongs to it; all others go on as if it had worked.    *)
GaveUp(r) ==
  CASE r.kind = "launch" /\ r.e \in Unit ->
         [r EXCEPT !.pc = "push", !.tries = 0, !.e = None,
                   !.todo = {u \in @ : u # r.e /\ Parent[u] # r.e}]
    [] r.kind = "toggle" /\ r.e \in Unit ->
         [r EXCEPT !.pc = "write", !.tries = 0]
    [] r.kind = "bulk" ->
         [r EXCEPT !.pc = "bulk", !.tries = 0, !.e = None, !.todo = @ \ {r.e}]
    [] OTHER -> Idle

(* An attempt that failed in transit is repeated, up to the last.          *)
Again(r) ==
  IF r.tries + 1 < MaxAttempts THEN [r EXCEPT !.tries = @ + 1] ELSE GaveUp(r)

CallCreate(s) ==
  /\ At(s, "create") /\ Create(s)
  /\ Step(s, [req[s] EXCEPT !.pc = "store", !.got = NewObj, !.tries = 0])
  /\ UNCHANGED <<row, worker, requests, faults, alone>>

CallPost(s) ==
  LET r == req[s] IN
  /\ At(s, "post") /\ Apply(s)
  /\ Step(s, IF r.kind = "bulk"
             THEN [r EXCEPT !.pc = "bulk", !.tries = 0, !.e = None,
                            !.todo = @ \ {r.e}]
             ELSE [r EXCEPT !.pc = "write", !.tries = 0])
  /\ UNCHANGED <<row, worker, requests, faults, alone>>

(* A 5xx, a network error or a time-out; Meta may have done it.            *)
CallFails(s) ==
  /\ req[s].pc \in {"create", "post"} /\ Fault
  /\ \/ UNCHANGED <<meta, solo>>
     \/ At(s, "create") /\ Create(s)
     \/ At(s, "post") /\ Apply(s)
  /\ Step(s, Again(req[s]))
  /\ UNCHANGED <<row, worker, requests, alone>>

(* Meta's error or the rate limiter's: not repeated.                       *)
CallRefused(s) ==
  /\ req[s].pc \in {"create", "post", "list"} /\ Fault
  /\ Step(s, GaveUp(req[s]))
  /\ UNCHANGED <<row, meta, worker, requests, history>>
-----------------------------------------------------------------------------
(* launchCampaign and its background push.                                 *)

(* Mutant: the campaign's external id is not looked at.                    *)
LaunchAny(s, c) ==
  Begin(s, [Idle EXCEPT !.pc = "create", !.kind = "launch", !.e = c,
                        !.to = row[c].status])

(* Only a campaign without an external id is launched.                     *)
Launch(s, c) ==
  /\ row[c].ext = None
  /\ Begin(s, [Idle EXCEPT !.pc = "create", !.kind = "launch", !.e = c,
                           !.to = row[c].status])

(* Mutant: everything a launch creates is stored with the campaign's id.   *)
StoreCampaignId(s) ==
  LET r == req[s] IN
  /\ At(s, "store")
  /\ row' = [row EXCEPT ![r.e] =
       [status |-> r.to,
        ext |-> IF r.e \in AdSets THEN r.ids[Parent[r.e]] ELSE r.got]]
  /\ Step(s, [r EXCEPT !.pc = "push", !.e = None, !.got = None,
                       !.ids[r.e] = r.got,
                       !.todo = IF r.e \in Campaign THEN UnitsOf(r.e)
                                ELSE @ \ {r.e}])
  /\ UNCHANGED <<meta, worker, requests, faults, history>>

(* Mutant: the push ends with the first ad set.                            *)
StoreAndStop(s) ==
  LET r == req[s] IN
  /\ At(s, "store")
  /\ row' = [row EXCEPT ![r.e] = [status |-> r.to, ext |-> r.got]]
  /\ Step(s, IF r.e \in Unit THEN Idle
             ELSE [r EXCEPT !.pc = "push", !.e = None, !.got = None,
                            !.ids[r.e] = r.got, !.todo = UnitsOf(r.e)])
  /\ UNCHANGED <<meta, worker, requests, faults, history>>

(* The id Meta gave, and the status the campaign had when it was read.     *)
Store(s) ==
  LET r == req[s] IN
  /\ At(s, "store")
  /\ row' = [row EXCEPT ![r.e] = [status |-> r.to, ext |-> r.got]]
  /\ Step(s, [r EXCEPT !.pc = "push", !.e = None, !.got = None,
                       !.ids[r.e] = r.got,
                       !.todo = IF r.e \in Campaign THEN UnitsOf(r.e)
                                ELSE @ \ {r.e}])
  /\ UNCHANGED <<meta, worker, requests, faults, history>>

(* Mutant: an ad is pushed whether or not its ad set is at Meta.           *)
PushNextAnyOrder(s, u) ==
  LET r == req[s] IN
  /\ At(s, "push") /\ u \in r.todo
  /\ Step(s, [r EXCEPT !.pc = "create", !.e = u])
  /\ UNCHANGED <<row, meta, worker, requests, faults, history>>

(* pushAdsetsAndAds: an ad set before its ads.                             *)
PushNext(s, u) ==
  LET r == req[s] IN
  /\ At(s, "push") /\ u \in r.todo \ Pageless
  /\ r.ids[Parent[u]] # None
  /\ Step(s, [r EXCEPT !.pc = "create", !.e = u])
  /\ UNCHANGED <<row, meta, worker, requests, faults, history>>

(* pushSingleAd: an ad without a page takes the campaign's status, and is  *)
(* not created.                                                            *)
PushSkip(s, u) ==
  LET r == req[s] IN
  /\ At(s, "push") /\ u \in r.todo \cap Pageless
  /\ r.ids[Parent[u]] # None
  /\ row' = [row EXCEPT ![u].status = r.to]
  /\ Step(s, [r EXCEPT !.todo = @ \ {u}])
  /\ UNCHANGED <<meta, worker, requests, faults, history>>

(* An ad whose video or creative did not reach Meta, or whose query fails, *)
(* is left as it is.                                                       *)
PushFails(s, u) ==
  LET r == req[s] IN
  /\ At(s, "push") /\ u \in r.todo \cap Ads /\ Fault
  /\ r.ids[Parent[u]] # None
  /\ Step(s, [r EXCEPT !.todo = @ \ {u}])
  /\ UNCHANGED <<row, meta, worker, requests, history>>

PushDone(s) ==
  /\ At(s, "push") /\ req[s].todo = {}
  /\ Step(s, Idle)
  /\ UNCHANGED <<row, meta, worker, requests, faults, history>>
-----------------------------------------------------------------------------
(* Pause and resume.                                                       *)

(* pauseCampaign, resumeCampaign, pauseAdset, ...: a campaign must be at   *)
(* Meta; of an ad set or ad that is not, only the row is written.          *)
Toggle(s, e) ==
  /\ e \in Campaign => row[e].ext # None
  /\ Begin(s, [Idle EXCEPT
       !.pc = IF row[e].ext # None THEN "post" ELSE "write",
       !.kind = "toggle", !.e = e, !.to = Flip(row[e].status),
       !.ids = Exts({e})])

(* The row is written, whatever it says by now.                            *)
Write(s) ==
  LET r == req[s] IN
  /\ At(s, "write")
  /\ row' = [row EXCEPT ![r.e].status = r.to]
  /\ Step(s, IF r.kind = "sync"
             THEN [r EXCEPT !.pc = "sync", !.e = None, !.to = "PAUSED"]
             ELSE Idle)
  /\ UNCHANGED <<meta, worker, requests, faults, history>>

(* bulkStatus: rows of one kind that are in the other status.              *)
Bulk(s, es, v) ==
  /\ \A e \in es : row[e].status # v
  /\ Begin(s, [Idle EXCEPT !.pc = "update", !.kind = "bulk", !.to = v,
                           !.todo = es, !.ids = Exts(es)])

(* All rows at once, then Meta one by one, for those that were there.      *)
BulkUpdate(s) ==
  LET r == req[s] IN
  /\ At(s, "update")
  /\ row' = [e \in Entity |-> IF e \in r.todo
                              THEN [row[e] EXCEPT !.status = r.to]
                              ELSE row[e]]
  /\ Step(s, [r EXCEPT !.pc = "bulk",
                       !.todo = {e \in @ : r.ids[e] # None}])
  /\ UNCHANGED <<meta, worker, requests, faults, history>>

BulkNext(s, e) ==
  /\ At(s, "bulk") /\ e \in req[s].todo
  /\ Step(s, [req[s] EXCEPT !.pc = "post", !.e = e])
  /\ UNCHANGED <<row, meta, worker, requests, faults, history>>

BulkDone(s) ==
  /\ At(s, "bulk") /\ req[s].todo = {}
  /\ Step(s, Idle)
  /\ UNCHANGED <<row, meta, worker, requests, faults, history>>

(* ad-units updateAdset and updateAd write a status Meta is not told.      *)
EditUnit(u) ==
  /\ requests < MaxRequests /\ requests' = requests + 1
  /\ row' = [row EXCEPT ![u].status = Flip(@)]
  /\ UNCHANGED <<meta, req, worker, faults, history>>

(* The seller pauses or resumes on Meta's page.                            *)
EditAtMeta(o) ==
  /\ meta[o].of # None
  /\ requests < MaxRequests /\ requests' = requests + 1
  /\ meta' = [meta EXCEPT ![o].status = Flip(@)]
  /\ alone' = {}
  /\ UNCHANGED <<row, req, worker, faults, solo>>
-----------------------------------------------------------------------------
(* syncFromMeta: the campaigns, then the ad sets, then the ads of the      *)
(* account; each list is read before its rows are written.                 *)

(* todo: the entities whose list is still to be read.                      *)
Sync(s) ==
  Begin(s, [Idle EXCEPT !.pc = "list", !.kind = "sync", !.todo = Entity])

NextLevel(s) ==
  LET todo == req[s].todo IN
  IF Campaign \subseteq todo THEN Campaign
  ELSE IF AdSets \subseteq todo /\ AdSets # {} THEN AdSets ELSE Ads

SyncList(s) ==
  LET r == req[s]
      level == NextLevel(s)
  IN
  /\ At(s, "list")
  /\ Step(s, IF r.todo = {} THEN Idle
             ELSE [r EXCEPT !.pc = "sync", !.todo = @ \ level,
                            !.seen = {<<o, MapStatus(meta[o].status)>> :
                                o \in {p \in Obj : meta[p].of \in level}}])
  /\ UNCHANGED <<row, meta, worker, requests, faults, history>>

(* The row with that external id is looked up, and then written by its id. *)
SyncFind(s, o) ==
  LET r == req[s] IN
  /\ At(s, "sync")
  /\ \E v \in Status :
       /\ <<o, v>> \in r.seen
       /\ \/ \E e \in Entity :
               /\ row[e].ext = o
               /\ Step(s, [r EXCEPT !.pc = "write", !.e = e, !.to = v,
                                    !.seen = @ \ {<<o, v>>}])
          \/ /\ \A e \in Entity : row[e].ext # o
             /\ Step(s, [r EXCEPT !.seen = @ \ {<<o, v>>}])
  /\ UNCHANGED <<row, meta, worker, requests, faults, history>>

SyncLevelDone(s) ==
  /\ At(s, "sync") /\ req[s].seen = {}
  /\ Step(s, [req[s] EXCEPT !.pc = "list"])
  /\ UNCHANGED <<row, meta, worker, requests, faults, history>>
-----------------------------------------------------------------------------
(* The worker's stats sync, every fifteen minutes.                         *)

Under(o) == {p \in Obj : meta[p].under = o}
Active(o) == meta[o].status = "ACTIVE"

(* A campaign at Meta shows ads, and so has statistics, if it and an ad    *)
(* set of it and an ad in that are ACTIVE.                                 *)
Delivers(o) ==
  /\ meta[o].of \in Campaign /\ Active(o)
  /\ \E p \in Under(o) : /\ Active(p)
                         /\ \/ \A u \in Unit : Parent[u] # meta[p].of
                            \/ \E q \in Under(p) : Active(q)

(* effective_status: of a campaign that shows nothing it may be another    *)
(* than its status.                                                        *)
Effective(o) ==
  IF Delivers(o) THEN {"ACTIVE"} ELSE {meta[o].status, "WITH_ISSUES"}

(* Without statistics of the last three days the account's campaigns are   *)
(* not read.                                                               *)
WorkerList ==
  /\ worker = {}
  /\ \E v \in [{o \in Obj : meta[o].of \in Campaign} ->
              Status \cup {"WITH_ISSUES"}] :
       /\ DOMAIN v # {}
       /\ \A o \in DOMAIN v : v[o] \in Effective(o)
       /\ worker' = {<<o, MapStatus(v[o])>> : o \in DOMAIN v}
  /\ UNCHANGED <<row, meta, req, requests, faults, history>>

(* Mutant: a row the seller paused is left alone.                          *)
WorkerWriteKeepsPause(o) ==
  /\ \E v \in Status :
       /\ <<o, v>> \in worker
       /\ worker' = worker \ {<<o, v>>}
       /\ row' = [e \in Entity |->
                   IF e \in Campaign /\ row[e].ext = o
                        /\ row[e].status = "ACTIVE"
                   THEN [row[e] EXCEPT !.status = v] ELSE row[e]]
  /\ UNCHANGED <<meta, req, requests, faults, history>>

(* updateMany by the external id.                                          *)
WorkerWrite(o) ==
  /\ \E v \in Status :
       /\ <<o, v>> \in worker
       /\ worker' = worker \ {<<o, v>>}
       /\ row' = [e \in Entity |->
                   IF e \in Campaign /\ row[e].ext = o
                   THEN [row[e] EXCEPT !.status = v] ELSE row[e]]
  /\ UNCHANGED <<meta, req, requests, faults, history>>
-----------------------------------------------------------------------------
(* A query fails: a launch or a toggle throws where it stands, also when   *)
(* it loads the units to push; the push goes on with the next unit; a sync *)
(* ends.                                                                   *)
QueryFails(s) ==
  LET r == req[s] IN
  /\ r.pc \in {"store", "write", "update", "push", "sync"} /\ Fault
  /\ At(s, "push") => \E c \in Campaign : r.todo = UnitsOf(c)
  /\ Step(s, IF At(s, "store") /\ r.e \in Unit THEN GaveUp(r) ELSE Idle)
  /\ UNCHANGED <<row, meta, worker, requests, history>>

ApiCrash ==
  /\ Fault
  /\ req' = [s \in Slot |-> Idle]
  /\ UNCHANGED <<row, meta, worker, requests, history>>

WorkerCrash ==
  /\ worker # {} /\ Fault
  /\ worker' = {}
  /\ UNCHANGED <<row, meta, req, requests, history>>

Progress(s) ==
  \/ CallCreate(s) \/ CallPost(s) \/ Store(s) \/ PushDone(s)
  \/ Write(s) \/ BulkUpdate(s) \/ BulkDone(s)
  \/ SyncList(s) \/ SyncLevelDone(s)
  \/ \E u \in Unit : PushNext(s, u) \/ PushSkip(s, u)
  \/ \E e \in Entity : BulkNext(s, e)
  \/ \E o \in Obj : SyncFind(s, o)

Requested(s) ==
  \/ \E c \in Campaign : Launch(s, c)
  \/ \E e \in Entity : Toggle(s, e)
  \/ \E L \in Levels : \E es \in SUBSET L \ {{}} : \E v \in Status :
       Bulk(s, es, v)
  \/ Sync(s)

Fails(s) ==
  \/ CallFails(s) \/ CallRefused(s) \/ QueryFails(s)
  \/ \E u \in Unit : PushFails(s, u)

Next ==
  \/ \E s \in Slot : Progress(s) \/ Requested(s) \/ Fails(s)
  \/ \E u \in Unit : EditUnit(u)
  \/ \E o \in Obj : EditAtMeta(o) \/ WorkerWrite(o)
  \/ WorkerList \/ ApiCrash \/ WorkerCrash

Spec == Init /\ [][Next]_vars

(* Node goes on with a request.  The stats sync is a repeatable job; it    *)
(* reads the campaigns of an account that has statistics, and so while one *)
(* of them delivers.                                                       *)
WorkerDue == (\E o \in Obj : Delivers(o)) /\ WorkerList

Fairness ==
  /\ \A s \in Slot : WF_vars(Progress(s))
  /\ WF_vars(WorkerDue)
  /\ \A o \in Obj : WF_vars(WorkerWrite(o))

FairSpec == Spec /\ Fairness
-----------------------------------------------------------------------------
(* A row is linked to an object that was created for it, under an object   *)
(* of its parent: no two rows share an object, whatever is retried         *)
(* (campaigns.service.ts launchCampaign, pushAdsetsAndAds).                *)
LinkedIsOwn ==
  \A e \in Entity : LET o == row[e].ext IN o # None =>
    /\ meta[o].of = e
    /\ e \in Unit => /\ meta[o].under # None
                     /\ meta[meta[o].under].of = Parent[e]

(* "Only campaigns that have NOT yet been pushed to Meta can be launched": *)
(* unless something fails, a campaign is created at Meta twice only by     *)
(* launches that overlap (campaigns.service.ts launchCampaign).            *)
LaunchedOnce ==
  \A c \in Campaign : faults = 0 =>
    \A o, p \in solo : meta[o].of = c /\ meta[p].of = c => o = p

(* "Call Meta API first - only update local on success": when the inline   *)
(* pause or resume of a campaign writes the row, Meta has done it, unless  *)
(* somebody else was at work.                                              *)
MetaFirst ==
  \A s \in Slot :
    At(s, "write") /\ req[s].kind = "toggle" /\ req[s].e \in Campaign
      /\ s \in alone
    => meta[row[req[s].e].ext].status = req[s].to

(* Through every retry, lost answer, crash and overlap, objects are made   *)
(* from the top and for one row each, and rows are linked only to their    *)
(* own (launchCampaign, pushAdsetsAndAds, syncFromMeta): AdsSync           *)
(* implements LinkContract.                                                *)
Links == INSTANCE LinkContract
  WITH owner <- [o \in Obj |-> meta[o].of],
       above <- [o \in Obj |-> meta[o].under],
       link <- [e \in Entity |-> row[e].ext]

LinksKept == Links!Spec

(* A campaign that delivers at Meta is not shown as paused for ever,       *)
(* whatever failed when it was paused or resumed: the worker's sync sees   *)
(* its statistics and repairs the row (stats-sync.processor.ts).           *)
Hidden(c) == row[c].ext # None /\ Delivers(row[c].ext)
             /\ row[c].status = "PAUSED"

DeliveryIsSeen == \A c \in Campaign : Hidden(c) ~> ~Hidden(c)

(* Every ad set of a launched campaign, and every ad that has a page, gets *)
(* its object unless something failed: nobody awaits the push              *)
(* (campaigns.service.ts pushAdsetsAndAds).                                *)
PushCompletes ==
  \A c \in Campaign : \A u \in UnitsOf(c) \ Pageless :
    row[c].ext # None ~> row[u].ext # None \/ faults > 0
=============================================================================
