------------------------------ MODULE Sessions ------------------------------
(***************************************************************************)
(* The sessions of one user in one browser with several tabs.  The API     *)
(* (apps/api/src/auth) keeps a RefreshToken row per session and replaces   *)
(* it each time it is exchanged; the browser keeps the token in one cookie *)
(* all tabs share; each tab (apps/web/src/lib/apiClient.ts and             *)
(* stores/authStore.ts) keeps its access token in memory and refreshes it  *)
(* when the page loads and when a call is answered 401.                    *)
(*                                                                         *)
(* A request runs in a slot, one database call at a time.  A tab waits for *)
(* at most one request (its refresh lock); a request whose tab gave up or  *)
(* was reloaded runs on in the API and its answer is dropped.              *)
(***************************************************************************)
EXTENDS Integers, FiniteSets

CONSTANTS
  Tab,
  Slot,        \* requests the API executes at the same time
  Token,       \* refresh tokens; one that nobody holds any more is new again
  NoToken,
  NoSlot,
  MaxSessions, \* bound: logins, registrations and SSO logins
  MaxFaults    \* bound: lost answers, crashes, database errors, revocations

ASSUME SessionsAssumption ==
  /\ NoToken \notin Token /\ NoSlot \notin Slot
  /\ MaxSessions \in Nat /\ MaxFaults \in Nat

VARIABLES
  user,      \* the User row: "none", "active" or "inactive"
  row,       \* row[k]: the login the RefreshToken row of k goes back to, or 0
  expired,   \* the rows whose expiresAt has passed
  sessions,  \* logins so far
  cookie,    \* the browser's refresh_token cookie
  tab,       \* tab[t]: the page, its access token and the request it awaits
  req,       \* req[s]: the request slot s executes
  faults     \* faults so far

vars == <<user, row, expired, sessions, cookie, tab, req, faults>>

Idle == [pc |-> "idle"]

Kinds == {"boot", "retry", "login", "register", "sso", "logout"}

(* Where a handler stands: before one of its queries, or answered.         *)
Waits == {"find", "purge", "delete", "look", "create", "check", "exists",
          "new", "revoke"}
Answers == {"ok", "denied", "error"}

Requests ==
  {Idle} \cup [pc : Waits \cup Answers, kind : Kinds, tab : Tab,
               token : Token \cup {NoToken}, login : Nat,
               new : Token \cup {NoToken}]

(* The type invariant of the sessions.                                     *)
SessionsTypeOK ==
  /\ user \in {"none", "active", "inactive"}
  /\ row \in [Token -> Nat]
  /\ expired \subseteq Token
  /\ sessions \in Nat
  /\ cookie \in Token \cup {NoToken}
  /\ tab \in [Tab -> [page : {"boot", "in", "out"},
                      access : BOOLEAN,
                      wait : Slot \cup {NoSlot}]]
  /\ req \in [Slot -> Requests]
  /\ faults \in Nat

Closed == [page |-> "out", access |-> FALSE, wait |-> NoSlot]
Booting == [Closed EXCEPT !.page = "boot"]

Init ==
  /\ user \in {"none", "active"}
  /\ row = [k \in Token |-> 0]
  /\ expired = {}
  /\ sessions = 0
  /\ cookie = NoToken
  /\ tab = [t \in Tab |-> Booting]
  /\ req = [s \in Slot |-> Idle]
  /\ faults = 0

At(s, pc) == req[s].pc = pc
Goto(s, pc) == req' = [req EXCEPT ![s].pc = pc]
Fault == faults < MaxFaults /\ faults' = faults + 1

Live(k) == k \in Token /\ row[k] # 0

(* Mutant: the login of a token without a row is not a number.             *)
LoginOfNull(k) == IF Live(k) THEN row[k] ELSE NoToken

LoginOf(k) == IF Live(k) THEN row[k] ELSE 0

(* Tokens that are in no row, no cookie and no request.                    *)
Unheld ==
  {k \in Token : /\ row[k] = 0 /\ cookie # k
                 /\ \A s \in Slot : At(s, "idle") \/ k \notin {req[s].token,
                                                               req[s].new}}
NewToken == CHOOSE k \in Unheld : TRUE
-----------------------------------------------------------------------------
(* The tab.                                                                *)

(* A request carries a token of the login it continues, or starts one.     *)
Send(t, s, kind, pc, token, login) ==
  /\ At(s, "idle") /\ tab[t].wait = NoSlot
  /\ req' = [req EXCEPT ![s] = [pc |-> pc, kind |-> kind, tab |-> t,
                                token |-> token, login |-> login,
                                new |-> NoToken]]
  /\ tab' = [tab EXCEPT ![t].wait = s]

(* ensureSession: a page that loads exchanges the cookie, whatever it is.  *)
BootRefresh(t, s) ==
  /\ tab[t].page = "boot" /\ ~tab[t].access
  /\ Send(t, s, "boot", "find", cookie, LoginOf(cookie))
  /\ UNCHANGED <<user, row, expired, sessions, cookie, faults>>

(* The access token is good and the user active: the page loads.           *)
BootMe(t) ==
  /\ tab[t].page = "boot" /\ tab[t].access /\ tab[t].wait = NoSlot
  /\ user = "active"
  /\ tab' = [tab EXCEPT ![t].page = "in"]
  /\ UNCHANGED <<user, row, expired, sessions, cookie, req, faults>>

(* A call is answered 401, because the access token is fifteen minutes old *)
(* or the user inactive: one refresh for all of the tab's calls.           *)
Unauthorized(t, s) ==
  /\ tab[t].page # "out" /\ tab[t].access
  /\ Send(t, s, "retry", "find", cookie, LoginOf(cookie))
  /\ UNCHANGED <<user, row, expired, sessions, cookie, faults>>

SignIn(t, s) ==
  /\ tab[t].page = "out" /\ sessions < MaxSessions
  /\ \/ Send(t, s, "login", "check", NoToken, sessions + 1)
     \/ Send(t, s, "register", "exists", NoToken, sessions + 1)
     \/ Send(t, s, "sso", "exists", NoToken, sessions + 1)
  /\ sessions' = sessions + 1
  /\ UNCHANGED <<user, row, expired, cookie, faults>>

(* The cookie's path is /api/auth/refresh: the logout call carries none.   *)
LogoutToken == NoToken

SignOut(t, s) ==
  /\ tab[t].page = "in"
  /\ Send(t, s, "logout", "revoke", LogoutToken, 0)
  /\ UNCHANGED <<user, row, expired, sessions, cookie, faults>>

(* Mutant: a page that could not boot tries again.                         *)
BootAgain == Booting

(* A page that could not boot shows the login form.                        *)
BootFailed == Closed

(* The tab after an answer it waited for: a dead session reloads the page, *)
(* and a failure that may pass leaves it as it is.                         *)
Answered(t, kind, answer) ==
  LET stay == [tab[t] EXCEPT !.wait = NoSlot]
      fresh == [stay EXCEPT !.access = TRUE]
  IN CASE kind = "boot" -> IF answer = "ok" THEN fresh ELSE BootFailed
       [] kind = "retry" /\ tab[t].page = "boot" ->
            IF answer = "ok" /\ user = "active"
            THEN [fresh EXCEPT !.page = "in"] ELSE BootFailed
       [] kind = "retry" /\ answer = "ok" -> fresh
       [] kind = "retry" /\ answer = "denied" -> Booting
       [] kind = "retry" /\ answer = "error" -> stay
       [] kind \in {"login", "register"} ->
            IF answer = "ok" THEN [fresh EXCEPT !.page = "in"] ELSE stay
       [] kind = "sso" -> IF answer = "ok" THEN Booting ELSE Closed
       [] kind = "logout" -> Closed

(* The browser stores the cookie of the answer before the tab sees it.     *)
Receive(s) ==
  LET r == req[s] IN
  /\ r.pc \in Answers /\ tab[r.tab].wait = s
  /\ cookie' = IF r.pc = "ok" THEN r.new ELSE cookie
  /\ tab' = [tab EXCEPT ![r.tab] = Answered(r.tab, r.kind, r.pc)]
  /\ req' = [req EXCEPT ![s] = Idle]
  /\ UNCHANGED <<user, row, expired, sessions, faults>>

(* The answer of a request nobody waits for.                               *)
Drop(s) ==
  LET r == req[s] IN
  /\ r.pc \in Answers /\ tab[r.tab].wait # s
  /\ req' = [req EXCEPT ![s] = Idle]
  /\ UNCHANGED <<user, row, expired, sessions, cookie, tab, faults>>

(* A network error, or thirty seconds without an answer.                   *)
GiveUp(t) ==
  LET s == tab[t].wait IN
  /\ s # NoSlot /\ Fault
  /\ tab' = [tab EXCEPT ![t] = Answered(t, req[s].kind, "error")]
  /\ UNCHANGED <<user, row, expired, sessions, cookie, req>>

(* The user loads the page anew, with or without a request in flight.      *)
Reload(t) ==
  /\ IF tab[t].wait # NoSlot \/ tab[t].page = "boot" THEN Fault
     ELSE UNCHANGED faults
  /\ tab' = [tab EXCEPT ![t] = Booting]
  /\ UNCHANGED <<user, row, expired, sessions, cookie, req>>
-----------------------------------------------------------------------------
(* The handlers, one query at a time.                                      *)

DeleteRow(k) ==
  /\ row' = [j \in Token |-> IF j = k THEN 0 ELSE row[j]]
  /\ expired' = expired \ {k}

rest == <<sessions, cookie, tab>>

(* refresh: the row of the token presented, and its user.                  *)
RefreshFind(s) ==
  LET k == req[s].token IN
  /\ At(s, "find")
  /\ Goto(s, IF ~Live(k) THEN "denied"
             ELSE IF k \in expired THEN "purge"
             ELSE IF user # "active" THEN "denied" ELSE "delete")
  /\ UNCHANGED <<user, row, expired, rest, faults>>

(* An expired row is removed by the call that finds it; the delete of a    *)
(* row that is gone throws (404).                                          *)
RefreshPurge(s) ==
  LET k == req[s].token IN
  /\ At(s, "purge")
  /\ DeleteRow(k)
  /\ Goto(s, IF ~Live(k) THEN "error" ELSE "denied")
  /\ UNCHANGED <<user, rest, faults>>

(* Mutant: deleteMany, which does not mind that the row is gone.           *)
RefreshDeleteMany(s) ==
  LET k == req[s].token IN
  /\ At(s, "delete")
  /\ DeleteRow(k)
  /\ Goto(s, "look")
  /\ UNCHANGED <<user, rest, faults>>

(* Rotation: of two calls with one token the second delete throws.         *)
RefreshDelete(s) ==
  LET k == req[s].token IN
  /\ At(s, "delete")
  /\ DeleteRow(k)
  /\ Goto(s, IF ~Live(k) THEN "error" ELSE "look")
  /\ UNCHANGED <<user, rest, faults>>

(* The seller's membership is read after the token is gone.                *)
RefreshLook(s) ==
  /\ At(s, "look")
  /\ Goto(s, "create")
  /\ UNCHANGED <<user, row, expired, rest, faults>>

(* No active seller account: the session ends here.                        *)
RefreshNoSeller(s) ==
  /\ At(s, "look") /\ Fault
  /\ Goto(s, "denied")
  /\ UNCHANGED <<user, row, expired, rest>>

(* Mutant: the token is answered before its row is stored.                 *)
GenerateUnstored(s) ==
  /\ At(s, "create")
  /\ Unheld # {}
  /\ req' = [req EXCEPT ![s].pc = "ok", ![s].new = NewToken]
  /\ UNCHANGED <<user, row, expired, sessions, cookie, tab, faults>>

(* generateTokens: the new row continues the session of the old one, or    *)
(* starts one.                                                             *)
GenerateTokens(s) ==
  LET r == req[s] IN
  /\ At(s, "create")
  /\ Unheld # {}
  /\ row' = [row EXCEPT ![NewToken] = r.login]
  /\ req' = [req EXCEPT ![s].pc = "ok", ![s].new = NewToken]
  /\ UNCHANGED <<user, expired, sessions, cookie, tab, faults>>

(* login: the password may be wrong, the user unknown or inactive.         *)
CheckPassword(s) ==
  /\ At(s, "check")
  /\ \/ user = "active" /\ Goto(s, "create")
     \/ Goto(s, "denied")
  /\ UNCHANGED <<user, row, expired, rest, faults>>

(* register refuses an address that is taken; ssoLogin uses its user, even *)
(* an inactive one.                                                        *)
FindUser(s) ==
  /\ At(s, "exists")
  /\ Goto(s, IF user = "none" THEN "new"
             ELSE IF req[s].kind = "register" THEN "denied" ELSE "create")
  /\ UNCHANGED <<user, row, expired, rest, faults>>

(* The address is unique: of two creations the second throws.              *)
CreateUser(s) ==
  /\ At(s, "new")
  /\ user' = IF user = "none" THEN "active" ELSE user
  /\ Goto(s, IF user = "none" THEN "create" ELSE "error")
  /\ UNCHANGED <<row, expired, rest, faults>>

(* logout deletes the row of the token the call carries.                   *)
Revoke(s) ==
  LET k == req[s].token IN
  /\ At(s, "revoke")
  /\ DeleteRow(k)
  /\ req' = [req EXCEPT ![s].pc = "ok", ![s].new = NoToken]
  /\ UNCHANGED <<user, rest, faults>>

(* A query fails: the handler throws where it stands.                      *)
QueryFails(s) ==
  /\ req[s].pc \in Waits /\ Fault
  /\ Goto(s, "error")
  /\ UNCHANGED <<user, row, expired, rest>>
-----------------------------------------------------------------------------
(* The world: the process restarts, seven days pass, somebody deactivates  *)
(* the user in the database.                                               *)

Crash ==
  /\ Fault
  /\ req' = [s \in Slot |-> IF req[s].pc \in Waits
                            THEN [req[s] EXCEPT !.pc = "error"] ELSE req[s]]
  /\ UNCHANGED <<user, row, expired, rest>>

TokenExpires(k) ==
  /\ Live(k) /\ k \notin expired /\ Fault
  /\ expired' = expired \cup {k}
  /\ UNCHANGED <<user, row, rest, req>>

Deactivate ==
  /\ user = "active" /\ Fault
  /\ user' = "inactive"
  /\ UNCHANGED <<row, expired, rest, req>>

Handle(s) ==
  \/ RefreshFind(s) \/ RefreshPurge(s) \/ RefreshDelete(s) \/ RefreshLook(s)
  \/ GenerateTokens(s) \/ CheckPassword(s) \/ FindUser(s) \/ CreateUser(s)
  \/ Revoke(s)

Fails(s) == RefreshNoSeller(s) \/ QueryFails(s)

TabStep(t) ==
  \/ BootMe(t) \/ GiveUp(t) \/ Reload(t)
  \/ \E s \in Slot : \/ BootRefresh(t, s) \/ Unauthorized(t, s)
                     \/ SignIn(t, s) \/ SignOut(t, s)

World == Crash \/ Deactivate \/ \E k \in Token : TokenExpires(k)

Next ==
  \/ \E s \in Slot : Handle(s) \/ Fails(s) \/ Receive(s) \/ Drop(s)
  \/ \E t \in Tab : TabStep(t)
  \/ World

Spec == Init /\ [][Next]_vars

(* Node goes on with a request, the network delivers, the page runs its    *)
(* boot.  Slots are a bound of the model, so a tab gets one in the end.    *)
Fairness ==
  /\ \A s \in Slot : WF_vars(Handle(s)) /\ WF_vars(Receive(s) \/ Drop(s))
  /\ \A t \in Tab :
       /\ WF_vars(BootMe(t))
       /\ SF_vars(\E s \in Slot : BootRefresh(t, s) \/ Unauthorized(t, s))

FairSpec == Spec /\ Fairness
-----------------------------------------------------------------------------
(* The login whose token the request deleted before it stores the next.    *)
Rotates(s) == req[s].pc \in {"look", "create"} /\ req[s].token # NoToken

(* A login never has two refresh tokens at once, however many tabs         *)
(* exchange it and whatever fails between the delete and the create:       *)
(* rotation keeps sessions from multiplying (auth.service.ts refresh).     *)
OneTokenPerLogin ==
  \A k \in Token : row[k] # 0 =>
    /\ \A j \in Token : row[j] = row[k] => j = k
    /\ \A s \in Slot : Rotates(s) => req[s].login # row[k]

(* While nothing failed, the cookie in the browser can be exchanged, or is *)
(* being exchanged by a call that will answer its successor: tabs that     *)
(* race with one token leave the browser its session.                      *)
CookieIsLive ==
  faults = 0 /\ cookie # NoToken =>
    \/ row[cookie] # 0
    \/ \E s \in Slot : /\ req[s].pc \in {"look", "create", "ok"}
                       /\ req[s].token = cookie

(* Requests that may store a row for a login that has none.                *)
Mints(s) == req[s].pc \in {"look", "create", "check", "exists", "new"}

Opened == 1 .. sessions

(* A login is open while it has a row, or a request that may store one.    *)
OpenLogins ==
  {n \in Opened : \/ \E k \in Token : row[k] = n
                  \/ \E s \in Slot : Mints(s) /\ req[s].login = n}

TokensOf(n) == {k \in Token : row[k] = n}

(* The rotation implements SessionContract: whoever races with a token,    *)
(* and whatever fails between the delete and the create, a session is one  *)
(* chain of tokens, and one that ended is not revived (auth.service.ts     *)
(* refresh, generateTokens).                                               *)
Contract ==
  INSTANCE SessionContract WITH
    opened <- sessions,
    open <- OpenLogins,
    tokens <- [n \in Opened |-> TokensOf(n)]

SessionsKept == Contract!Spec

(* A page that loads ends at its content or at the login form, whatever    *)
(* fails and whoever races: the locks of the tab are always released       *)
(* (authStore.ts ensureSession).                                           *)
BootEnds == \A t \in Tab : tab[t].page = "boot" ~> tab[t].page # "boot"
=============================================================================
