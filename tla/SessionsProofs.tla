--------------------------- MODULE SessionsProofs ---------------------------
(***************************************************************************)
(* Proofs about Sessions, for any number of tabs, requests, logins and     *)
(* faults: a login has one refresh token, as long as nothing fails the     *)
(* browser's cookie is that of a session, and the rotation implements      *)
(* SessionContract.                                                        *)
(***************************************************************************)
EXTENDS Sessions, TLAPS

Tabs == [page : {"boot", "in", "out"}, access : BOOLEAN,
         wait : Slot \cup {NoSlot}]

(* A tab waits for a request of its own that is in flight.                 *)
Waiting ==
  \A t \in Tab : tab[t].wait # NoSlot =>
    ~At(tab[t].wait, "idle") /\ req[tab[t].wait].tab = t

TInv == SessionsTypeOK /\ Waiting

(* A row is that of the login the request continues, if it is there.       *)
Held ==
  \A s \in Slot :
    req[s].pc \in {"find", "purge", "delete"} /\ Live(req[s].token) =>
      row[req[s].token] = req[s].login

(* Logins count from one.                                                  *)
Counted ==
  /\ \A k \in Token : row[k] <= sessions
  /\ \A s \in Slot : ~At(s, "idle") => req[s].login <= sessions

(* A request that will store a row is the only one for its login, and the  *)
(* login has no row.                                                       *)
Minting ==
  \A s \in Slot : Mints(s) =>
    /\ req[s].login # 0
    /\ \A k \in Token : row[k] # req[s].login
    /\ \A r \in Slot : Mints(r) /\ req[r].login = req[s].login => r = s

OneRow == \A j, k \in Token : row[j] = row[k] /\ row[k] # 0 => j = k

IInv == TInv /\ Held /\ Counted /\ Minting /\ OneRow
-----------------------------------------------------------------------------
(* A new token is one that nobody holds.                                   *)
LEMMA NewIsUnheld ==
  ASSUME Unheld # {}
  PROVE  NewToken \in Unheld
  BY DEF NewToken

(* A request in flight has all its fields.                                 *)
LEMMA InFlight ==
  ASSUME SessionsTypeOK, NEW s \in Slot, ~At(s, "idle")
  PROVE  req[s] \in [pc : Waits \cup Answers, kind : Kinds, tab : Tab,
                     token : Token \cup {NoToken}, login : Nat,
                     new : Token \cup {NoToken}]
  BY DEF SessionsTypeOK, Requests, Idle, At

(* What an answer makes of the tab.                                        *)
LEMMA AnsweredTab ==
  ASSUME SessionsTypeOK, NEW t \in Tab, NEW k \in Kinds, NEW a \in Answers
  PROVE  Answered(t, k, a) \in Tabs /\ Answered(t, k, a).wait = NoSlot
<1>1. tab[t] \in Tabs
  BY DEF SessionsTypeOK, Tabs
<1>2. /\ [tab[t] EXCEPT !.wait = NoSlot] \in Tabs
      /\ [tab[t] EXCEPT !.wait = NoSlot].wait = NoSlot
  BY <1>1 DEF Tabs
<1>3. /\ [[tab[t] EXCEPT !.wait = NoSlot] EXCEPT !.access = TRUE] \in Tabs
      /\ [[tab[t] EXCEPT !.wait = NoSlot] EXCEPT !.access = TRUE].wait
           = NoSlot
  BY <1>1 DEF Tabs
<1>4. /\ [[[tab[t] EXCEPT !.wait = NoSlot] EXCEPT !.access = TRUE]
             EXCEPT !.page = "in"] \in Tabs
      /\ [[[tab[t] EXCEPT !.wait = NoSlot] EXCEPT !.access = TRUE]
             EXCEPT !.page = "in"].wait = NoSlot
  BY <1>1 DEF Tabs
<1>5. /\ Closed \in Tabs /\ Closed.wait = NoSlot
      /\ Booting \in Tabs /\ Booting.wait = NoSlot
  BY DEF Closed, Booting, Tabs
<1>6. \/ k = "boot" \/ k = "sso" \/ k = "logout" \/ k \in {"login", "register"}
      \/ k = "retry" /\ tab[t].page = "boot"
      \/ k = "retry" /\ tab[t].page # "boot" /\ a = "ok"
      \/ k = "retry" /\ tab[t].page # "boot" /\ a = "denied"
      \/ k = "retry" /\ tab[t].page # "boot" /\ a = "error"
  BY DEF Kinds, Answers
<1> QED
  BY <1>2, <1>3, <1>4, <1>5, <1>6, Zenon DEF Answered, BootFailed

(* Moving a request on leaves the others and its own data alone.           *)
LEMMA Moved ==
  ASSUME SessionsTypeOK, NEW s \in Slot, ~At(s, "idle"),
         NEW n \in Token \cup {NoToken},
         req' = [req EXCEPT ![s].pc = "ok", ![s].new = n]
  PROVE  /\ req' \in [Slot -> Requests]
         /\ req'[s].pc = "ok" /\ req'[s].new = n
         /\ req'[s].tab = req[s].tab /\ req'[s].token = req[s].token
         /\ req'[s].login = req[s].login
         /\ \A r \in Slot : r # s => req'[r] = req[r]
<1>1. "ok" \in Waits \cup Answers
  BY DEF Answers
<1> QED
  BY <1>1, InFlight DEF SessionsTypeOK, Requests

(* What a step of a handler to another await changes.                      *)
LEMMA Gone ==
  ASSUME SessionsTypeOK, NEW s \in Slot, ~At(s, "idle"),
         NEW pc \in Waits \cup Answers, Goto(s, pc)
  PROVE  /\ req' \in [Slot -> Requests]
         /\ req'[s].pc = pc /\ req'[s].new = req[s].new
         /\ req'[s].tab = req[s].tab /\ req'[s].token = req[s].token
         /\ req'[s].login = req[s].login
         /\ \A r \in Slot : r # s => req'[r] = req[r]
  BY InFlight DEF Goto, SessionsTypeOK, Requests

(* What every handler's step has in common.                                *)
Frame(s) ==
  /\ req[s].pc \in Waits
  /\ req' \in [Slot -> Requests]
  /\ req'[s].pc \in Waits \cup Answers
  /\ req'[s].tab = req[s].tab /\ req'[s].token = req[s].token
  /\ req'[s].login = req[s].login
  /\ \A r \in Slot : r # s => req'[r] = req[r]
  /\ sessions' = sessions /\ cookie' = cookie /\ tab' = tab

(* A handler moves its own slot only, and no tab.                          *)
LEMMA HandlerFrame ==
  ASSUME SessionsTypeOK, NEW s \in Slot, Handle(s) \/ Fails(s)
  PROVE  Frame(s)
<1>1. req[s].pc \in Waits /\ ~At(s, "idle")
  BY DEF Handle, Fails, RefreshFind, RefreshPurge, RefreshDelete,
         RefreshLook, GenerateTokens, CheckPassword, FindUser, CreateUser,
         Revoke, RefreshNoSeller, QueryFails, Waits, At
<1>2. sessions' = sessions /\ cookie' = cookie /\ tab' = tab
  BY DEF Handle, Fails, RefreshFind, RefreshPurge, RefreshDelete,
         RefreshLook, GenerateTokens, CheckPassword, FindUser, CreateUser,
         Revoke, RefreshNoSeller, QueryFails, rest
<1>3. \/ \E pc \in Waits \cup Answers : Goto(s, pc)
      \/ \E n \in Token \cup {NoToken} :
           req' = [req EXCEPT ![s].pc = "ok", ![s].new = n]
  <2>1. CASE GenerateTokens(s)
    BY <2>1, NewIsUnheld DEF GenerateTokens, Unheld
  <2>2. CASE Revoke(s)
    BY <2>2 DEF Revoke
  <2>3. CASE CheckPassword(s)
    BY <2>3 DEF CheckPassword, Waits, Answers
  <2>4. CASE RefreshFind(s)
    BY <2>4 DEF RefreshFind, Waits, Answers
  <2>5. CASE RefreshPurge(s) \/ RefreshDelete(s) \/ RefreshLook(s)
    BY <2>5 DEF RefreshPurge, RefreshDelete, RefreshLook, Waits, Answers
  <2>6. CASE FindUser(s) \/ CreateUser(s)
    BY <2>6 DEF FindUser, CreateUser, Waits, Answers
  <2>7. CASE Fails(s)
    BY <2>7 DEF Fails, RefreshNoSeller, QueryFails, Answers
  <2> QED
    BY <2>1, <2>2, <2>3, <2>4, <2>5, <2>6, <2>7 DEF Handle
<1>4. CASE \E pc \in Waits \cup Answers : Goto(s, pc)
  BY <1>1, <1>2, <1>4, Gone DEF Frame
<1>5. CASE \E n \in Token \cup {NoToken} :
             req' = [req EXCEPT ![s].pc = "ok", ![s].new = n]
  <2>1. "ok" \in Waits \cup Answers
    BY DEF Answers
  <2>2. PICK n \in Token \cup {NoToken} :
          req' = [req EXCEPT ![s].pc = "ok", ![s].new = n]
    BY <1>5
  <2>3. /\ req' \in [Slot -> Requests]
        /\ req'[s].pc = "ok"
        /\ req'[s].tab = req[s].tab /\ req'[s].token = req[s].token
        /\ req'[s].login = req[s].login
        /\ \A r \in Slot : r # s => req'[r] = req[r]
    BY <1>1, <2>1, <2>2, Moved
  <2> QED
    BY <1>1, <1>2, <2>1, <2>3 DEF Frame
<1> QED
  BY <1>3, <1>4, <1>5

(* What sending a request changes.                                         *)
Sent(t, s) ==
  /\ At(s, "idle") /\ tab[t].wait = NoSlot
  /\ req' \in [Slot -> Requests]
  /\ tab' \in [Tab -> Tabs]
  /\ tab'[t].wait = s /\ req'[s].tab = t /\ req'[s].pc # "idle"
  /\ \A r \in Slot : r # s => req'[r] = req[r]
  /\ \A u \in Tab : u # t => tab'[u] = tab[u]

(* What sending a request changes.                                         *)
LEMMA SendFacts ==
  ASSUME SessionsTypeOK, NEW t \in Tab, NEW s \in Slot, NEW kind \in Kinds,
         NEW pc \in Waits, NEW k \in Token \cup {NoToken}, NEW l \in Nat,
         Send(t, s, kind, pc, k, l)
  PROVE  /\ Sent(t, s)
         /\ req'[s].pc = pc /\ req'[s].token = k /\ req'[s].login = l
         /\ tab'[t].page = tab[t].page
<1>1. pc # "idle"
  BY DEF Waits
<1>2. [pc |-> pc, kind |-> kind, tab |-> t, token |-> k, login |-> l,
       new |-> NoToken] \in Requests
  BY DEF Requests
<1>3. /\ req' \in [Slot -> Requests]
      /\ req'[s] = [pc |-> pc, kind |-> kind, tab |-> t, token |-> k,
                    login |-> l, new |-> NoToken]
      /\ \A r \in Slot : r # s => req'[r] = req[r]
  BY <1>2 DEF Send, SessionsTypeOK
<1>4. /\ tab' \in [Tab -> Tabs] /\ tab'[t].wait = s
      /\ tab'[t].page = tab[t].page
      /\ \A u \in Tab : u # t => tab'[u] = tab[u]
  BY DEF Send, SessionsTypeOK, Tabs
<1> QED
  BY <1>1, <1>3, <1>4 DEF Sent, Send

(* The two ways to send: to exchange the cookie, or to open or close a     *)
(* session without a token.                                                *)
LEMMA SendingStep ==
  ASSUME SessionsTypeOK, NEW t \in Tab, NEW s \in Slot,
         \/ BootRefresh(t, s) \/ Unauthorized(t, s)
         \/ SignIn(t, s) \/ SignOut(t, s)
  PROVE  /\ Sent(t, s)
         /\ \/ /\ req'[s].pc = "find" /\ req'[s].token = cookie
               /\ req'[s].login = LoginOf(cookie) /\ sessions' = sessions
            \/ /\ req'[s].pc \in {"check", "exists"}
               /\ req'[s].token = NoToken
               /\ req'[s].login = sessions + 1 /\ sessions' = sessions + 1
            \/ /\ req'[s].pc = "revoke" /\ req'[s].token = NoToken
               /\ req'[s].login = 0 /\ sessions' = sessions
         /\ UNCHANGED <<user, row, expired, cookie, faults>>
<1>1. /\ LoginOf(cookie) \in Nat /\ cookie \in Token \cup {NoToken}
      /\ sessions + 1 \in Nat /\ 0 \in Nat
      /\ NoToken \in Token \cup {NoToken}
  BY DEF LoginOf, Live, SessionsTypeOK
<1>2. /\ {"find", "check", "exists", "revoke"} \subseteq Waits
      /\ {"boot", "retry", "login", "register", "sso", "logout"} \subseteq Kinds
  BY DEF Waits, Kinds
<1>3. CASE BootRefresh(t, s)
  <2>1. Send(t, s, "boot", "find", cookie, LoginOf(cookie))
    BY <1>3 DEF BootRefresh
  <2> QED
    BY <1>1, <1>2, <1>3, <2>1, SendFacts DEF BootRefresh
<1>4. CASE Unauthorized(t, s)
  <2>1. Send(t, s, "retry", "find", cookie, LoginOf(cookie))
    BY <1>4 DEF Unauthorized
  <2> QED
    BY <1>1, <1>2, <1>4, <2>1, SendFacts DEF Unauthorized
<1>5. CASE SignIn(t, s)
  <2>1. PICK kind \in Kinds, pc \in {"check", "exists"} :
          Send(t, s, kind, pc, NoToken, sessions + 1)
    BY <1>2, <1>5 DEF SignIn
  <2> QED
    BY <1>1, <1>2, <1>5, <2>1, SendFacts DEF SignIn
<1>6. CASE SignOut(t, s)
  <2>1. Send(t, s, "logout", "revoke", NoToken, 0)
    BY <1>6 DEF SignOut, LogoutToken
  <2> QED
    BY <1>1, <1>2, <1>6, <2>1, SendFacts DEF SignOut
<1> QED
  BY <1>3, <1>4, <1>5, <1>6

(* Taking an answer.                                                       *)
LEMMA ReceiveFacts ==
  ASSUME TInv, NEW s \in Slot, Receive(s)
  PROVE  /\ req[s].pc \in Answers /\ req[s].tab \in Tab
         /\ tab[req[s].tab].wait = s
         /\ req' \in [Slot -> Requests] /\ At(s, "idle")'
         /\ \A r \in Slot : r # s => req'[r] = req[r]
         /\ tab' \in [Tab -> Tabs] /\ tab'[req[s].tab].wait = NoSlot
         /\ \A u \in Tab : u # req[s].tab => tab'[u] = tab[u]
         /\ cookie' \in Token \cup {NoToken}
         /\ req[s].new \in Token \cup {NoToken}
<1>1. ~At(s, "idle") /\ req[s].pc \in Answers
  BY DEF Receive, Answers, At
<1>2. /\ req[s].tab \in Tab /\ req[s].kind \in Kinds
      /\ req[s].new \in Token \cup {NoToken}
  BY <1>1, InFlight DEF TInv
<1>3. /\ Answered(req[s].tab, req[s].kind, req[s].pc) \in Tabs
      /\ Answered(req[s].tab, req[s].kind, req[s].pc).wait = NoSlot
  BY <1>1, <1>2, AnsweredTab DEF TInv
<1>4. /\ tab' \in [Tab -> Tabs] /\ tab'[req[s].tab].wait = NoSlot
      /\ \A u \in Tab : u # req[s].tab => tab'[u] = tab[u]
  BY <1>2, <1>3 DEF Receive, TInv, SessionsTypeOK, Tabs
<1>5. /\ req' \in [Slot -> Requests] /\ At(s, "idle")'
      /\ \A r \in Slot : r # s => req'[r] = req[r]
  BY DEF Receive, TInv, SessionsTypeOK, Requests, At, Idle
<1> QED
  BY <1>1, <1>2, <1>4, <1>5 DEF Receive, TInv, SessionsTypeOK
-----------------------------------------------------------------------------
(* The types hold at first, and no tab waits.                              *)
LEMMA InitType == Init => TInv
<1> SUFFICES ASSUME Init PROVE TInv
  OBVIOUS
<1>1. Booting \in Tabs /\ Booting.wait = NoSlot
  BY DEF Booting, Closed, Tabs
<1>2. SessionsTypeOK
  BY <1>1 DEF Init, SessionsTypeOK, Requests, Tabs
<1>3. Waiting
  BY <1>1 DEF Init, Waiting
<1> QED
  BY <1>2, <1>3 DEF TInv

(* A tab that stops waiting disturbs nothing else.                         *)
LEMMA NewWaits ==
  ASSUME TInv, NEW t \in Tab, req' = req, row' = row, expired' = expired,
         user' = user, sessions' = sessions, cookie' = cookie,
         faults' \in Nat, tab' \in [Tab -> Tabs], tab'[t].wait = NoSlot,
         \A u \in Tab : u # t => tab'[u] = tab[u]
  PROVE  TInv'
<1>1. SessionsTypeOK'
  BY DEF TInv, SessionsTypeOK, Tabs
<1>2. Waiting'
  BY DEF TInv, Waiting, At
<1> QED
  BY <1>1, <1>2 DEF TInv

(* Every step keeps the types and what tabs wait for.                      *)
LEMMA StepType == TInv /\ [Next]_vars => TInv'
<1> SUFFICES ASSUME TInv, [Next]_vars PROVE TInv'
  OBVIOUS
<1> USE SessionsAssumption
<1>1. CASE UNCHANGED vars
  BY <1>1 DEF vars, TInv, SessionsTypeOK, Waiting, At
<1>2. ASSUME NEW t \in Tab, NEW s \in Slot,
             BootRefresh(t, s) \/ Unauthorized(t, s) \/ SignIn(t, s)
               \/ SignOut(t, s)
      PROVE  TInv'
  <2>1. /\ Sent(t, s) /\ sessions' \in Nat
        /\ UNCHANGED <<user, row, expired, cookie, faults>>
    BY <1>2, SendingStep DEF TInv, SessionsTypeOK
  <2>2. SessionsTypeOK'
    BY <2>1 DEF Sent, TInv, SessionsTypeOK, Tabs
  <2>3. Waiting'
    BY <2>1 DEF Sent, TInv, Waiting, At, SessionsTypeOK
  <2> QED
    BY <2>2, <2>3 DEF TInv
<1>3. ASSUME NEW t \in Tab, BootMe(t) PROVE TInv'
  BY <1>3 DEF BootMe, TInv, SessionsTypeOK, Waiting, At
<1>4. ASSUME NEW t \in Tab, GiveUp(t) PROVE TInv'
  <2>1. tab[t].wait \in Slot /\ ~At(tab[t].wait, "idle")
    BY <1>4 DEF GiveUp, TInv, SessionsTypeOK, Waiting
  <2>2. req[tab[t].wait].kind \in Kinds
    BY <2>1, InFlight DEF TInv
  <2>3. /\ Answered(t, req[tab[t].wait].kind, "error") \in Tabs
        /\ Answered(t, req[tab[t].wait].kind, "error").wait = NoSlot
    BY <2>2, AnsweredTab DEF Answers, TInv
  <2>4. /\ tab' \in [Tab -> Tabs] /\ tab'[t].wait = NoSlot
        /\ \A u \in Tab : u # t => tab'[u] = tab[u]
    BY <1>4, <2>3 DEF GiveUp, TInv, SessionsTypeOK, Tabs
  <2> QED
    BY <1>4, <2>4, NewWaits DEF GiveUp, Fault, TInv, SessionsTypeOK
<1>5. ASSUME NEW t \in Tab, Reload(t) PROVE TInv'
  <2>1. Booting \in Tabs /\ Booting.wait = NoSlot
    BY DEF Booting, Closed, Tabs
  <2>2. /\ tab' \in [Tab -> Tabs] /\ tab'[t].wait = NoSlot
        /\ \A u \in Tab : u # t => tab'[u] = tab[u]
    BY <1>5, <2>1 DEF Reload, TInv, SessionsTypeOK, Tabs
  <2>3. faults' \in Nat
    BY <1>5 DEF Reload, Fault, TInv, SessionsTypeOK
  <2> QED
    BY <1>5, <2>2, <2>3, NewWaits DEF Reload, TInv, SessionsTypeOK
<1>6. ASSUME NEW s \in Slot, Receive(s) PROVE TInv'
  <2>1. SessionsTypeOK'
    BY <1>6, ReceiveFacts DEF Receive, TInv, SessionsTypeOK, Tabs
  <2>2. Waiting'
    BY <1>6, ReceiveFacts DEF TInv, SessionsTypeOK, Waiting, At
  <2> QED
    BY <2>1, <2>2 DEF TInv
<1>7. ASSUME NEW s \in Slot, Drop(s) PROVE TInv'
  BY <1>7 DEF Drop, TInv, SessionsTypeOK, Requests, Waiting, At
<1>8. ASSUME NEW s \in Slot, Handle(s) \/ Fails(s) PROVE TInv'
  <2>1. Frame(s)
    BY <1>8, HandlerFrame DEF TInv
  <2>2. user' \in {"none", "active", "inactive"} /\ faults' \in Nat
    BY <1>8 DEF Handle, Fails, RefreshFind, RefreshPurge, RefreshDelete,
         RefreshLook, GenerateTokens, CheckPassword, FindUser, CreateUser,
         Revoke, RefreshNoSeller, QueryFails, Fault, TInv, SessionsTypeOK
  <2>3. row' \in [Token -> Nat] /\ expired' \subseteq Token
    <3>1. CASE GenerateTokens(s)
      <4>1. req[s].login \in Nat
        BY <3>1, InFlight DEF GenerateTokens, At, TInv
      <4> QED
        BY <3>1, <4>1 DEF GenerateTokens, TInv, SessionsTypeOK
    <3> QED
      BY <1>8, <3>1
      DEF Handle, Fails, RefreshFind, RefreshPurge, RefreshDelete,
          RefreshLook, CheckPassword, FindUser, CreateUser, Revoke,
          RefreshNoSeller, QueryFails, DeleteRow, TInv, SessionsTypeOK
  <2>4. SessionsTypeOK'
    BY <2>1, <2>2, <2>3 DEF Frame, TInv, SessionsTypeOK
  <2>5. Waiting'
    BY <2>1 DEF Frame, TInv, SessionsTypeOK, Waiting, At, Waits, Answers
  <2> QED
    BY <2>4, <2>5 DEF TInv
<1>9. CASE Crash
  <2>1. ASSUME NEW s \in Slot, req[s].pc \in Waits
        PROVE  /\ [req[s] EXCEPT !.pc = "error"] \in Requests
               /\ [req[s] EXCEPT !.pc = "error"].tab = req[s].tab
               /\ [req[s] EXCEPT !.pc = "error"].pc = "error"
    <3>1. ~At(s, "idle")
      BY <2>1 DEF Waits, At
    <3> QED
      BY <3>1, InFlight DEF TInv, Requests, Answers
  <2>2. req' \in [Slot -> Requests]
    BY <1>9, <2>1 DEF Crash, TInv, SessionsTypeOK
  <2>3. \A s \in Slot : ~At(s, "idle") => /\ req'[s].pc # "idle"
                                          /\ req'[s].tab = req[s].tab
    BY <1>9, <2>1 DEF Crash, At
  <2> QED
    BY <1>9, <2>2, <2>3
    DEF Crash, Fault, rest, TInv, SessionsTypeOK, Waiting, At
<1>10. CASE Deactivate
  BY <1>10 DEF Deactivate, Fault, rest, TInv, SessionsTypeOK, Waiting, At
<1>11. ASSUME NEW k \in Token, TokenExpires(k) PROVE TInv'
  BY <1>11 DEF TokenExpires, Fault, rest, TInv, SessionsTypeOK, Waiting, At
<1> QED
  BY <1>1, <1>2, <1>3, <1>4, <1>5, <1>6, <1>7, <1>8, <1>9, <1>10, <1>11
  DEF Next, TabStep, World

(* The types hold in every state.                                          *)
THEOREM SessionsTypes == Spec => []SessionsTypeOK
<1>1. TInv => SessionsTypeOK
  BY DEF TInv
<1> QED
  BY <1>1, InitType, StepType, PTL DEF Spec
-----------------------------------------------------------------------------
(* At first no login has a token.                                          *)
LEMMA InitIInv == Init => IInv
<1> SUFFICES ASSUME Init PROVE IInv
  OBVIOUS
<1>1. TInv
  BY InitType
<1>2. Held /\ Counted /\ Minting /\ OneRow
  BY DEF Init, Idle, At, Held, Counted, Minting, Mints, OneRow, Live
<1> QED
  BY <1>1, <1>2 DEF IInv

(* A step that keeps the rows and sends nothing new keeps the invariant.   *)
LEMMA NothingNew ==
  ASSUME IInv, TInv', UNCHANGED <<row, sessions>>,
         \A s \in Slot : \/ req'[s] = req[s]
                         \/ req'[s].pc = "idle"
                         \/ req'[s].pc \in Answers
                            /\ req'[s].login = req[s].login
                            /\ ~At(s, "idle")
  PROVE  IInv'
<1>1. Held'
  BY DEF IInv, Held, Live, Answers
<1>2. Counted'
  BY DEF IInv, Counted, At
<1>3. \A s \in Slot : Mints(s)' => req'[s] = req[s] /\ Mints(s)
  BY DEF Mints, Answers
<1>4. Minting'
  BY <1>3 DEF IInv, Minting
<1>5. OneRow'
  BY DEF IInv, OneRow
<1> QED
  BY <1>1, <1>2, <1>4, <1>5 DEF IInv

(* Sending a request: a new login is above all that were.                  *)
LEMMA SendKeeps ==
  ASSUME IInv, TInv', NEW t \in Tab, NEW s \in Slot,
         \/ BootRefresh(t, s) \/ Unauthorized(t, s)
         \/ SignIn(t, s) \/ SignOut(t, s)
  PROVE  IInv'
<1> USE DEF IInv, TInv
<1>1. /\ Sent(t, s)
      /\ \/ /\ req'[s].pc = "find" /\ req'[s].token = cookie
            /\ req'[s].login = LoginOf(cookie) /\ sessions' = sessions
         \/ /\ req'[s].pc \in {"check", "exists"}
            /\ req'[s].token = NoToken
            /\ req'[s].login = sessions + 1 /\ sessions' = sessions + 1
         \/ /\ req'[s].pc = "revoke" /\ req'[s].token = NoToken
            /\ req'[s].login = 0 /\ sessions' = sessions
      /\ UNCHANGED <<user, row, expired, cookie, faults>>
  BY SendingStep
<1>2. /\ \A r \in Slot : r # s => req'[r] = req[r]
      /\ At(s, "idle") /\ sessions \in Nat /\ row \in [Token -> Nat]
      /\ row' = row
  BY <1>1 DEF Sent, SessionsTypeOK
<1>3. LoginOf(cookie) <= sessions /\ LoginOf(cookie) \in Nat
  BY <1>2 DEF LoginOf, Live, Counted
<1>4. Held'
  BY <1>1, <1>2 DEF Held, Live, LoginOf
<1>5. Counted'
  <2>1. \A k \in Token : row'[k] <= sessions'
    BY <1>1, <1>2 DEF Counted
  <2>2. \A r \in Slot : ~At(r, "idle")' => req'[r].login <= sessions'
    <3>1. ASSUME NEW r \in Slot, r # s, ~At(r, "idle")'
          PROVE  req'[r].login <= sessions'
      <4>1. ~At(r, "idle") /\ req'[r] = req[r]
        BY <1>2, <3>1 DEF At
      <4>2. req[r].login \in Nat
        BY <4>1, InFlight
      <4> QED
        BY <1>1, <1>2, <4>1, <4>2 DEF Counted
    <3>2. req'[s].login <= sessions'
      BY <1>1, <1>2, <1>3
    <3> QED
      BY <3>1, <3>2
  <2> QED
    BY <2>1, <2>2 DEF Counted
<1>6. Minting'
  <2>1. \A r \in Slot : r # s /\ Mints(r)' => Mints(r) /\ req'[r] = req[r]
    BY <1>2 DEF Mints
  <2>2. CASE req'[s].pc \notin {"check", "exists"}
    <3>1. ~Mints(s)'
      BY <1>1, <2>2 DEF Mints
    <3> QED
      BY <1>2, <2>1, <3>1 DEF Minting
  <2>3. CASE req'[s].pc \in {"check", "exists"}
    <3>1. req'[s].login = sessions + 1
      BY <1>1, <2>3
    <3>2. \A r \in Slot : r # s /\ Mints(r) => req[r].login <= sessions
                                            /\ req[r].login \in Nat
      <4>1. \A r \in Slot : Mints(r) => ~At(r, "idle")
        BY DEF Mints, At
      <4> QED
        BY <4>1, InFlight DEF Counted
    <3>3. \A k \in Token : row[k] <= sessions /\ row[k] \in Nat
      BY <1>2 DEF Counted
    <3>4. /\ sessions + 1 # 0 /\ \A n \in Nat : n <= sessions =>
                                               n # sessions + 1
      BY <1>2
    <3> QED
      BY <1>2, <2>1, <3>1, <3>2, <3>3, <3>4 DEF Minting
  <2> QED
    BY <2>2, <2>3
<1>7. OneRow'
  BY <1>2 DEF OneRow
<1> QED
  BY <1>4, <1>5, <1>6, <1>7

(* A handler that only goes on: it may not start to mint.                  *)
LEMMA HandlerGoesOn ==
  ASSUME IInv, TInv', NEW s \in Slot, Frame(s),
         \A k \in Token : row'[k] \in {0, row[k]},
         req[s].pc = "find" \/ req'[s].pc \notin {"find", "purge", "delete"},
         Mints(s)' => Mints(s)
  PROVE  IInv'
<1> USE DEF IInv, TInv
<1>1. /\ \A r \in Slot : r # s => req'[r] = req[r]
      /\ req'[s].token = req[s].token /\ req'[s].login = req[s].login
      /\ req[s].pc \in Waits /\ sessions' = sessions
  BY DEF Frame
<1>2. ~At(s, "idle")
  BY <1>1 DEF Waits, At
<1>3. Held'
  BY <1>1 DEF Held, Live
<1>4. Counted'
  <2>1. \A k \in Token : row'[k] <= sessions'
    BY <1>1 DEF Counted, SessionsTypeOK
  <2>2. \A r \in Slot : ~At(r, "idle")' => req'[r].login <= sessions'
    BY <1>1, <1>2 DEF Counted, At
  <2> QED
    BY <2>1, <2>2 DEF Counted
<1>5. \A r \in Slot : Mints(r)' => Mints(r) /\ req'[r].login = req[r].login
  BY <1>1 DEF Mints
<1>6. Minting'
  BY <1>5 DEF Minting
<1>7. OneRow'
  BY DEF OneRow
<1> QED
  BY <1>3, <1>4, <1>6, <1>7

(* Rotation: the row goes, and the request that deleted it alone may       *)
(* store the login's next.                                                 *)
LEMMA DeleteKeeps ==
  ASSUME IInv, TInv', NEW s \in Slot, Frame(s), RefreshDelete(s)
  PROVE  IInv'
<1> USE DEF IInv, TInv
<1> DEFINE k == req[s].token
<1>1. At(s, "delete") /\ row' = [j \in Token |-> IF j = k THEN 0 ELSE row[j]]
  BY DEF RefreshDelete, DeleteRow
<1>2. req'[s].pc = IF ~Live(k) THEN "error" ELSE "look"
  BY <1>1 DEF RefreshDelete, Goto, At, SessionsTypeOK, Requests, Idle
<1>3. \A j \in Token : row'[j] \in {0, row[j]}
  BY <1>1
<1>4. CASE ~Live(k)
  BY <1>1, <1>2, <1>3, <1>4, HandlerGoesOn DEF Mints
<1>5. CASE Live(k)
  <2>1. /\ req[s].login = row[k] /\ row[k] # 0 /\ k \in Token
        /\ req'[s].login = req[s].login /\ req'[s].pc = "look"
        /\ \A r \in Slot : r # s => req'[r] = req[r]
        /\ sessions' = sessions
    BY <1>1, <1>2, <1>5 DEF Held, Live, At, Frame
  <2>2. Held'
    BY <1>3, <2>1 DEF Held, Live
  <2>3. Counted'
    <3>1. \A j \in Token : row'[j] <= sessions'
      BY <1>3, <2>1 DEF Counted, SessionsTypeOK
    <3>2. \A r \in Slot : ~At(r, "idle")' => req'[r].login <= sessions'
      BY <1>1, <2>1 DEF Counted, At
    <3> QED
      BY <3>1, <3>2 DEF Counted
  <2>4. \A r \in Slot : r # s /\ Mints(r)' => Mints(r) /\ req'[r] = req[r]
    BY <2>1 DEF Mints
  <2>5. \A j \in Token : row'[j] # row[k]
    BY <1>1, <2>1 DEF OneRow
  <2>6. \A r \in Slot : r # s /\ Mints(r) => req[r].login # row[k]
    BY <2>1 DEF Minting
  <2>7. Minting'
    BY <1>3, <2>1, <2>4, <2>5, <2>6 DEF Minting
  <2>8. OneRow'
    BY <1>3 DEF OneRow
  <2> QED
    BY <2>2, <2>3, <2>7, <2>8
<1> QED
  BY <1>4, <1>5

(* Storing a row: the login had none, and the request is done minting.     *)
LEMMA GenerateKeeps ==
  ASSUME IInv, TInv', NEW s \in Slot, Frame(s), GenerateTokens(s)
  PROVE  IInv'
<1> USE DEF IInv, TInv
<1> DEFINE n == NewToken
<1>1. /\ n \in Token /\ row[n] = 0 /\ cookie # n
      /\ \A r \in Slot : At(r, "idle") \/ n \notin {req[r].token, req[r].new}
  BY NewIsUnheld DEF GenerateTokens, Unheld
<1>2. /\ At(s, "create") /\ row' = [row EXCEPT ![n] = req[s].login]
      /\ req'[s].pc = "ok"
      /\ req'[s].login = req[s].login
      /\ \A r \in Slot : r # s => req'[r] = req[r]
      /\ sessions' = sessions
  <2>1. req' = [req EXCEPT ![s].pc = "ok", ![s].new = n] /\ At(s, "create")
    BY DEF GenerateTokens
  <2>2. req'[s].pc = "ok"
    <3>1. ~At(s, "idle")
      BY <2>1 DEF At
    <3> QED
      BY <2>1, <3>1, <1>1, Moved
  <2> QED
    BY <2>1, <2>2 DEF Frame, GenerateTokens
<1>3. /\ row'[n] = req[s].login
      /\ \A j \in Token : j # n => row'[j] = row[j]
  BY <1>1, <1>2 DEF SessionsTypeOK
<1>4. Mints(s) /\ ~Mints(s)'
  BY <1>2 DEF Mints, At
<1>5. /\ req[s].login # 0 /\ \A j \in Token : row[j] # req[s].login
      /\ \A r \in Slot : r # s /\ Mints(r) => req[r].login # req[s].login
  BY <1>4 DEF Minting
<1>6. Held'
  BY <1>1, <1>2, <1>3 DEF Held, Live, At
<1>7. Counted'
  BY <1>2, <1>3 DEF Counted, At
<1>8. \A r \in Slot : Mints(r)' => r # s /\ Mints(r) /\ req'[r] = req[r]
  BY <1>2, <1>4 DEF Mints
<1>9. Minting'
  BY <1>1, <1>3, <1>5, <1>8 DEF Minting
<1>10. OneRow'
  BY <1>3, <1>5 DEF OneRow
<1> QED
  BY <1>6, <1>7, <1>9, <1>10

(* Every step keeps the rotation.                                          *)
LEMMA StepIInv == IInv /\ [Next]_vars => IInv'
<1> SUFFICES ASSUME IInv, [Next]_vars PROVE IInv'
  OBVIOUS
<1>1. TInv'
  BY StepType DEF IInv
<1>2. CASE UNCHANGED vars
  BY <1>1, <1>2, NothingNew DEF vars
<1>3. ASSUME NEW t \in Tab, NEW s \in Slot,
             BootRefresh(t, s) \/ Unauthorized(t, s) \/ SignIn(t, s)
               \/ SignOut(t, s)
      PROVE  IInv'
  BY <1>1, <1>3, SendKeeps
<1>4. ASSUME NEW t \in Tab, BootMe(t) \/ GiveUp(t) \/ Reload(t) PROVE IInv'
  BY <1>1, <1>4, NothingNew DEF BootMe, GiveUp, Reload
<1>5. ASSUME NEW s \in Slot, Receive(s) \/ Drop(s) PROVE IInv'
  BY <1>1, <1>5, NothingNew
  DEF Receive, Drop, Idle, IInv, TInv, SessionsTypeOK
<1>6. ASSUME NEW s \in Slot, Handle(s) \/ Fails(s) PROVE IInv'
  <2>1. Frame(s)
    BY <1>6, HandlerFrame DEF IInv, TInv
  <2>2. CASE RefreshDelete(s)
    BY <1>1, <2>1, <2>2, DeleteKeeps
  <2>3. CASE GenerateTokens(s)
    BY <1>1, <2>1, <2>3, GenerateKeeps
  <2>4. req \in [Slot -> Requests] /\ row \in [Token -> Nat]
    BY DEF IInv, TInv, SessionsTypeOK
  <2>5. ASSUME NEW pc \in Waits \cup Answers, Goto(s, pc)
        PROVE  req'[s].pc = pc
    <3>1. ~At(s, "idle")
      BY <2>1 DEF Frame, Waits, At
    <3> QED
      BY <2>5, <3>1, Gone DEF IInv, TInv
  <2>6. CASE Revoke(s)
    <3>1. /\ \A k \in Token : row'[k] \in {0, row[k]}
          /\ req' = [req EXCEPT ![s].pc = "ok", ![s].new = NoToken]
      BY <2>4, <2>6 DEF Revoke, DeleteRow
    <3>2. req'[s].pc = "ok"
      <4>1. ~At(s, "idle")
        BY <2>1 DEF Frame, Waits, At
      <4> QED
        BY <3>1, <4>1, Moved DEF IInv, TInv
    <3> QED
      BY <1>1, <2>1, <3>1, <3>2, HandlerGoesOn DEF Mints
  <2>7. CASE RefreshFind(s)
    <3>1. req[s].pc = "find" /\ row' = row
      BY <2>7 DEF RefreshFind, At
    <3>2. req'[s].pc \in {"denied", "purge", "delete"}
      BY <2>5, <2>7 DEF RefreshFind, Waits, Answers
    <3> QED
      BY <1>1, <2>1, <3>1, <3>2, HandlerGoesOn DEF Mints
  <2>8. CASE RefreshPurge(s)
    <3>1. \A k \in Token : row'[k] \in {0, row[k]}
      BY <2>4, <2>8 DEF RefreshPurge, DeleteRow
    <3>2. req'[s].pc \in {"denied", "error"}
      BY <2>5, <2>8 DEF RefreshPurge, Waits, Answers
    <3> QED
      BY <1>1, <2>1, <3>1, <3>2, HandlerGoesOn DEF Mints
  <2>9. CASE RefreshLook(s) \/ CheckPassword(s) \/ FindUser(s)
             \/ CreateUser(s)
    <3>1. row' = row /\ Mints(s)
      BY <2>9 DEF RefreshLook, CheckPassword, FindUser, CreateUser, Mints, At
    <3>2. req'[s].pc \in {"create", "denied", "new", "error"}
      BY <2>5, <2>9 DEF RefreshLook, CheckPassword, FindUser, CreateUser,
                        Waits, Answers
    <3> QED
      BY <1>1, <2>1, <3>1, <3>2, HandlerGoesOn
  <2>10. CASE Fails(s)
    <3>1. row' = row
      BY <2>10 DEF Fails, RefreshNoSeller, QueryFails
    <3>2. req'[s].pc \in {"denied", "error"}
      BY <2>5, <2>10 DEF Fails, RefreshNoSeller, QueryFails, Waits, Answers
    <3> QED
      BY <1>1, <2>1, <3>1, <3>2, HandlerGoesOn DEF Mints
  <2> QED
    BY <1>6, <2>2, <2>3, <2>6, <2>7, <2>8, <2>9, <2>10 DEF Handle
<1>7. CASE Crash
  <2>1. \A s \in Slot : \/ req'[s] = req[s]
                        \/ /\ req'[s].pc \in Answers /\ ~At(s, "idle")
                           /\ req'[s].login = req[s].login
    <3> SUFFICES ASSUME NEW s \in Slot, req[s].pc \in Waits
                 PROVE  /\ req'[s].pc \in Answers /\ ~At(s, "idle")
                        /\ req'[s].login = req[s].login
      BY <1>7 DEF Crash
    <3>1. ~At(s, "idle")
      BY DEF Waits, At
    <3>2. req'[s] = [req[s] EXCEPT !.pc = "error"]
      BY <1>7 DEF Crash
    <3> QED
      BY <3>1, <3>2, InFlight DEF IInv, TInv, Answers
  <2> QED
    BY <1>1, <1>7, <2>1, NothingNew DEF Crash, rest
<1>8. ASSUME Deactivate \/ \E k \in Token : TokenExpires(k) PROVE IInv'
  BY <1>1, <1>8, NothingNew DEF Deactivate, TokenExpires, rest
<1> QED
  BY <1>2, <1>3, <1>4, <1>5, <1>6, <1>7, <1>8 DEF Next, TabStep, World

(* The invariant of rotation holds in every state.                         *)
THEOREM RotationInvariant == Spec => []IInv
  BY InitIInv, StepIInv, PTL DEF Spec

(* A login never has two refresh tokens, nor one beside a request that     *)
(* will store its next.                                                    *)
THEOREM OneToken == Spec => []OneTokenPerLogin
<1>1. IInv => OneTokenPerLogin
  BY DEF IInv, OneTokenPerLogin, OneRow, Minting, Mints, Rotates
<1> QED
  BY <1>1, RotationInvariant, PTL
-----------------------------------------------------------------------------
(* While nothing fails: a tab waits for each of its requests, no row       *)
(* expires, and a token on its way to the browser is stored and known to   *)
(* nobody else.                                                            *)
Owned == \A s \in Slot : ~At(s, "idle") => tab[req[s].tab].wait = s

Carried == \A s \in Slot : /\ ~At(s, "purge")
                           /\ At(s, "revoke") => req[s].token = NoToken

Coming(s) == At(s, "ok") /\ req[s].new \in Token

Fresh ==
  \A s \in Slot : Coming(s) =>
    /\ row[req[s].new] # 0 /\ req[s].new # cookie
    /\ \A r \in Slot : ~At(r, "idle") => req[r].token # req[s].new
    /\ \A r \in Slot : Coming(r) /\ req[r].new = req[s].new => r = s

Witness(s) == req[s].pc \in {"look", "create", "ok"} /\ req[s].token = cookie

Kept == cookie # NoToken => row[cookie] # 0 \/ \E s \in Slot : Witness(s)

Quiet == expired = {} /\ Owned /\ Carried /\ Fresh /\ Kept

QInv == TInv /\ (faults = 0 => Quiet)

(* At first nothing has failed.                                            *)
LEMMA InitQInv == Init => QInv
<1> SUFFICES ASSUME Init PROVE QInv
  OBVIOUS
<1>1. TInv
  BY InitType
<1>2. Quiet
  BY DEF Init, Idle, At, Quiet, Owned, Carried, Coming, Fresh, Kept
<1> QED
  BY <1>1, <1>2 DEF QInv

(* A request that is sent carries the cookie or nothing.                   *)
LEMMA SendQuiet ==
  ASSUME TInv, Quiet, TInv', NEW t \in Tab, NEW s \in Slot,
         \/ BootRefresh(t, s) \/ Unauthorized(t, s)
         \/ SignIn(t, s) \/ SignOut(t, s)
  PROVE  Quiet'
<1> USE DEF Quiet, TInv
<1>1. /\ Sent(t, s) /\ req'[s].token \in {cookie, NoToken}
      /\ req'[s].pc \in {"find", "check", "exists", "revoke"}
      /\ req'[s].pc = "revoke" => req'[s].token = NoToken
      /\ row' = row /\ expired' = expired /\ cookie' = cookie
  BY SendingStep
<1>2. /\ At(s, "idle") /\ req'[s].tab = t /\ tab'[t].wait = s
      /\ tab[t].wait = NoSlot
      /\ \A r \in Slot : r # s => req'[r] = req[r]
      /\ \A u \in Tab : u # t => tab'[u] = tab[u]
  BY <1>1 DEF Sent
<1>3. Owned'
  <2> SUFFICES ASSUME NEW r \in Slot, r # s, ~At(r, "idle")
               PROVE  tab'[req[r].tab].wait = r
    BY <1>2 DEF Owned, At
  <2>1. tab[req[r].tab].wait = r /\ req[r].tab \in Tab
    BY InFlight DEF Owned
  <2> QED
    BY <1>2, <2>1, SessionsAssumption
<1>4. Carried'
  BY <1>1, <1>2 DEF Carried, At
<1>5. \A r \in Slot : Coming(r)' => r # s /\ Coming(r)
  BY <1>1, <1>2 DEF Coming, At
<1>6. Fresh'
  <2>1. \A r \in Slot : Coming(r) => req[r].new # req'[s].token
    BY <1>1, SessionsAssumption DEF Fresh, Coming
  <2> QED
    BY <1>1, <1>2, <1>5, <2>1 DEF Fresh, At
<1>7. Kept'
  <2>1. \A r \in Slot : Witness(r) => Witness(r)'
    BY <1>1, <1>2 DEF Witness, At
  <2> QED
    BY <1>1, <2>1 DEF Kept
<1> QED
  BY <1>1, <1>3, <1>4, <1>6, <1>7

(* An answer: the cookie becomes that of a stored row, or stays.           *)
LEMMA ReceiveQuiet ==
  ASSUME TInv, Quiet, TInv', NEW s \in Slot, Receive(s)
  PROVE  Quiet'
<1> USE DEF Quiet, TInv
<1>1. /\ req[s].pc \in Answers /\ req[s].tab \in Tab
      /\ tab[req[s].tab].wait = s /\ At(s, "idle")'
      /\ \A r \in Slot : r # s => req'[r] = req[r]
      /\ \A u \in Tab : u # req[s].tab => tab'[u] = tab[u]
      /\ req[s].new \in Token \cup {NoToken}
      /\ row' = row /\ expired' = expired
      /\ cookie' = IF req[s].pc = "ok" THEN req[s].new ELSE cookie
  BY ReceiveFacts DEF Receive
<1>2. Owned'
  <2> SUFFICES ASSUME NEW r \in Slot, r # s, ~At(r, "idle")
               PROVE  tab'[req[r].tab].wait = r
    BY <1>1 DEF Owned, At
  <2>1. tab[req[r].tab].wait = r /\ req[r].tab \in Tab
    BY InFlight DEF Owned
  <2> QED
    BY <1>1, <2>1
<1>3. Carried'
  BY <1>1 DEF Carried, At
<1>4. \A r \in Slot : r # s => (Coming(r)' <=> Coming(r)) /\ req'[r] = req[r]
  BY <1>1 DEF Coming, At
<1>5. ~Coming(s)'
  BY <1>1 DEF Coming, At
<1>6. \A r \in Slot : r # s /\ Coming(r) => req[r].new # cookie'
  <2> SUFFICES ASSUME NEW r \in Slot, r # s, Coming(r)
               PROVE  req[r].new # cookie'
    OBVIOUS
  <2>1. CASE At(s, "ok") /\ req[s].new \in Token
    BY <1>1, <2>1 DEF Fresh, Coming, At
  <2>2. CASE At(s, "ok") /\ req[s].new = NoToken
    BY <1>1, <2>2, SessionsAssumption DEF Coming, At
  <2>3. CASE ~At(s, "ok")
    BY <1>1, <2>3 DEF Fresh, At
  <2> QED
    BY <1>1, <2>1, <2>2, <2>3
<1>7. Fresh'
  <2> SUFFICES ASSUME NEW r \in Slot, Coming(r)'
               PROVE  /\ row'[req'[r].new] # 0 /\ req'[r].new # cookie'
                      /\ \A q \in Slot : ~At(q, "idle")' =>
                                         req'[q].token # req'[r].new
                      /\ \A q \in Slot : Coming(q)'
                           /\ req'[q].new = req'[r].new => q = r
    BY DEF Fresh
  <2>1. r # s /\ Coming(r) /\ req'[r] = req[r]
    BY <1>4, <1>5
  <2>2. \A q \in Slot : ~At(q, "idle")' => q # s /\ ~At(q, "idle")
                                           /\ req'[q] = req[q]
    BY <1>1 DEF At
  <2>3. \A q \in Slot : Coming(q)' => Coming(q) /\ req'[q] = req[q]
    BY <1>4, <1>5
  <2> QED
    BY <1>1, <1>6, <2>1, <2>2, <2>3 DEF Fresh
<1>8. Kept'
  <2>1. CASE At(s, "ok")
    BY <1>1, <2>1 DEF Kept, Fresh, Coming, At
  <2>2. CASE ~At(s, "ok")
    <3>1. ~Witness(s) /\ cookie' = cookie
      BY <1>1, <2>2 DEF Witness, At, Answers
    <3>2. \A r \in Slot : r # s /\ Witness(r) => Witness(r)'
      BY <1>1, <3>1 DEF Witness
    <3> QED
      BY <1>1, <3>1, <3>2 DEF Kept
  <2> QED
    BY <2>1, <2>2
<1> QED
  BY <1>1, <1>2, <1>3, <1>7, <1>8

(* A handler's step that creates no row and answers no token.              *)
LEMMA HandlerQuiet ==
  ASSUME TInv, Quiet, TInv', NEW s \in Slot, Frame(s), expired' = {},
         ~At(s, "purge")', At(s, "revoke")' => At(s, "revoke"),
         ~Coming(s)',
         \A k \in Token : \/ row'[k] = row[k]
                          \/ /\ k = req[s].token /\ row[k] # 0
                             /\ At(s, "look")',
         Witness(s) => Witness(s)'
  PROVE  Quiet'
<1> USE DEF Quiet, TInv
<1>1. /\ req[s].pc \in Waits /\ req'[s].token = req[s].token
      /\ req'[s].tab = req[s].tab
      /\ \A r \in Slot : r # s => req'[r] = req[r]
      /\ cookie' = cookie /\ tab' = tab
  BY DEF Frame
<1>2. ~At(s, "idle") /\ ~Coming(s)
  BY <1>1 DEF At, Coming, Waits
<1>3. Owned'
  BY <1>1, <1>2 DEF Owned, At
<1>4. Carried'
  BY <1>1 DEF Carried, At
<1>5. \A r \in Slot : Coming(r)' => r # s /\ Coming(r) /\ req'[r] = req[r]
  BY <1>1 DEF Coming, At
<1>6. Fresh'
  <2> SUFFICES ASSUME NEW r \in Slot, Coming(r)'
               PROVE  /\ row'[req[r].new] # 0 /\ req[r].new # cookie
                      /\ \A q \in Slot : ~At(q, "idle")' =>
                                         req'[q].token # req[r].new
                      /\ \A q \in Slot : Coming(q)'
                           /\ req'[q].new = req[r].new => q = r
    BY <1>1, <1>5 DEF Fresh
  <2>1. Coming(r)
    BY <1>5
  <2>2. req[s].token # req[r].new
    BY <1>2, <2>1 DEF Fresh
  <2>3. row'[req[r].new] # 0
    BY <2>1, <2>2 DEF Fresh, Coming
  <2>4. \A q \in Slot : ~At(q, "idle")' => req'[q].token # req[r].new
    BY <1>1, <1>2, <2>1, <2>2 DEF Fresh, At
  <2>5. \A q \in Slot : Coming(q)' /\ req'[q].new = req[r].new => q = r
    BY <1>5, <2>1 DEF Fresh
  <2> QED
    BY <2>1, <2>3, <2>4, <2>5 DEF Fresh
<1>7. Kept'
  <2>1. \A r \in Slot : Witness(r) => Witness(r)'
    BY <1>1 DEF Witness
  <2>2. ASSUME cookie \in Token, row'[cookie] # row[cookie]
        PROVE  Witness(s)'
    BY <1>1, <2>2 DEF Witness, At
  <2>3. cookie \in Token \cup {NoToken}
    BY DEF SessionsTypeOK
  <2> QED
    BY <1>1, <2>1, <2>2, <2>3 DEF Kept
<1> QED
  BY <1>3, <1>4, <1>6, <1>7

(* The new row is one that no request and no browser knows.                *)
LEMMA GenerateQuiet ==
  ASSUME TInv, Quiet, TInv', NEW s \in Slot, Frame(s), GenerateTokens(s),
         req[s].login # 0
  PROVE  Quiet'
<1> USE DEF Quiet, TInv
<1> DEFINE n == NewToken
<1>1. /\ n \in Token /\ row[n] = 0 /\ cookie # n
      /\ \A r \in Slot : At(r, "idle") \/ n \notin {req[r].token, req[r].new}
  BY NewIsUnheld DEF GenerateTokens, Unheld
<1>2. /\ At(s, "create") /\ row' = [row EXCEPT ![n] = req[s].login]
      /\ req' = [req EXCEPT ![s].pc = "ok", ![s].new = n]
      /\ expired' = expired /\ cookie' = cookie /\ tab' = tab
  BY DEF GenerateTokens
<1>3. /\ ~At(s, "idle") /\ req'[s].pc = "ok" /\ req'[s].new = n
      /\ req'[s].token = req[s].token /\ req'[s].tab = req[s].tab
      /\ \A r \in Slot : r # s => req'[r] = req[r]
  <2>1. ~At(s, "idle") /\ n \in Token \cup {NoToken}
    BY <1>1, <1>2 DEF At
  <2> QED
    BY <1>2, <2>1, Moved
<1>4. row'[n] # 0 /\ \A k \in Token : k # n => row'[k] = row[k]
  BY <1>1, <1>2 DEF SessionsTypeOK
<1>5. Owned'
  BY <1>2, <1>3 DEF Owned, At
<1>6. Carried'
  BY <1>3 DEF Carried, At
<1>7. \A r \in Slot : ~At(r, "idle")' => /\ ~At(r, "idle")
                                         /\ req'[r].token = req[r].token
  BY <1>3 DEF At
<1>8. \A r \in Slot : r # s /\ Coming(r)' =>
        /\ Coming(r) /\ req'[r] = req[r] /\ req[r].new # n
        /\ ~At(r, "idle")
  BY <1>1, <1>3 DEF Coming, At
<1>9. Fresh'
  <2> SUFFICES ASSUME NEW r \in Slot, Coming(r)'
               PROVE  /\ row'[req'[r].new] # 0 /\ req'[r].new # cookie
                      /\ \A q \in Slot : ~At(q, "idle")' =>
                                         req'[q].token # req'[r].new
                      /\ \A q \in Slot : Coming(q)'
                           /\ req'[q].new = req'[r].new => q = r
    BY <1>2 DEF Fresh
  <2>1. CASE r = s
    BY <1>1, <1>3, <1>4, <1>7, <1>8, <2>1
  <2>2. CASE r # s
    BY <1>3, <1>4, <1>7, <1>8, <2>2 DEF Fresh, Coming
  <2> QED
    BY <2>1, <2>2
<1>10. Kept'
  <2>1. \A r \in Slot : Witness(r) => Witness(r)'
    BY <1>2, <1>3 DEF Witness
  <2> QED
    BY <1>1, <1>2, <1>4, <2>1 DEF Kept, SessionsTypeOK
<1> QED
  BY <1>2, <1>5, <1>6, <1>9, <1>10

(* Any other step leaves requests, rows, cookie and waits alone.           *)
LEMMA StillQuiet ==
  ASSUME Quiet, UNCHANGED <<row, expired, cookie, req>>,
         \A t \in Tab : tab'[t].wait = tab[t].wait, TInv
  PROVE  Quiet'
<1>1. \A s \in Slot : ~At(s, "idle") => req[s].tab \in Tab
  BY InFlight DEF TInv
<1>2. Owned'
  BY <1>1 DEF Quiet, Owned, At
<1>3. Carried' /\ Fresh' /\ Kept'
  BY DEF Quiet, Carried, Fresh, Coming, Kept, Witness, At
<1> QED
  BY <1>2, <1>3 DEF Quiet

(* Every step keeps what holds while nothing failed.                       *)
LEMMA StepQInv == IInv /\ QInv /\ [Next]_vars => QInv'
<1> SUFFICES ASSUME IInv, QInv, [Next]_vars, faults' = 0 PROVE Quiet'
  BY StepType DEF QInv
<1> USE DEF QInv
<1>1. TInv'
  BY StepType
<1>2. faults \in Nat /\ faults' = 0
  BY DEF TInv, SessionsTypeOK
<1>3. ~Fault
  BY <1>2 DEF Fault
<1>4. CASE UNCHANGED vars
  BY <1>2, <1>4, StillQuiet DEF vars
<1>5. ASSUME NEW t \in Tab, NEW s \in Slot,
             BootRefresh(t, s) \/ Unauthorized(t, s) \/ SignIn(t, s)
               \/ SignOut(t, s)
      PROVE  Quiet'
  <2>1. faults = 0
    BY <1>2, <1>5 DEF BootRefresh, Unauthorized, SignIn, SignOut
  <2> QED
    BY <1>1, <1>5, <2>1, SendQuiet
<1>6. ASSUME NEW t \in Tab, BootMe(t) PROVE Quiet'
  BY <1>2, <1>6, StillQuiet DEF BootMe, TInv, SessionsTypeOK
<1>7. ASSUME NEW t \in Tab, GiveUp(t) \/ Reload(t) PROVE Quiet'
  <2>1. Reload(t) /\ tab[t].wait = NoSlot /\ UNCHANGED faults
    BY <1>3, <1>7 DEF GiveUp, Reload
  <2> QED
    BY <1>2, <2>1, StillQuiet
    DEF Reload, Booting, Closed, TInv, SessionsTypeOK
<1>8. ASSUME NEW s \in Slot, Receive(s) PROVE Quiet'
  BY <1>1, <1>2, <1>8, ReceiveQuiet DEF Receive
<1>9. ASSUME NEW s \in Slot, Drop(s) PROVE Quiet'
  BY <1>2, <1>9 DEF Drop, Quiet, Owned, At, Answers
<1>10. ASSUME NEW s \in Slot, Handle(s) \/ Fails(s) PROVE Quiet'
  <2>1. Frame(s)
    BY <1>10, HandlerFrame DEF TInv
  <2>2. Handle(s)
    BY <1>3, <1>10 DEF Fails, RefreshNoSeller, QueryFails
  <2>3. faults = 0 /\ Quiet /\ expired = {}
    BY <1>2, <2>2
    DEF Handle, RefreshFind, RefreshPurge, RefreshDelete, RefreshLook,
        GenerateTokens, CheckPassword, FindUser, CreateUser, Revoke, Quiet
  <2>4. req \in [Slot -> Requests] /\ row \in [Token -> Nat]
    BY DEF TInv, SessionsTypeOK
  <2>5. ~At(s, "idle") /\ req'[s].token = req[s].token /\ cookie' = cookie
    BY <2>1 DEF Frame, Waits, At
  <2>6. ASSUME NEW pc \in Waits \cup Answers, Goto(s, pc)
        PROVE  req'[s].pc = pc
    BY <2>5, <2>6, Gone DEF TInv
  <2>7. CASE RefreshFind(s)
    <3>1. At(s, "find") /\ row' = row /\ expired' = {}
      BY <2>3, <2>7 DEF RefreshFind
    <3>2. req'[s].pc \in {"denied", "delete"}
      BY <2>3, <2>6, <2>7 DEF RefreshFind, Waits, Answers
    <3> QED
      BY <1>1, <2>1, <2>3, <3>1, <3>2, HandlerQuiet DEF At, Coming, Witness
  <2>8. CASE RefreshPurge(s)
    BY <2>3, <2>8 DEF RefreshPurge, Quiet, Carried
  <2>9. CASE RefreshDelete(s)
    <3>1. At(s, "delete") /\ expired' = {}
      BY <2>3, <2>9 DEF RefreshDelete, DeleteRow
    <3>2. req'[s].pc = IF ~Live(req[s].token) THEN "error" ELSE "look"
      BY <2>6, <2>9 DEF RefreshDelete, Waits, Answers
    <3>3. \A k \in Token : \/ row'[k] = row[k]
                           \/ /\ k = req[s].token /\ row[k] # 0
                              /\ At(s, "look")'
      BY <2>4, <2>9, <3>2 DEF RefreshDelete, DeleteRow, Live, At
    <3> QED
      BY <1>1, <2>1, <2>3, <3>1, <3>2, <3>3, HandlerQuiet
      DEF At, Coming, Witness
  <2>10. CASE RefreshLook(s)
    <3>1. At(s, "look") /\ row' = row /\ expired' = {}
      BY <2>3, <2>10 DEF RefreshLook
    <3>2. req'[s].pc = "create"
      BY <2>6, <2>10 DEF RefreshLook, Waits
    <3> QED
      BY <1>1, <2>1, <2>3, <2>5, <3>1, <3>2, HandlerQuiet
      DEF At, Coming, Witness
  <2>11. CASE GenerateTokens(s)
    <3>1. req[s].login # 0
      BY <2>11 DEF GenerateTokens, IInv, Minting, Mints, At
    <3> QED
      BY <1>1, <2>1, <2>3, <2>11, <3>1, GenerateQuiet
  <2>12. CASE CheckPassword(s) \/ FindUser(s) \/ CreateUser(s)
    <3>1. /\ req[s].pc \in {"check", "exists", "new"}
          /\ row' = row /\ expired' = {}
      BY <2>3, <2>12 DEF CheckPassword, FindUser, CreateUser, At
    <3>2. req'[s].pc \in {"create", "denied", "new", "error"}
      BY <2>6, <2>12 DEF CheckPassword, FindUser, CreateUser, Waits, Answers
    <3> QED
      BY <1>1, <2>1, <2>3, <3>1, <3>2, HandlerQuiet DEF At, Coming, Witness
  <2>13. CASE Revoke(s)
    <3>1. At(s, "revoke") /\ req[s].token = NoToken
      BY <2>3, <2>13 DEF Revoke, Quiet, Carried
    <3>2. row' = row /\ expired' = {}
      BY <2>3, <2>4, <2>13, <3>1, SessionsAssumption DEF Revoke, DeleteRow
    <3>3. req'[s].pc = "ok" /\ req'[s].new = NoToken
      <4>1. req' = [req EXCEPT ![s].pc = "ok", ![s].new = NoToken]
        BY <2>13 DEF Revoke
      <4>2. NoToken \in Token \cup {NoToken}
        OBVIOUS
      <4> QED
        BY <2>5, <4>1, <4>2, Moved DEF TInv
    <3> QED
      BY <1>1, <2>1, <2>3, <3>1, <3>2, <3>3, SessionsAssumption, HandlerQuiet
      DEF At, Coming, Witness
  <2> QED
    BY <2>2, <2>7, <2>8, <2>9, <2>10, <2>11, <2>12, <2>13 DEF Handle
<1>11. ~World
  BY <1>3 DEF World, Crash, Deactivate, TokenExpires
<1> QED
  BY <1>4, <1>5, <1>6, <1>7, <1>8, <1>9, <1>10, <1>11 DEF Next, TabStep

(* As long as nothing fails the cookie is that of a stored session, or is  *)
(* being exchanged for its successor, however many tabs race with it.      *)
THEOREM CookieLives == Spec => []CookieIsLive
<1>1. QInv => CookieIsLive
  BY DEF QInv, Quiet, Kept, Witness, CookieIsLive
<1>2. IInv /\ QInv /\ [Next]_vars => (IInv /\ QInv)'
  BY StepIInv, StepQInv
<1> QED
  BY <1>1, <1>2, InitIInv, InitQInv, PTL DEF Spec
-----------------------------------------------------------------------------
(* The rotation implements SessionContract, step by step.                  *)
Chains == [n \in Opened |-> TokensOf(n)]

ContractStep == [Contract!Next]_<<sessions, OpenLogins, Chains>>

(* A login that is not open has no token.                                  *)
LEMMA ClosedHasNone ==
  ASSUME NEW n \in Opened, n \notin OpenLogins
  PROVE  TokensOf(n) = {}
  BY DEF OpenLogins, TokensOf

(* A step that opens nothing: rows go only with their login.               *)
LEMMA OnlyEnds ==
  ASSUME IInv, sessions' = sessions,
         \A k \in Token : \/ row'[k] = row[k]
                          \/ /\ row'[k] = 0
                             /\ \A j \in Token : row'[j] # row[k],
         \A s \in Slot : Mints(s)' => Mints(s) /\ req'[s].login = req[s].login
  PROVE  ContractStep
<1> DEFINE ended == OpenLogins \ OpenLogins'
<1> USE DEF IInv, TInv
<1>1. sessions \in Nat /\ row \in [Token -> Nat]
  BY DEF SessionsTypeOK
<1>2. Opened' = Opened /\ \A n \in Opened : n # 0
  BY <1>1 DEF Opened
<1>3. OpenLogins' \subseteq OpenLogins
  <2> SUFFICES ASSUME NEW n \in OpenLogins' PROVE n \in OpenLogins
    OBVIOUS
  <2>1. n \in Opened /\ n # 0
    BY <1>2 DEF OpenLogins
  <2>2. CASE \E k \in Token : row'[k] = n
    BY <2>1, <2>2 DEF OpenLogins
  <2>3. CASE \E s \in Slot : Mints(s)' /\ req'[s].login = n
    BY <2>1, <2>3 DEF OpenLogins
  <2> QED
    BY <2>2, <2>3 DEF OpenLogins
<1>4. ASSUME NEW n \in OpenLogins' PROVE TokensOf(n)' = TokensOf(n)
  <2>1. n # 0
    BY <1>2, <1>3 DEF OpenLogins
  <2>2. ASSUME NEW k \in Token, row'[k] = n PROVE row[k] = n
    BY <2>1, <2>2
  <2>3. ASSUME NEW k \in Token, row[k] = n PROVE row'[k] = n
    <3>1. ASSUME NEW s \in Slot, Mints(s)', req'[s].login = n PROVE FALSE
      BY <2>3, <3>1 DEF Minting
    <3>2. \E j \in Token : row'[j] = n
      BY <1>4, <3>1 DEF OpenLogins
    <3> QED
      BY <2>3, <3>2
  <2> QED
    BY <2>2, <2>3 DEF TokensOf
<1>5. ASSUME NEW n \in Opened, n \notin OpenLogins' PROVE TokensOf(n)' = {}
  BY <1>2, <1>5 DEF OpenLogins, TokensOf
<1>6. \A n \in Opened :
        TokensOf(n)' = IF n \in ended THEN {} ELSE TokensOf(n)
  BY <1>3, <1>4, <1>5, ClosedHasNone
<1>7. CASE ended = {}
  <2>1. OpenLogins' = OpenLogins /\ Chains' = Chains
    BY <1>2, <1>3, <1>6, <1>7 DEF Chains
  <2> QED
    BY <2>1 DEF ContractStep
<1>8. CASE ended # {}
  <2>1. /\ OpenLogins' = OpenLogins \ ended
        /\ Chains' = [n \in Opened |-> IF n \in ended THEN {} ELSE Chains[n]]
    BY <1>2, <1>3, <1>6 DEF Chains
  <2>2. Contract!End(ended)
    BY <1>8, <2>1 DEF Contract!End, Chains, Opened
  <2>3. ended \in SUBSET OpenLogins
    OBVIOUS
  <2> QED
    BY <2>2, <2>3 DEF ContractStep, Contract!Next
<1> QED
  BY <1>7, <1>8

(* A sign-in opens a session.                                              *)
LEMMA SignInOpens ==
  ASSUME IInv, NEW t \in Tab, NEW s \in Slot, SignIn(t, s)
  PROVE  ContractStep
<1> USE DEF IInv, TInv
<1> DEFINE new == sessions + 1
<1>1. sessions \in Nat /\ row \in [Token -> Nat]
  BY DEF SessionsTypeOK
<1>2. sessions' = new /\ row' = row /\ At(s, "idle")
  BY DEF SignIn, Send
<1>3. /\ req'[s].pc \in {"check", "exists"} /\ req'[s].login = new
      /\ \A r \in Slot : r # s => req'[r] = req[r]
  BY <1>1, <1>2, SendingStep DEF Sent
<1>4. Mints(s)' /\ ~Mints(s)
  BY <1>2, <1>3 DEF Mints, At
<1>5. \A r \in Slot : r # s => /\ Mints(r)' = Mints(r)
                               /\ req'[r].login = req[r].login
  BY <1>3 DEF Mints
<1>6. /\ Opened' = Opened \cup {new} /\ Opened' = 1 .. new
      /\ new \notin Opened /\ \A n \in Opened' : n <= sessions <=> n \in Opened
  BY <1>1, <1>2 DEF Opened
<1>7. OpenLogins' = OpenLogins \cup {new}
  <2>1. new \in OpenLogins'
    BY <1>3, <1>4, <1>6 DEF OpenLogins
  <2>2. ASSUME NEW n \in Opened PROVE n \in OpenLogins' <=> n \in OpenLogins
    BY <1>2, <1>3, <1>4, <1>5, <1>6, <2>2 DEF OpenLogins
  <2> QED
    BY <1>6, <2>1, <2>2 DEF OpenLogins
<1>8. \A n : TokensOf(n)' = TokensOf(n)
  BY <1>2 DEF TokensOf
<1>9. TokensOf(new) = {}
  <2>1. \A k \in Token : row[k] <= sessions /\ row[k] \in Nat
    BY <1>1 DEF Counted
  <2>2. \A i \in Nat : i <= sessions => i # new
    BY <1>1
  <2> QED
    BY <2>1, <2>2 DEF TokensOf
<1>10. Chains' = [n \in 1 .. new |->
                    IF n <= sessions THEN Chains[n] ELSE {}]
  BY <1>6, <1>8, <1>9 DEF Chains
<1>11. Contract!Open
  BY <1>2, <1>7, <1>10 DEF Contract!Open, Chains
<1> QED
  BY <1>11 DEF ContractStep, Contract!Next

(* The winner of a rotation takes the session's token.                     *)
LEMMA DeleteExchanges ==
  ASSUME IInv, NEW s \in Slot, Frame(s), RefreshDelete(s),
         NEW k, NEW n, k = req[s].token, n = row[k], Live(k)
  PROVE  ContractStep
<1> USE DEF IInv, TInv
<1>1. /\ At(s, "delete") /\ row' = [j \in Token |-> IF j = k THEN 0 ELSE row[j]]
      /\ k \in Token /\ n # 0 /\ req[s].login = n
      /\ sessions \in Nat /\ row \in [Token -> Nat]
  BY DEF RefreshDelete, DeleteRow, At, Live, Held, SessionsTypeOK
<1>2. req'[s].pc = "look" /\ req'[s].login = n
  BY <1>1
  DEF RefreshDelete, Goto, At, SessionsTypeOK, Requests, Idle, Frame
<1>3. /\ sessions' = sessions
      /\ \A r \in Slot : r # s => req'[r] = req[r]
  BY DEF Frame
<1>4. Mints(s)' /\ ~Mints(s)
  BY <1>1, <1>2 DEF Mints, At
<1>5. \A r \in Slot : r # s => Mints(r)' = Mints(r)
  BY <1>3 DEF Mints
<1>6. Opened' = Opened /\ n \in Opened /\ \A i \in Opened : i # 0
  BY <1>1, <1>3 DEF Opened, Counted
<1>7. n \in OpenLogins /\ OpenLogins' = OpenLogins
  <2>1. n \in OpenLogins /\ n \in OpenLogins'
    BY <1>1, <1>2, <1>4, <1>6 DEF OpenLogins
  <2>2. ASSUME NEW i \in Opened, i # n
        PROVE  i \in OpenLogins' <=> i \in OpenLogins
    <3>1. (\E j \in Token : row'[j] = i) <=> (\E j \in Token : row[j] = i)
      BY <1>1, <1>6, <2>2
    <3>2. (\E r \in Slot : Mints(r)' /\ req'[r].login = i)
            <=> (\E r \in Slot : Mints(r) /\ req[r].login = i)
      BY <1>2, <1>3, <1>4, <1>5, <2>2
    <3> QED
      BY <1>6, <3>1, <3>2 DEF OpenLogins
  <2> QED
    BY <1>6, <2>1, <2>2 DEF OpenLogins
<1>8. TokensOf(n) = {k} /\ TokensOf(n)' = {}
  BY <1>1 DEF TokensOf, OneRow
<1>9. \A i \in Opened : i # n => TokensOf(i)' = TokensOf(i)
  BY <1>1, <1>6 DEF TokensOf
<1>10. Chains' = [Chains EXCEPT ![n] = {}] /\ Chains[n] = {k}
  BY <1>6, <1>8, <1>9 DEF Chains
<1>11. Contract!Exchange(n, k)
  BY <1>3, <1>7, <1>10 DEF Contract!Exchange, Chains
<1> QED
  BY <1>1, <1>7, <1>11 DEF ContractStep, Contract!Next

(* ... and alone gives it the next.                                        *)
LEMMA GenerateIssues ==
  ASSUME IInv, NEW s \in Slot, Frame(s), GenerateTokens(s),
         NEW k, NEW n, k = NewToken, n = req[s].login
  PROVE  ContractStep
<1> USE DEF IInv, TInv
<1>1. /\ k \in Token /\ row[k] = 0
      /\ sessions \in Nat /\ row \in [Token -> Nat]
  BY NewIsUnheld DEF GenerateTokens, Unheld, SessionsTypeOK
<1>2. /\ At(s, "create") /\ row' = [row EXCEPT ![k] = n]
      /\ req' = [req EXCEPT ![s].pc = "ok", ![s].new = k]
  BY DEF GenerateTokens
<1>3. Mints(s) /\ ~At(s, "idle")
  BY <1>2 DEF Mints, At
<1>4. /\ n # 0 /\ \A j \in Token : row[j] # n
      /\ \A r \in Slot : r # s /\ Mints(r) => req[r].login # n
      /\ n \in Nat /\ n <= sessions
  BY <1>3, InFlight DEF Minting, Counted
<1>5. req'[s].pc = "ok" /\ ~Mints(s)'
  BY <1>1, <1>2, <1>3, Moved DEF Mints
<1>6. /\ sessions' = sessions
      /\ \A r \in Slot : r # s => req'[r] = req[r]
  BY DEF Frame
<1>7. \A r \in Slot : r # s => Mints(r)' = Mints(r)
  BY <1>6 DEF Mints
<1>8. /\ row'[k] = n /\ \A j \in Token : j # k => row'[j] = row[j]
  BY <1>1, <1>2
<1>9. Opened' = Opened /\ n \in Opened /\ \A i \in Opened : i # 0
  BY <1>1, <1>4, <1>6 DEF Opened
<1>10. n \in OpenLogins /\ OpenLogins' = OpenLogins
  <2>1. n \in OpenLogins /\ n \in OpenLogins'
    BY <1>1, <1>3, <1>8, <1>9 DEF OpenLogins
  <2>2. ASSUME NEW i \in Opened, i # n
        PROVE  i \in OpenLogins' <=> i \in OpenLogins
    <3>1. (\E j \in Token : row'[j] = i) <=> (\E j \in Token : row[j] = i)
      BY <1>1, <1>8, <1>9, <2>2
    <3>2. (\E r \in Slot : Mints(r)' /\ req'[r].login = i)
            <=> (\E r \in Slot : Mints(r) /\ req[r].login = i)
      BY <1>3, <1>5, <1>6, <1>7, <2>2
    <3> QED
      BY <1>9, <3>1, <3>2 DEF OpenLogins
  <2> QED
    BY <1>9, <2>1, <2>2 DEF OpenLogins
<1>11. TokensOf(n) = {} /\ TokensOf(n)' = {k}
  BY <1>1, <1>4, <1>8 DEF TokensOf
<1>12. \A i \in Opened : k \notin TokensOf(i)
  BY <1>1, <1>9 DEF TokensOf
<1>13. \A i \in Opened : i # n => TokensOf(i)' = TokensOf(i)
  BY <1>1, <1>8, <1>9 DEF TokensOf
<1>14. /\ Chains' = [Chains EXCEPT ![n] = {k}] /\ Chains[n] = {}
       /\ \A i \in 1 .. sessions : k \notin Chains[i]
  BY <1>9, <1>11, <1>12, <1>13 DEF Chains, Opened
<1>15. Contract!Issue(n, k)
  BY <1>6, <1>10, <1>14 DEF Contract!Issue, Chains
<1> QED
  BY <1>1, <1>10, <1>15 DEF ContractStep, Contract!Next

(* Every step of the sessions is a step of the contract, or stutters.      *)
LEMMA StepIsContractStep ==
  ASSUME IInv, [Next]_vars
  PROVE  ContractStep
<1> USE DEF IInv, TInv
<1>1. CASE UNCHANGED vars
  <2>1. sessions' = sessions /\ row' = row /\ req' = req
    BY <1>1 DEF vars
  <2> QED
    BY <2>1, OnlyEnds DEF Mints
<1>2. ASSUME NEW t \in Tab, NEW s \in Slot,
             BootRefresh(t, s) \/ Unauthorized(t, s) \/ SignOut(t, s)
      PROVE  ContractStep
  <2>1. /\ Sent(t, s) /\ row' = row
        /\ req'[s].pc \in {"find", "revoke"} /\ sessions' = sessions
    <3>1. \/ req'[s].pc = "find" /\ sessions' = sessions
          \/ req'[s].pc \in {"check", "exists"} /\ sessions' = sessions + 1
          \/ req'[s].pc = "revoke" /\ sessions' = sessions
      BY <1>2, SendingStep
    <3>2. sessions' = sessions /\ sessions \in Nat
      BY <1>2 DEF BootRefresh, Unauthorized, SignOut, SessionsTypeOK
    <3> QED
      BY <1>2, <3>1, <3>2, SendingStep
  <2> QED
    BY <2>1, OnlyEnds DEF Sent, Mints
<1>3. ASSUME NEW t \in Tab, NEW s \in Slot, SignIn(t, s) PROVE ContractStep
  BY <1>3, SignInOpens
<1>4. ASSUME NEW t \in Tab, BootMe(t) \/ GiveUp(t) \/ Reload(t)
      PROVE  ContractStep
  <2>1. sessions' = sessions /\ row' = row /\ req' = req
    BY <1>4 DEF BootMe, GiveUp, Reload
  <2> QED
    BY <2>1, OnlyEnds DEF Mints
<1>5. ASSUME NEW s \in Slot, Receive(s) \/ Drop(s) PROVE ContractStep
  <2>1. /\ sessions' = sessions /\ row' = row
        /\ req' = [req EXCEPT ![s] = Idle]
    BY <1>5 DEF Receive, Drop
  <2> QED
    BY <2>1, OnlyEnds DEF Mints, Idle, SessionsTypeOK
<1>6. ASSUME NEW s \in Slot, Handle(s) \/ Fails(s) PROVE ContractStep
  <2>1. Frame(s)
    BY <1>6, HandlerFrame
  <2>2. /\ sessions' = sessions /\ row \in [Token -> Nat]
        /\ \A r \in Slot : r # s => req'[r] = req[r]
        /\ req'[s].login = req[s].login
    BY <2>1 DEF Frame, SessionsTypeOK
  <2>3. ASSUME NEW pc \in Waits \cup Answers, Goto(s, pc)
        PROVE  req'[s].pc = pc
    <3>1. ~At(s, "idle")
      BY <2>1 DEF Frame, Waits, At
    <3> QED
      BY <2>3, <3>1, Gone
  <2>4. CASE RefreshDelete(s) /\ Live(req[s].token)
    BY <2>1, <2>4, DeleteExchanges
  <2>5. CASE GenerateTokens(s)
    BY <2>1, <2>5, GenerateIssues
  <2>6. ASSUME Mints(s)' => Mints(s),
               \A k \in Token : \/ row'[k] = row[k]
                                \/ /\ row'[k] = 0
                                   /\ \A j \in Token : row'[j] # row[k]
        PROVE  ContractStep
    BY <2>2, <2>6, OnlyEnds DEF Mints
  <2>7. ASSUME NEW k, DeleteRow(k)
        PROVE  \A i \in Token : \/ row'[i] = row[i]
                                \/ /\ row'[i] = 0
                                   /\ \A j \in Token : row'[j] # row[i]
    <3> SUFFICES ASSUME NEW i \in Token, row'[i] # row[i]
                 PROVE  row'[i] = 0 /\ \A j \in Token : row'[j] # row[i]
      OBVIOUS
    <3>1. i = k /\ row'[i] = 0 /\ row[i] # 0
      BY <2>7 DEF DeleteRow
    <3> QED
      BY <2>7, <3>1 DEF DeleteRow, OneRow
  <2>8. CASE RefreshDelete(s) /\ ~Live(req[s].token)
    <3>1. Goto(s, "error")
      BY <2>8 DEF RefreshDelete
    <3>2. ~Mints(s)'
      BY <2>3, <3>1 DEF Answers, Mints
    <3> QED
      BY <2>6, <2>7, <2>8, <3>2 DEF RefreshDelete
  <2>9. CASE Revoke(s)
    <3>1. ~Mints(s)'
      <4>1. ~At(s, "idle")
        BY <2>1 DEF Frame, Waits, At
      <4>2. req' = [req EXCEPT ![s].pc = "ok", ![s].new = NoToken]
        BY <2>9 DEF Revoke
      <4>3. req'[s].pc = "ok"
        BY <4>1, <4>2, Moved
      <4> QED
        BY <4>3 DEF Mints
    <3> QED
      BY <2>6, <2>7, <2>9, <3>1 DEF Revoke
  <2>10. CASE RefreshFind(s)
    <3>1. req'[s].pc \in {"denied", "purge", "delete"} /\ row' = row
      BY <2>3, <2>10 DEF RefreshFind, Waits, Answers
    <3> QED
      BY <2>6, <3>1 DEF Mints
  <2>11. CASE RefreshPurge(s)
    <3>1. req'[s].pc \in {"denied", "error"}
      BY <2>3, <2>11 DEF RefreshPurge, Waits, Answers
    <3> QED
      BY <2>6, <2>7, <2>11, <3>1 DEF RefreshPurge, Mints
  <2>12. CASE RefreshLook(s) \/ CheckPassword(s) \/ FindUser(s)
              \/ CreateUser(s)
    <3>1. row' = row /\ Mints(s)
      BY <2>12 DEF RefreshLook, CheckPassword, FindUser, CreateUser, Mints, At
    <3> QED
      BY <2>6, <3>1
  <2>13. CASE Fails(s)
    <3>1. row' = row
      BY <2>13 DEF Fails, RefreshNoSeller, QueryFails
    <3>2. req'[s].pc \in {"denied", "error"}
      BY <2>3, <2>13 DEF Fails, RefreshNoSeller, QueryFails, Waits, Answers
    <3> QED
      BY <2>6, <3>1, <3>2 DEF Mints
  <2> QED
    BY <1>6, <2>4, <2>5, <2>8, <2>9, <2>10, <2>11, <2>12, <2>13 DEF Handle
<1>7. CASE Crash
  <2>1. sessions' = sessions /\ row' = row
    BY <1>7 DEF Crash, rest
  <2>2. ASSUME NEW s \in Slot, Mints(s)' PROVE req'[s] = req[s]
    <3> SUFFICES ASSUME req[s].pc \in Waits PROVE FALSE
      BY <1>7 DEF Crash
    <3>1. ~At(s, "idle")
      BY DEF Waits, At
    <3>2. req'[s].pc = "error"
      BY <1>7, <3>1, InFlight DEF Crash
    <3> QED
      BY <2>2, <3>2 DEF Mints
  <2> QED
    BY <2>1, <2>2, OnlyEnds DEF Mints
<1>8. ASSUME Deactivate \/ \E k \in Token : TokenExpires(k)
      PROVE  ContractStep
  <2>1. sessions' = sessions /\ row' = row /\ req' = req
    BY <1>8 DEF Deactivate, TokenExpires, rest
  <2> QED
    BY <2>1, OnlyEnds DEF Mints
<1> QED
  BY <1>1, <1>2, <1>3, <1>4, <1>5, <1>6, <1>7, <1>8 DEF Next, TabStep, World

(* The first states are the contract's.                                    *)
LEMMA InitIsContractInit == Init => Contract!Init
  BY DEF Init, Contract!Init, Opened, OpenLogins

(* Sessions are chains of tokens: whoever races with a token, and whatever *)
(* is lost between the delete of one row and the creation of the next, no  *)
(* session has two, and none is revived.                                   *)
THEOREM SessionsAreKept == Spec => SessionsKept
<1>1. IInv /\ [Next]_vars => [Contract!Next]_Contract!sessionVars
  BY StepIsContractStep DEF ContractStep, Chains, Contract!sessionVars
<1> QED
  BY <1>1, RotationInvariant, InitIsContractInit, PTL
  DEF Spec, SessionsKept, Contract!Spec
=============================================================================
