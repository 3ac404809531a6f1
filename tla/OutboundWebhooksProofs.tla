------------------------ MODULE OutboundWebhooksProofs ------------------------
(***************************************************************************)
(* Proofs about OutboundWebhooks, for any number of calls, endpoints and   *)
(* attempts: a payload is never older than what it reports, a row that     *)
(* says success tells the truth and is the last of its delivery, copies    *)
(* come from lost answers only, and the whole keeps the contract of        *)
(* reports.                                                                *)
(***************************************************************************)
EXTENDS OutboundWebhooks, TLAPS

Calls == [pc : {"idle", "find", "read", "send", "ended"},
          event : Nat, payload : Nat, to : SUBSET Endpoint]

Deliveries == [pc : {"idle", "post", "log", "done"},
               attempt : 0 .. MaxAttempts, answer : Verdicts]

(* A call reports a change that was made, and sends what it read since.    *)
Reported ==
  \A d \in Run :
    /\ run[d].pc \in {"find", "read", "send"} => run[d].event <= version
    /\ At(d, "send") => run[d].event <= run[d].payload
                        /\ run[d].payload <= version

(* Before a call sends, nothing of it is under way.                        *)
Fresh(d, p) ==
  run[d].pc \in {"idle", "find", "read"} =>
    del[d][p] = Idle /\ accepted[d][p] = 0

(* What a delivery believes of its endpoint is so, and an acceptance it    *)
(* does not know of is a fault.                                            *)
Known(d, p) ==
  /\ del[d][p].answer = "ok" => accepted[d][p] > 0
  /\ del[d][p].pc = "post" => del[d][p].answer # "ok"
  /\ del[d][p].answer # "ok" => accepted[d][p] <= faults
  /\ accepted[d][p] <= faults + 1
  /\ "ok" \in log[d][p] => accepted[d][p] > 0 /\ del[d][p].pc = "done"

Honest == \A d \in Run : \A p \in Endpoint : Fresh(d, p) /\ Known(d, p)

IInv == WebhooksTypeOK /\ Reported /\ Honest
-----------------------------------------------------------------------------
(* The invariant holds at first.                                           *)
LEMMA InitInvariant == Init => IInv
<1> SUFFICES ASSUME Init PROVE IInv
  OBVIOUS
<1>1. Idle \in Deliveries /\ Idle.answer = "failed" /\ Idle.pc = "idle"
  BY WebhooksAssumption DEF Idle, Deliveries, Verdicts
<1>2. WebhooksTypeOK
  BY <1>1 DEF Init, WebhooksTypeOK, Deliveries
<1>3. Reported
  BY DEF Init, Reported, At
<1>4. Honest
  BY <1>1 DEF Init, Honest, Fresh, Known
<1> QED
  BY <1>2, <1>3, <1>4 DEF IInv

(* One entry of a table by calls and endpoints is replaced.                *)
LEMMA OneEntry ==
  ASSUME NEW S, NEW f \in [Run -> [Endpoint -> S]], NEW d \in Run,
         NEW p \in Endpoint, NEW v \in S, NEW g,
         g = [f EXCEPT ![d][p] = v]
  PROVE  /\ g \in [Run -> [Endpoint -> S]]
         /\ g[d][p] = v
         /\ \A e \in Run : \A q \in Endpoint :
              ~(e = d /\ q = p) => g[e][q] = f[e][q]
  OBVIOUS

(* Calls that come no further than reading: no delivery moves.             *)
CallStep(d) == Change(d) \/ Repeat(d) \/ Find(d) \/ QueryFails(d)

(* Such a call keeps the invariant.                                        *)
LEMMA CallKeeps ==
  ASSUME IInv, NEW d \in Run, CallStep(d)
  PROVE  IInv'
<1>1. /\ run[d] \in Calls /\ run[d].pc \in {"idle", "find", "read"}
      /\ version' \in Nat /\ version' >= version
      /\ faults' \in Nat /\ faults' >= faults
      /\ endpoint' = endpoint /\ del' = del /\ accepted' = accepted
      /\ log' = log /\ edits' = edits
  BY WebhooksAssumption
  DEF CallStep, Change, Repeat, Find, QueryFails, Free, At, Fault, IInv,
      WebhooksTypeOK, Calls
<1>2. /\ run' \in [Run -> Calls]
      /\ \A e \in Run : e # d => run'[e] = run[e]
      /\ run'[d].pc \in {"find", "read", "ended"}
      /\ run'[d].pc \in {"find", "read"} => run'[d].event <= version'
  <2>1. CASE Change(d)
    <3>1. /\ run' = [run EXCEPT ![d] = [run[d] EXCEPT
                         !.pc = "find", !.event = version + 1]]
          /\ version' = version + 1 /\ version \in Nat
      BY <2>1 DEF Change, IInv, WebhooksTypeOK
    <3>2. [run[d] EXCEPT !.pc = "find", !.event = version + 1] \in Calls
      BY <1>1, <3>1 DEF Calls
    <3>3. /\ run' \in [Run -> Calls]
          /\ \A e \in Run : e # d => run'[e] = run[e]
          /\ run'[d] = [run[d] EXCEPT !.pc = "find", !.event = version + 1]
      BY <3>1, <3>2 DEF IInv, WebhooksTypeOK, Calls
    <3> QED
      BY <1>1, <3>1, <3>3 DEF Calls
  <2>2. CASE Repeat(d)
    BY <2>2, <1>1 DEF Repeat, Free, At, IInv, WebhooksTypeOK, Calls
  <2>3. CASE Find(d)
    BY <2>3, <1>1 DEF Find, At, IInv, WebhooksTypeOK, Calls, Reported
  <2>4. CASE QueryFails(d)
    BY <2>4, <1>1 DEF QueryFails, IInv, WebhooksTypeOK, Calls
  <2> QED
    BY <2>1, <2>2, <2>3, <2>4 DEF CallStep
<1>3. WebhooksTypeOK'
  BY <1>1, <1>2 DEF IInv, WebhooksTypeOK, Calls
<1>4. Reported'
  <2>1. ASSUME NEW e \in Run, e # d
        PROVE  /\ run[e] \in Calls /\ run'[e] = run[e]
               /\ run[e].pc \in {"find", "read", "send"}
                    => run[e].event <= version
               /\ At(e, "send") => run[e].event <= run[e].payload
                                   /\ run[e].payload <= version
    BY <1>2, <2>1 DEF IInv, WebhooksTypeOK, Reported, Calls
  <2>2. version \in Nat
    BY DEF IInv, WebhooksTypeOK
  <2> QED
    BY <1>1, <1>2, <2>1, <2>2 DEF Reported, At, Calls
<1>5. ASSUME NEW e \in Run, NEW p \in Endpoint
      PROVE  Fresh(e, p)' /\ Known(e, p)'
  <2>1. Fresh(e, p) /\ Known(e, p) /\ accepted[e][p] \in Nat
    BY DEF IInv, Honest, WebhooksTypeOK
  <2>2. Fresh(d, p)
    BY DEF IInv, Honest
  <2>3. Known(e, p)'
    BY <1>1, <2>1 DEF IInv, WebhooksTypeOK, Known
  <2>4. Fresh(e, p)'
    BY <1>1, <1>2, <2>1, <2>2 DEF Fresh
  <2> QED
    BY <2>3, <2>4
<1> QED
  BY <1>3, <1>4, <1>5 DEF IInv, Honest

(* Deliveries begin from nothing.                                          *)
LEMMA ReadKeeps ==
  ASSUME IInv, NEW d \in Run, Read(d)
  PROVE  IInv'
<1>1. /\ run[d] \in Calls /\ run[d].pc = "read" /\ version \in Nat
      /\ run' = [run EXCEPT ![d].pc = "send", ![d].payload = version]
      /\ UNCHANGED <<version, endpoint, accepted, log, edits, faults>>
  BY DEF Read, At, IInv, WebhooksTypeOK, Calls
<1>2. /\ run'[d] \in Calls /\ run'[d].pc = "send"
      /\ run'[d].event = run[d].event /\ run'[d].payload = version
      /\ run' \in [Run -> Calls]
      /\ \A e \in Run : e # d => run'[e] = run[e]
  BY <1>1 DEF IInv, WebhooksTypeOK, Calls
<1>3. ASSUME NEW p \in Endpoint
      PROVE  /\ del'[d][p] \in Deliveries /\ del'[d][p].answer = "failed"
             /\ del'[d][p].pc \in {"idle", "post"}
  <2>1. del[d][p] = Idle
    BY <1>1 DEF IInv, Honest, Fresh
  <2>2. del'[d][p] = IF p \in run[d].to
                     THEN [pc |-> "post", attempt |-> 1, answer |-> "failed"]
                     ELSE del[d][p]
    BY DEF Read, IInv, WebhooksTypeOK
  <2> QED
    BY <2>1, <2>2, WebhooksAssumption DEF Deliveries, Idle, Verdicts
<1>4. /\ del' \in [Run -> [Endpoint -> Deliveries]]
      /\ \A e \in Run : e # d => del'[e] = del[e]
  <2>1. /\ DOMAIN del' = Run /\ del' = [e \in Run |-> del'[e]]
        /\ \A e \in Run : e # d => del'[e] = del[e]
        /\ del'[d] = [p \in Endpoint |-> del'[d][p]]
    BY DEF Read, IInv, WebhooksTypeOK
  <2>2. del'[d] \in [Endpoint -> Deliveries]
    BY <2>1, <1>3
  <2>3. \A e \in Run : del'[e] \in [Endpoint -> Deliveries]
    BY <2>1, <2>2 DEF IInv, WebhooksTypeOK, Deliveries
  <2> QED
    BY <2>1, <2>3
<1>5. WebhooksTypeOK'
  BY <1>1, <1>2, <1>4 DEF IInv, WebhooksTypeOK, Calls, Deliveries
<1>6. Reported'
  BY <1>1, <1>2 DEF IInv, WebhooksTypeOK, Reported, At
<1>7. ASSUME NEW e \in Run, NEW p \in Endpoint
      PROVE  Fresh(e, p)' /\ Known(e, p)'
  <2>1. Fresh(e, p) /\ Known(e, p) /\ accepted[e][p] \in Nat
    BY DEF IInv, Honest, WebhooksTypeOK
  <2>2. CASE e = d
    BY <1>1, <1>2, <1>3, <2>1, <2>2 DEF Fresh, Known, IInv, WebhooksTypeOK
  <2>3. CASE e # d
    BY <1>1, <1>2, <1>4, <2>1, <2>3 DEF Fresh, Known
  <2> QED
    BY <2>2, <2>3
<1> QED
  BY <1>5, <1>6, <1>7 DEF IInv, Honest

(* What one attempt does to the delivery it is of.                         *)
LEMMA DeliverKeeps ==
  ASSUME IInv, NEW d \in Run, NEW p \in Endpoint, Deliver(d, p)
  PROVE  IInv'
<1> DEFINE x == del[d][p]  y == del'[d][p]
           a == accepted[d][p]  b == accepted'[d][p]
           l == log[d][p]  r == log'[d][p]
<1>1. /\ x \in Deliveries /\ a \in Nat /\ faults \in Nat
      /\ l \in SUBSET Verdicts
      /\ x.pc \in {"post", "log"} /\ Known(d, p)
      /\ ~(run[d].pc \in {"idle", "find", "read"})
  BY DEF IInv, WebhooksTypeOK, Honest, Fresh, Deliver, Post, PostFails,
         Log, LogFails, Deliveries, Idle
<1>2. /\ UNCHANGED <<version, endpoint, run, edits>>
      /\ faults' \in Nat /\ faults' >= faults
  BY <1>1, WebhooksAssumption
  DEF Deliver, Post, PostFails, Log, LogFails, Fault
<1>3. /\ del' = [del EXCEPT ![d][p] = y]
      /\ accepted' = [accepted EXCEPT ![d][p] = b]
      /\ log' = [log EXCEPT ![d][p] = r]
      /\ y \in Deliveries /\ b \in Nat /\ b >= a
      /\ y.answer = "ok" => b > 0
      /\ y.pc = "post" => y.answer # "ok"
      /\ y.answer # "ok" => b <= faults'
      /\ b <= faults' + 1
      /\ r \in SUBSET Verdicts
      /\ "ok" \in r => b > 0 /\ y.pc = "done"
  <2>1. CASE Post(d, p)
    <3>1. /\ del' = [del EXCEPT ![d][p].pc = "log", ![d][p].answer = "ok"]
          /\ accepted' = [accepted EXCEPT ![d][p] = @ + 1]
          /\ log' = log /\ faults' = faults /\ x.pc = "post"
      BY <2>1 DEF Post, Posted, Accept
    <3>2. /\ y = [x EXCEPT !.pc = "log", !.answer = "ok"]
          /\ del' = [del EXCEPT ![d][p] = y]
      BY <3>1 DEF IInv, WebhooksTypeOK
    <3>3. b = a + 1 /\ accepted' = [accepted EXCEPT ![d][p] = b]
      BY <3>1 DEF IInv, WebhooksTypeOK
    <3>4. r = l /\ log' = [log EXCEPT ![d][p] = r]
      BY <3>1 DEF IInv, WebhooksTypeOK
    <3>5. y \in Deliveries /\ y.pc = "log" /\ y.answer = "ok"
      BY <1>1, <3>2 DEF Deliveries, Verdicts
    <3>6. b \in Nat /\ b > 0 /\ b >= a /\ b <= faults' + 1
      BY <1>1, <3>1, <3>3 DEF Known
    <3>7. "ok" \notin r
      BY <1>1, <3>1, <3>4 DEF Known
    <3> QED
      BY <1>1, <3>2, <3>3, <3>4, <3>5, <3>6, <3>7 DEF Verdicts
  <2>2. CASE PostFails(d, p)
    <3>1. /\ del' = [del EXCEPT ![d][p].pc = "log",
                               ![d][p].answer = "failed"]
          /\ \/ accepted' = [accepted EXCEPT ![d][p] = @ + 1]
             \/ accepted' = accepted
          /\ log' = log /\ faults' = faults + 1 /\ x.pc = "post"
      BY <2>2 DEF PostFails, Posted, Accept, Fault
    <3>2. /\ y = [x EXCEPT !.pc = "log", !.answer = "failed"]
          /\ del' = [del EXCEPT ![d][p] = y]
      BY <3>1 DEF IInv, WebhooksTypeOK
    <3>3. b \in {a, a + 1} /\ accepted' = [accepted EXCEPT ![d][p] = b]
      BY <3>1 DEF IInv, WebhooksTypeOK
    <3>4. r = l /\ log' = [log EXCEPT ![d][p] = r]
      BY <3>1 DEF IInv, WebhooksTypeOK
    <3>5. y \in Deliveries /\ y.pc = "log" /\ y.answer = "failed"
      BY <1>1, <3>2 DEF Deliveries, Verdicts
    <3>6. b \in Nat /\ b >= a /\ b <= faults' /\ b <= faults' + 1
      BY <1>1, <3>1, <3>3 DEF Known
    <3>7. "ok" \notin r
      BY <1>1, <3>1, <3>4 DEF Known
    <3> QED
      BY <1>1, <3>2, <3>3, <3>4, <3>5, <3>6, <3>7 DEF Verdicts
  <2>3. CASE Log(d, p) \/ LogFails(d, p)
    <3>1. /\ x.pc = "log" /\ accepted' = accepted
          /\ del' = [del EXCEPT ![d][p] = After(x)]
          /\ \/ log' = log
             \/ log' = [log EXCEPT ![d][p] = @ \cup {x.answer}]
      BY <2>3 DEF Log, LogFails
    <3>2. y = After(x) /\ del' = [del EXCEPT ![d][p] = y]
      BY <3>1 DEF IInv, WebhooksTypeOK
    <3>3. b = a /\ accepted' = [accepted EXCEPT ![d][p] = b]
      BY <3>1 DEF IInv, WebhooksTypeOK
    <3>4. /\ r = l \/ r = l \cup {x.answer}
          /\ log' = [log EXCEPT ![d][p] = r]
      BY <3>1 DEF IInv, WebhooksTypeOK
    <3>5. /\ y \in Deliveries /\ y.answer = x.answer
          /\ y.pc \in {"done", "post"}
          /\ y.answer = "ok" => y.pc = "done"
      <4>1. CASE x.answer = "ok" \/ x.attempt = MaxAttempts
        BY <1>1, <3>2, <4>1 DEF After, Deliveries
      <4>2. CASE ~(x.answer = "ok" \/ x.attempt = MaxAttempts)
        <5>1. x.attempt + 1 \in 0 .. MaxAttempts
          BY <1>1, <4>2, WebhooksAssumption DEF Deliveries
        <5> QED
          BY <1>1, <3>2, <4>2, <5>1 DEF After, Deliveries
      <4> QED
        BY <4>1, <4>2
    <3>6. /\ b \in Nat /\ b >= a /\ b <= faults' + 1
          /\ y.answer = "ok" => b > 0
          /\ y.answer # "ok" => b <= faults'
      BY <1>1, <1>2, <3>3, <3>5 DEF Known
    <3>7. r \in SUBSET Verdicts
      BY <1>1, <3>4 DEF Deliveries
    <3>8. "ok" \in r => b > 0 /\ y.pc = "done"
      BY <1>1, <3>1, <3>3, <3>4, <3>5 DEF Known
    <3> QED
      BY <3>2, <3>3, <3>4, <3>5, <3>6, <3>7, <3>8
  <2> QED
    BY <2>1, <2>2, <2>3 DEF Deliver
<1>4. /\ del' \in [Run -> [Endpoint -> Deliveries]]
      /\ \A e \in Run : \A q \in Endpoint :
           ~(e = d /\ q = p) => del'[e][q] = del[e][q]
  <2>1. del \in [Run -> [Endpoint -> Deliveries]]
    BY DEF IInv, WebhooksTypeOK, Deliveries
  <2>2. y \in Deliveries /\ del' = [del EXCEPT ![d][p] = y]
    BY <1>3
  <2> HIDE DEF y
  <2> QED
    BY <2>1, <2>2, OneEntry
<1>5. /\ accepted' \in [Run -> [Endpoint -> Nat]]
      /\ \A e \in Run : \A q \in Endpoint :
           ~(e = d /\ q = p) => accepted'[e][q] = accepted[e][q]
  <2>1. accepted \in [Run -> [Endpoint -> Nat]]
    BY DEF IInv, WebhooksTypeOK
  <2>2. b \in Nat /\ accepted' = [accepted EXCEPT ![d][p] = b]
    BY <1>3
  <2> HIDE DEF b
  <2> QED
    BY <2>1, <2>2, OneEntry
<1>6. /\ log' \in [Run -> [Endpoint -> SUBSET Verdicts]]
      /\ \A e \in Run : \A q \in Endpoint :
           ~(e = d /\ q = p) => log'[e][q] = log[e][q]
  <2>1. log \in [Run -> [Endpoint -> SUBSET Verdicts]]
    BY DEF IInv, WebhooksTypeOK
  <2> QED
    BY <1>3, <2>1, OneEntry
<1>7. WebhooksTypeOK'
  BY <1>2, <1>4, <1>5, <1>6 DEF IInv, WebhooksTypeOK, Deliveries
<1>8. Reported'
  BY <1>2 DEF IInv, Reported, At
<1>9. ASSUME NEW e \in Run, NEW q \in Endpoint
      PROVE  Fresh(e, q)' /\ Known(e, q)'
  <2>1. Fresh(e, q) /\ Known(e, q) /\ accepted[e][q] \in Nat
    BY DEF IInv, Honest, WebhooksTypeOK
  <2>2. CASE e = d /\ q = p
    BY <1>1, <1>2, <1>3, <2>2 DEF Fresh, Known
  <2>3. CASE ~(e = d /\ q = p)
    <3>1. /\ del'[e][q] = del[e][q] /\ accepted'[e][q] = accepted[e][q]
          /\ log'[e][q] = log[e][q]
      BY <1>4, <1>5, <1>6, <2>3
    <3> QED
      BY <1>1, <1>2, <2>1, <3>1 DEF Fresh, Known
  <2> QED
    BY <2>2, <2>3
<1> QED
  BY <1>7, <1>8, <1>9 DEF IInv, Honest

(* A change nobody is told of, and the seller's edits.                     *)
LEMMA OutsideKeeps ==
  ASSUME IInv,
         ChangeSilently \/ \E p \in Endpoint : Switch(p) \/ Delete(p)
  PROVE  IInv'
<1>1. /\ UNCHANGED <<run, del, accepted, log, faults>>
      /\ version' \in Nat /\ version' >= version /\ edits' \in Nat
      /\ endpoint' \in [Endpoint -> {"active", "inactive", "deleted"}]
  BY DEF ChangeSilently, Switch, Delete, Edit, IInv, WebhooksTypeOK
<1>2. WebhooksTypeOK'
  BY <1>1 DEF IInv, WebhooksTypeOK
<1>3. Reported'
  BY <1>1 DEF IInv, WebhooksTypeOK, Reported, At
<1>4. Honest'
  BY <1>1 DEF IInv, Honest, Fresh, Known
<1> QED
  BY <1>2, <1>3, <1>4 DEF IInv

(* A restart ends calls and deliveries where they stand.                   *)
LEMMA CrashKeeps ==
  ASSUME IInv, Crash
  PROVE  IInv'
<1>1. /\ UNCHANGED <<version, endpoint, accepted, log, edits>>
      /\ faults \in Nat /\ faults' = faults + 1
  BY DEF Crash, Fault, IInv, WebhooksTypeOK
<1>2. ASSUME NEW d \in Run
      PROVE  /\ run'[d] \in Calls
             /\ \/ run'[d] = run[d] /\ run[d].pc \in {"idle", "ended"}
                \/ run'[d].pc = "ended"
  BY DEF Crash, IInv, WebhooksTypeOK, Calls
<1>3. ASSUME NEW d \in Run, NEW p \in Endpoint
      PROVE  /\ del'[d][p] \in Deliveries
             /\ IF del[d][p].pc \in {"post", "log"}
                THEN /\ del'[d][p].pc = "done"
                     /\ del'[d][p].answer = del[d][p].answer
                ELSE del'[d][p] = del[d][p]
  <2>1. del[d][p] \in Deliveries
    BY DEF IInv, WebhooksTypeOK, Deliveries
  <2>2. del'[d][p] = IF del[d][p].pc \in {"post", "log"}
                     THEN [del[d][p] EXCEPT !.pc = "done"] ELSE del[d][p]
    BY DEF Crash, IInv, WebhooksTypeOK
  <2> QED
    BY <2>1, <2>2 DEF Deliveries
<1>4. WebhooksTypeOK'
  <2>1. run' \in [Run -> Calls]
    BY <1>2 DEF Crash
  <2>2. del' \in [Run -> [Endpoint -> Deliveries]]
    BY <1>3 DEF Crash
  <2> QED
    BY <1>1, <2>1, <2>2 DEF IInv, WebhooksTypeOK, Calls, Deliveries
<1>5. Reported'
  BY <1>1, <1>2 DEF IInv, Reported, At
<1>6. ASSUME NEW d \in Run, NEW p \in Endpoint
      PROVE  Fresh(d, p)' /\ Known(d, p)'
  <2>1. Fresh(d, p) /\ Known(d, p) /\ accepted[d][p] \in Nat
    BY DEF IInv, Honest, WebhooksTypeOK
  <2>2. Fresh(d, p)'
    <3>1. CASE run'[d] = run[d]
      BY <1>1, <1>3, <2>1, <3>1 DEF Fresh, Idle
    <3>2. CASE run'[d].pc = "ended"
      BY <3>2 DEF Fresh
    <3> QED
      BY <1>2, <3>1, <3>2
  <2>3. Known(d, p)'
    BY <1>1, <1>3, <2>1 DEF Known
  <2> QED
    BY <2>2, <2>3
<1> QED
  BY <1>4, <1>5, <1>6 DEF IInv, Honest

(* The inductive invariant: what calls and deliveries know is so.          *)
THEOREM DeliveryInvariant == Spec => []IInv
<1>1. IInv /\ [Next]_vars => IInv'
  <2> SUFFICES ASSUME IInv, [Next]_vars PROVE IInv'
    OBVIOUS
  <2>1. CASE \E d \in Run : CallStep(d)
    BY <2>1, CallKeeps
  <2>2. CASE \E d \in Run : Read(d)
    BY <2>2, ReadKeeps
  <2>3. CASE \E d \in Run : \E p \in Endpoint : Deliver(d, p)
    BY <2>3, DeliverKeeps
  <2>4. CASE ChangeSilently \/ \E p \in Endpoint : Switch(p) \/ Delete(p)
    BY <2>4, OutsideKeeps
  <2>5. CASE Crash
    BY <2>5, CrashKeeps
  <2>6. CASE UNCHANGED vars
    BY <2>6 DEF vars, IInv, WebhooksTypeOK, Reported, Honest, Fresh,
                Known, At
  <2> QED
    BY <2>1, <2>2, <2>3, <2>4, <2>5, <2>6 DEF Next, Progress, CallStep
<1> QED
  BY <1>1, InitInvariant, PTL DEF Spec

(* Calls, deliveries and rows keep their shapes.                           *)
THEOREM WebhookTypes == Spec => []WebhooksTypeOK
  BY DeliveryInvariant, PTL DEF IInv

(* A payload shows its change or a later one (dispatchOrderEvent).         *)
THEOREM PayloadIsCurrent == Spec => []PayloadNotOlder
<1>1. IInv => PayloadNotOlder
  BY DEF IInv, Reported, PayloadNotOlder, WebhooksTypeOK
<1> QED
  BY <1>1, DeliveryInvariant, PTL

(* A row that says success is of a delivery the endpoint took              *)
(* (deliverToEndpoint).                                                    *)
THEOREM LogTellsTruth == Spec => []LogIsTrue
<1>1. IInv => LogIsTrue
  BY WebhooksAssumption DEF IInv, Honest, Known, LogIsTrue
<1> QED
  BY <1>1, DeliveryInvariant, PTL

(* A report is taken again only after a fault (deliverToEndpoint).         *)
THEOREM CopiesAreBounded == Spec => []CopiesBounded
<1>1. IInv => CopiesBounded
  BY DEF IInv, Honest, Known, CopiesBounded
<1> QED
  BY <1>1, DeliveryInvariant, PTL

(* A step that an endpoint takes a report in is of a delivery still under  *)
(* way, and one whose row says success is over (deliverToEndpoint).        *)
THEOREM SuccessEndsIt == Spec => SuccessIsFinal
<1> DEFINE Final == \A d \in Run : \A p \in Endpoint :
                      "ok" \in log[d][p] => accepted'[d][p] = accepted[d][p]
<1>1. IInv /\ [Next]_vars => [Final]_vars
  <2> SUFFICES ASSUME IInv, Next PROVE Final
    BY DEF vars
  <2>1. CASE accepted' = accepted
    BY <2>1
  <2>2. CASE \E d \in Run : \E p \in Endpoint : Deliver(d, p)
    <3> SUFFICES ASSUME NEW d \in Run, NEW p \in Endpoint, Deliver(d, p),
                        accepted' # accepted
                 PROVE  Final
      BY <2>1, <2>2
    <3>1. del[d][p].pc = "post" /\ accepted' = [accepted EXCEPT ![d][p] = @ + 1]
      BY DEF Deliver, Post, PostFails, Log, LogFails, Accept
    <3>2. "ok" \notin log[d][p]
      BY <3>1 DEF IInv, Honest, Known
    <3>3. accepted \in [Run -> [Endpoint -> Nat]]
      BY DEF IInv, WebhooksTypeOK
    <3> QED
      BY <3>1, <3>2, <3>3
  <2> QED
    BY <2>1, <2>2
    DEF Next, Progress, Change, Repeat, Find, Read, QueryFails,
        ChangeSilently, Switch, Delete, Crash
<1> QED
  BY <1>1, DeliveryInvariant, PTL DEF Spec, SuccessIsFinal
-----------------------------------------------------------------------------
(* OutboundWebhooks implements ReportContract.  The mapping forgets where  *)
(* a call and its deliveries are, so what the contract's guards ask must   *)
(* be known of them.                                                       *)

(* A call names its change when it begins, and shows the order when it     *)
(* has read it.                                                            *)
Begun(d) ==
  /\ At(d, "idle") => run[d].event = 0
  /\ run[d].pc \in {"find", "read"} => run[d].event > 0
  /\ run[d].pc \in {"idle", "find", "read"} => run[d].payload = 0

(* A delivery under way has a payload, and was not taken more often than   *)
(* it was tried.                                                           *)
Tried(d, p) ==
  /\ del[d][p].pc \in {"post", "log"} => run[d].payload > 0
  /\ accepted[d][p] <= del[d][p].attempt
  /\ del[d][p].pc = "post" => accepted[d][p] < del[d][p].attempt

Attempted == \A d \in Run : Begun(d) /\ \A p \in Endpoint : Tried(d, p)

(* Nothing is tried at first.                                              *)
LEMMA InitAttempted == Init => Attempted
  BY DEF Init, Attempted, Begun, Tried, Idle, At

(* The call a step is of is the only one it moves.                         *)
LEMMA OneCall ==
  ASSUME IInv, NEW d \in Run,
         Change(d) \/ Repeat(d) \/ Find(d) \/ Read(d) \/ QueryFails(d)
  PROVE  /\ \A e \in Run : e # d => run'[e] = run[e] /\ del'[e] = del[e]
         /\ UNCHANGED <<accepted, log>>
         /\ run[d] \in Calls /\ run'[d] \in Calls
<1>1. IInv'
  BY CallKeeps, ReadKeeps DEF CallStep
<1>2. run[d] \in Calls /\ run'[d] \in Calls
  BY <1>1 DEF IInv, WebhooksTypeOK, Calls
<1> QED
  BY <1>2 DEF Change, Repeat, Find, Read, QueryFails, IInv, WebhooksTypeOK

(* A call begins with the change it is of and nothing to show.             *)
LEMMA Begins ==
  ASSUME IInv, NEW d \in Run, Change(d) \/ Repeat(d)
  PROVE  /\ version \in Nat /\ version' \in {version, version + 1}
         /\ version' > 0
         /\ run[d].pc = "idle" /\ run'[d].pc = "find"
         /\ run'[d].event = version'
         /\ run'[d].payload = run[d].payload
<1>1. run \in [Run -> Calls] /\ run[d] \in Calls /\ version \in Nat
  BY DEF IInv, WebhooksTypeOK, Calls
<1>2. CASE Change(d)
  <2>1. /\ version' = version + 1 /\ run[d].pc = "idle"
        /\ run' = [run EXCEPT ![d].pc = "find", ![d].event = version + 1]
    BY <1>2 DEF Change, Free, At
  <2>2. run'[d] = [run[d] EXCEPT !.pc = "find", !.event = version + 1]
    BY <1>1, <2>1
  <2> QED
    BY <1>1, <2>1, <2>2 DEF Calls
<1>3. CASE Repeat(d)
  <2>1. /\ version' = version /\ version > 0 /\ run[d].pc = "idle"
        /\ run' = [run EXCEPT ![d].pc = "find", ![d].event = version]
    BY <1>3 DEF Repeat, Free, At
  <2>2. run'[d] = [run[d] EXCEPT !.pc = "find", !.event = version]
    BY <1>1, <2>1
  <2> QED
    BY <1>1, <2>1, <2>2 DEF Calls
<1> QED
  BY <1>2, <1>3

(* What one step of a delivery does to it.                                 *)
LEMMA OneDelivery ==
  ASSUME IInv, NEW d \in Run, NEW p \in Endpoint, Deliver(d, p)
  PROVE  /\ UNCHANGED <<version, run>>
         /\ del[d][p] \in Deliveries /\ del'[d][p] \in Deliveries
         /\ \A e \in Run : \A q \in Endpoint : ~(e = d /\ q = p) =>
              del'[e][q] = del[e][q] /\ accepted'[e][q] = accepted[e][q]
         /\ \/ /\ del[d][p].pc = "post" /\ del'[d][p].pc = "log"
               /\ del'[d][p].attempt = del[d][p].attempt
               /\ log' = log
               /\ \/ accepted' = accepted
                  \/ /\ accepted' = [accepted EXCEPT ![d][p] = @ + 1]
                     /\ accepted'[d][p] = accepted[d][p] + 1
            \/ /\ del[d][p].pc = "log" /\ accepted' = accepted
               /\ \/ del'[d][p].pc = "done"
                     /\ del'[d][p].attempt = del[d][p].attempt
                  \/ del'[d][p].pc = "post"
                     /\ del'[d][p].attempt = del[d][p].attempt + 1
               /\ \/ log' = log
                  \/ log' = [log EXCEPT ![d][p] = @ \cup {del[d][p].answer}]
<1>1. /\ del \in [Run -> [Endpoint -> Deliveries]]
      /\ accepted \in [Run -> [Endpoint -> Nat]]
      /\ UNCHANGED <<version, run>>
  BY DEF IInv, WebhooksTypeOK, Deliveries, Deliver, Post, PostFails, Log,
         LogFails
<1>2. IInv'
  BY DeliverKeeps
<1>3. del[d][p] \in Deliveries /\ del'[d][p] \in Deliveries
  BY <1>1, <1>2 DEF IInv, WebhooksTypeOK, Deliveries
<1>4. CASE Post(d, p) \/ PostFails(d, p)
  <2>1. PICK answer \in Verdicts : Posted(d, p, answer)
    BY <1>4 DEF Post, PostFails, Verdicts
  <2>2. /\ del[d][p].pc = "post" /\ log' = log
        /\ accepted' = accepted \/ Accept(d, p)
    BY <1>4 DEF Post, PostFails
  <2>3. /\ del'[d][p] = [del[d][p] EXCEPT !.pc = "log", !.answer = answer]
        /\ \A e \in Run : \A q \in Endpoint :
             ~(e = d /\ q = p) => del'[e][q] = del[e][q]
    BY <1>1, <2>1 DEF Posted
  <2>4. del'[d][p].pc = "log" /\ del'[d][p].attempt = del[d][p].attempt
    BY <1>3, <2>3 DEF Deliveries
  <2>5. Accept(d, p) =>
          /\ accepted' = [accepted EXCEPT ![d][p] = @ + 1]
          /\ accepted'[d][p] = accepted[d][p] + 1
          /\ \A e \in Run : \A q \in Endpoint :
               ~(e = d /\ q = p) => accepted'[e][q] = accepted[e][q]
    BY <1>1 DEF Accept
  <2> QED
    BY <1>1, <1>3, <2>2, <2>3, <2>4, <2>5
<1>5. CASE Log(d, p) \/ LogFails(d, p)
  <2>1. /\ del[d][p].pc = "log" /\ accepted' = accepted
        /\ del' = [del EXCEPT ![d][p] = After(del[d][p])]
        /\ \/ log' = log
           \/ log' = [log EXCEPT ![d][p] = @ \cup {del[d][p].answer}]
    BY <1>5 DEF Log, LogFails
  <2>2. /\ del'[d][p] = After(del[d][p])
        /\ \A e \in Run : \A q \in Endpoint :
             ~(e = d /\ q = p) => del'[e][q] = del[e][q]
    BY <1>1, <2>1
  <2>3. \/ del'[d][p].pc = "done"
           /\ del'[d][p].attempt = del[d][p].attempt
        \/ del'[d][p].pc = "post"
           /\ del'[d][p].attempt = del[d][p].attempt + 1
    BY <1>3, <2>2 DEF After, Deliveries
  <2> QED
    BY <1>1, <1>3, <2>1, <2>2, <2>3
<1> QED
  BY <1>4, <1>5 DEF Deliver

(* What a call has begun and tried is known after every step.              *)
LEMMA AttemptedStep ==
  ASSUME IInv, Attempted, [Next]_vars
  PROVE  Attempted'
<1>1. CASE \E d \in Run :
             Change(d) \/ Repeat(d) \/ Find(d) \/ QueryFails(d)
  <2>1. PICK d \in Run : Change(d) \/ Repeat(d) \/ Find(d) \/ QueryFails(d)
    BY <1>1
  <2>2. /\ \A e \in Run : e # d => run'[e] = run[e]
        /\ UNCHANGED <<accepted, del>>
        /\ run[d] \in Calls
    BY <2>1, OneCall DEF Change, Repeat, Find, QueryFails
  <2>3. Begun(d)' /\ run'[d].payload = run[d].payload
    <3>1. Begun(d) /\ version \in Nat
      BY DEF Attempted, IInv, WebhooksTypeOK
    <3>2. CASE Change(d) \/ Repeat(d)
      <4>1. /\ run[d].pc = "idle" /\ run'[d].pc = "find"
            /\ run'[d].event > 0 /\ run'[d].payload = run[d].payload
        BY <3>2, Begins
      <4> QED
        BY <3>1, <4>1 DEF Begun, At
    <3>3. CASE Find(d)
      <4>1. /\ run'[d].pc \in {"ended", "read"} /\ run[d].pc = "find"
            /\ run'[d].event = run[d].event
            /\ run'[d].payload = run[d].payload
        BY <2>2, <3>3 DEF Find, IInv, WebhooksTypeOK, Calls, At
      <4> QED
        BY <3>1, <4>1 DEF Begun, At
    <3>4. CASE QueryFails(d)
      <4>1. run'[d].pc = "ended" /\ run'[d].payload = run[d].payload
        BY <2>2, <3>4 DEF QueryFails, IInv, WebhooksTypeOK, Calls
      <4> QED
        BY <4>1 DEF Begun, At
    <3> QED
      BY <2>1, <3>2, <3>3, <3>4
  <2>4. ASSUME NEW e \in Run PROVE Begun(e)'
    BY <2>2, <2>3 DEF Attempted, Begun, At
  <2>5. ASSUME NEW e \in Run, NEW p \in Endpoint PROVE Tried(e, p)'
    BY <2>2, <2>3 DEF Attempted, Tried
  <2> QED
    BY <2>4, <2>5 DEF Attempted
<1>2. CASE \E d \in Run : Read(d)
  <2>1. PICK d \in Run : Read(d)
    BY <1>2
  <2>2. /\ \A e \in Run : e # d => run'[e] = run[e] /\ del'[e] = del[e]
        /\ UNCHANGED accepted /\ run[d] \in Calls
    BY <2>1, OneCall
  <2>3. run'[d].pc = "send" /\ run'[d].payload = version
    BY <2>1, <2>2 DEF Read, IInv, WebhooksTypeOK, Calls
  <2>4. version > 0
    <3>1. run[d].event > 0 /\ run[d].event <= version
      BY <2>1 DEF Read, At, Attempted, Begun, IInv, Reported
    <3> QED
      BY <2>2, <3>1 DEF IInv, WebhooksTypeOK, Calls
  <2>5. ASSUME NEW p \in Endpoint PROVE Tried(d, p)'
    <3>1. del[d][p] = Idle /\ accepted[d][p] = 0
      BY <2>1 DEF Read, At, IInv, Honest, Fresh
    <3>2. del'[d][p] = IF p \in run[d].to
                       THEN [pc |-> "post", attempt |-> 1,
                             answer |-> "failed"]
                       ELSE del[d][p]
      BY <2>1 DEF Read, IInv, WebhooksTypeOK
    <3> QED
      BY <2>2, <2>3, <2>4, <3>1, <3>2 DEF Tried, Idle
  <2>6. ASSUME NEW e \in Run PROVE Begun(e)'
    BY <2>2, <2>3 DEF Attempted, Begun, At
  <2>7. ASSUME NEW e \in Run, NEW p \in Endpoint PROVE Tried(e, p)'
    BY <2>2, <2>5 DEF Attempted, Tried
  <2> QED
    BY <2>6, <2>7 DEF Attempted
<1>3. CASE \E d \in Run : \E p \in Endpoint : Deliver(d, p)
  <2>1. PICK d \in Run, p \in Endpoint : Deliver(d, p)
    BY <1>3
  <2>2. UNCHANGED <<version, run>>
    BY <2>1, OneDelivery
  <2>3. \A e \in Run : \A q \in Endpoint : ~(e = d /\ q = p) =>
          del'[e][q] = del[e][q] /\ accepted'[e][q] = accepted[e][q]
    BY <2>1, OneDelivery
  <2>4. Tried(d, p)'
    <3>1. accepted[d][p] \in Nat /\ del[d][p] \in Deliveries
      BY DEF IInv, WebhooksTypeOK, Deliveries
    <3>2. Tried(d, p)
      BY DEF Attempted
    <3>3. /\ del[d][p].pc \in {"post", "log"}
          /\ \/ /\ del[d][p].pc = "post" /\ del'[d][p].pc = "log"
                /\ del'[d][p].attempt = del[d][p].attempt
                /\ accepted'[d][p] \in {accepted[d][p], accepted[d][p] + 1}
             \/ /\ accepted'[d][p] = accepted[d][p]
                /\ \/ del'[d][p].pc = "done"
                      /\ del'[d][p].attempt = del[d][p].attempt
                   \/ del'[d][p].pc = "post"
                      /\ del'[d][p].attempt = del[d][p].attempt + 1
      BY <2>1, OneDelivery
    <3>4. del[d][p].attempt \in Nat
      BY <3>1, WebhooksAssumption DEF Deliveries
    <3> QED
      BY <2>2, <3>1, <3>2, <3>3, <3>4 DEF Tried
  <2>5. ASSUME NEW e \in Run PROVE Begun(e)'
    BY <2>2 DEF Attempted, Begun, At
  <2>6. ASSUME NEW e \in Run, NEW q \in Endpoint PROVE Tried(e, q)'
    BY <2>2, <2>3, <2>4 DEF Attempted, Tried
  <2> QED
    BY <2>5, <2>6 DEF Attempted
<1>4. CASE Crash
  <2>1. ASSUME NEW e \in Run
        PROVE  /\ run'[e].event = run[e].event
               /\ run'[e].payload = run[e].payload
               /\ run'[e] = run[e] \/ run'[e].pc = "ended"
    BY <1>4 DEF Crash, IInv, WebhooksTypeOK
  <2>2. ASSUME NEW e \in Run, NEW p \in Endpoint
        PROVE  /\ del'[e][p].attempt = del[e][p].attempt
               /\ del'[e][p] = del[e][p] \/ del'[e][p].pc = "done"
    <3>1. del'[e][p] = IF del[e][p].pc \in {"post", "log"}
                       THEN [del[e][p] EXCEPT !.pc = "done"] ELSE del[e][p]
      BY <1>4 DEF Crash, IInv, WebhooksTypeOK
    <3>2. del[e][p] \in Deliveries
      BY DEF IInv, WebhooksTypeOK, Deliveries
    <3> QED
      BY <3>1, <3>2 DEF Deliveries
  <2>3. UNCHANGED accepted
    BY <1>4 DEF Crash
  <2>4. ASSUME NEW e \in Run PROVE Begun(e)'
    BY <2>1 DEF Attempted, Begun, At
  <2>5. ASSUME NEW e \in Run, NEW p \in Endpoint PROVE Tried(e, p)'
    BY <2>1, <2>2, <2>3 DEF Attempted, Tried
  <2> QED
    BY <2>4, <2>5 DEF Attempted
<1>5. CASE UNCHANGED <<run, del, accepted>>
  BY <1>5 DEF Attempted, Begun, Tried, At
<1> QED
  BY <1>1, <1>2, <1>3, <1>4, <1>5
  DEF Next, Progress, ChangeSilently, Switch, Delete, vars

(* The two invariants together.                                            *)
LEMMA AttemptedHolds == Spec => [](IInv /\ Attempted)
  BY DeliveryInvariant, InitAttempted, AttemptedStep, PTL DEF Spec
-----------------------------------------------------------------------------
(* The mapping of a state and of its steps.                                *)

Told == [d \in Run |-> run[d].event]
Shown == [d \in Run |-> run[d].payload]

(* Every step is one of the contract's or leaves what it speaks of.        *)
LEMMA StepIsReport ==
  ASSUME IInv, Attempted, [Next]_vars
  PROVE  Reports!Next \/ UNCHANGED Reports!reportVars
<1>1. CASE ChangeSilently
  BY <1>1 DEF ChangeSilently, Reports!Next, Reports!Change
<1>2. CASE \E d \in Run : Change(d) \/ Repeat(d)
  <2>1. PICK d \in Run : Change(d) \/ Repeat(d)
    BY <1>2
  <2>2. /\ run[d] \in Calls /\ UNCHANGED <<accepted, log>>
        /\ \A e \in Run : e # d => run'[e] = run[e]
    BY <2>1, OneCall
  <2>3. /\ version \in Nat /\ version' \in {version, version + 1}
        /\ version' > 0 /\ run[d].pc = "idle"
        /\ run'[d].event = version' /\ run'[d].payload = run[d].payload
    BY <2>1, Begins
  <2>4. Told[d] = 0
    BY <2>3 DEF Attempted, Begun, At, Told
  <2>5. Told' = [Told EXCEPT ![d] = version']
    BY <2>2, <2>3 DEF Told, Calls
  <2>6. Shown' = Shown
    BY <2>2, <2>3 DEF Shown, Calls
  <2>7. Reports!Tell(d)
    BY <2>2, <2>3, <2>4, <2>5, <2>6 DEF Reports!Tell, Told, Shown
  <2> QED
    BY <2>7 DEF Reports!Next
<1>3. CASE \E d \in Run : Read(d)
  <2>1. PICK d \in Run : Read(d)
    BY <1>3
  <2>2. /\ run[d] \in Calls /\ UNCHANGED <<version, accepted, log>>
        /\ \A e \in Run : e # d => run'[e] = run[e]
    BY <2>1, OneCall DEF Read
  <2>3. run'[d] = [run[d] EXCEPT !.pc = "send", !.payload = version]
    BY <2>1 DEF Read, IInv, WebhooksTypeOK
  <2>4. Told[d] \in 1 .. version /\ Shown[d] = 0
    <3>1. /\ run[d].event > 0 /\ run[d].event <= version
          /\ run[d].payload = 0
      BY <2>1 DEF Read, At, Attempted, Begun, IInv, Reported
    <3> QED
      BY <2>2, <3>1 DEF IInv, WebhooksTypeOK, Told, Shown, Calls
  <2>5. Told' = Told
    BY <2>2, <2>3 DEF Told, Calls
  <2>6. Shown' = [Shown EXCEPT ![d] = version]
    BY <2>2, <2>3 DEF Shown, Calls
  <2>7. Reports!Show(d)
    BY <2>2, <2>4, <2>5, <2>6 DEF Reports!Show, Told, Shown
  <2> QED
    BY <2>7 DEF Reports!Next
<1>4. CASE \E d \in Run : Find(d) \/ QueryFails(d)
  <2>1. PICK d \in Run : Find(d) \/ QueryFails(d)
    BY <1>4
  <2>2. /\ run[d] \in Calls /\ UNCHANGED <<version, accepted, log>>
        /\ \A e \in Run : e # d => run'[e] = run[e]
    BY <2>1, OneCall DEF Find, QueryFails
  <2>3. run'[d].event = run[d].event /\ run'[d].payload = run[d].payload
    BY <2>1, <2>2 DEF Find, QueryFails, IInv, WebhooksTypeOK, Calls
  <2> QED
    BY <2>2, <2>3 DEF Reports!reportVars
<1>5. CASE \E d \in Run : \E p \in Endpoint : Deliver(d, p)
  <2>1. PICK d \in Run, p \in Endpoint : Deliver(d, p)
    BY <1>5
  <2>2. UNCHANGED <<version, run>>
    BY <2>1, OneDelivery
  <2>3. /\ del[d][p] \in Deliveries /\ accepted[d][p] \in Nat
        /\ Tried(d, p) /\ Known(d, p)
    BY DEF IInv, WebhooksTypeOK, Deliveries, Attempted, Honest
  <2>4. Shown[d] > 0 /\ "ok" \notin log[d][p]
    <3>1. del[d][p].pc \in {"post", "log"}
      BY <2>1, OneDelivery
    <3> QED
      BY <2>3, <3>1 DEF Tried, Known, Shown
  <2>5. UNCHANGED <<Told, Shown>>
    BY <2>2 DEF Told, Shown
  <2>6. CASE UNCHANGED <<accepted, log>>
    BY <2>2, <2>6 DEF Reports!reportVars
  <2>7. CASE /\ del[d][p].pc = "post" /\ log' = log
             /\ accepted' = [accepted EXCEPT ![d][p] = @ + 1]
    <3>1. accepted[d][p] < MaxAttempts
      BY <2>3, <2>7, WebhooksAssumption DEF Tried, Deliveries
    <3>2. Reports!Take(d, p)
      BY <2>2, <2>4, <2>5, <2>7, <3>1
      DEF Reports!Take, Reports!Open, Told, Shown
    <3> QED
      BY <3>2 DEF Reports!Next
  <2>8. CASE /\ accepted' = accepted
             /\ log' = [log EXCEPT ![d][p] = @ \cup {del[d][p].answer}]
    <3>1. /\ del[d][p].answer \in {"ok", "failed"}
          /\ del[d][p].answer = "ok" => accepted[d][p] > 0
      BY <2>3 DEF Deliveries, Verdicts, Known
    <3>2. Reports!Note(d, p, del[d][p].answer)
      BY <2>2, <2>4, <2>5, <2>8, <3>1
      DEF Reports!Note, Reports!Open, Told, Shown
    <3>3. Reports!Note(d, p, "ok") \/ Reports!Note(d, p, "failed")
      BY <3>1, <3>2
    <3> QED
      BY <3>3 DEF Reports!Next
  <2> QED
    BY <2>1, <2>6, <2>7, <2>8, OneDelivery
<1>6. CASE Crash
  <2>1. \A e \in Run : /\ run'[e].event = run[e].event
                       /\ run'[e].payload = run[e].payload
    BY <1>6 DEF Crash, IInv, WebhooksTypeOK
  <2> QED
    BY <1>6, <2>1 DEF Crash, Reports!reportVars
<1>7. CASE UNCHANGED <<version, run, accepted, log>>
  BY <1>7 DEF Reports!reportVars
<1> QED
  BY <1>1, <1>2, <1>3, <1>4, <1>5, <1>6, <1>7
  DEF Next, Progress, Switch, Delete, vars

(* The deliveries of a seller's events implement the contract of reports:  *)
(* one change, one payload, bounded copies and none after a success        *)
(* (dispatchOrderEvent, deliverToEndpoint).                                *)
THEOREM ReportsAreKept == Spec => ReportsKept
<1>1. Init => Reports!Init
  BY DEF Init, Reports!Init
<1>2. IInv /\ Attempted /\ [Next]_vars => [Reports!Next]_(Reports!reportVars)
  BY StepIsReport
<1> QED
  BY <1>1, <1>2, AttemptedHolds, PTL DEF Spec, ReportsKept, Reports!Spec
=============================================================================
