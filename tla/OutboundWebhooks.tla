--------------------------- MODULE OutboundWebhooks ---------------------------
(***************************************************************************)
(* The events a seller's endpoints are told of an order                    *)
(* (apps/api/src/webhook-outbound): whoever changes the order calls        *)
(* dispatchOrderEvent and does not wait for it.  Each call looks up the    *)
(* endpoints, reads the order as it is by then, and makes up to three      *)
(* attempts at every endpoint side by side, in the memory of the API.      *)
(*                                                                         *)
(* The order is the number of changes it has seen.                         *)
(***************************************************************************)
EXTENDS Integers

CONSTANTS
  MaxCalls,    \* bound: calls of dispatchOrderEvent
  Endpoint,    \* the seller's endpoints that subscribe to the order's events
  MaxAttempts, \* attempts at one endpoint: 3
  MaxChanges,  \* bound: changes of the order
  MaxEdits,    \* bound: edits of endpoints
  MaxFaults    \* bound: failed attempts and queries, restarts

ASSUME WebhooksAssumption ==
  MaxCalls \in Nat /\ MaxAttempts \in Nat \ {0} /\ MaxChanges \in Nat
    /\ MaxEdits \in Nat /\ MaxFaults \in Nat

Run == 1 .. MaxCalls

VARIABLES
  version,  \* the changes of the order so far
  endpoint, \* endpoint[p]: active, inactive or deleted
  run,      \* run[d]: where call d is, the change it reports, its payload
  del,      \* del[d][p]: where the delivery of call d to endpoint p is
  accepted, \* accepted[d][p]: how often p took the delivery
  log,      \* log[d][p]: what the WebhookDelivery rows say
  edits, faults

vars == <<version, endpoint, run, del, accepted, log, edits, faults>>

Verdicts == {"ok", "failed"}

Idle == [pc |-> "idle", attempt |-> 0, answer |-> "failed"]

(* The type invariant of the outbound webhooks.                            *)
WebhooksTypeOK ==
  /\ version \in Nat
  /\ endpoint \in [Endpoint -> {"active", "inactive", "deleted"}]
  /\ run \in [Run -> [pc : {"idle", "find", "read", "send", "ended"},
                      event : Nat, payload : Nat, to : SUBSET Endpoint]]
  /\ del \in [Run -> [Endpoint ->
               [pc : {"idle", "post", "log", "done"},
                attempt : 0 .. MaxAttempts, answer : Verdicts]]]
  /\ accepted \in [Run -> [Endpoint -> Nat]]
  /\ log \in [Run -> [Endpoint -> SUBSET Verdicts]]
  /\ edits \in Nat /\ faults \in Nat

Init ==
  /\ version = 0
  /\ endpoint = [p \in Endpoint |-> "active"]
  /\ run = [d \in Run |-> [pc |-> "idle", event |-> 0, payload |-> 0,
                           to |-> {}]]
  /\ del = [d \in Run |-> [p \in Endpoint |-> Idle]]
  /\ accepted = [d \in Run |-> [p \in Endpoint |-> 0]]
  /\ log = [d \in Run |-> [p \in Endpoint |-> {}]]
  /\ edits = 0
  /\ faults = 0

At(d, pc) == run[d].pc = pc
Free(d) == At(d, "idle") /\ \A e \in 1 .. d - 1 : ~At(e, "idle")
Fault == faults < MaxFaults /\ faults' = faults + 1
-----------------------------------------------------------------------------
(* The callers.                                                            *)

(* dispatchOrderEvent is called after the change is committed: by the      *)
(* payment webhooks, confirmPayment, checkout and the sellers' updates.    *)
Change(d) ==
  /\ Free(d)
  /\ version < MaxChanges /\ version' = version + 1
  /\ run' = [run EXCEPT ![d].pc = "find", ![d].event = version + 1]
  /\ UNCHANGED <<endpoint, del, accepted, log, edits, faults>>

(* The fulfilment webhook changes the order and tells nobody; so does a    *)
(* caller that dies after its transaction.                                 *)
ChangeSilently ==
  /\ version < MaxChanges /\ version' = version + 1
  /\ UNCHANGED <<endpoint, run, del, accepted, log, edits, faults>>

(* A refund that found nothing to change reports it all the same.          *)
Repeat(d) ==
  /\ Free(d) /\ version > 0
  /\ run' = [run EXCEPT ![d].pc = "find", ![d].event = version]
  /\ UNCHANGED <<version, endpoint, del, accepted, log, edits, faults>>
-----------------------------------------------------------------------------
(* dispatchOrderEvent.                                                     *)

(* Mutant: one endpoint of the seller is found, not all of them.           *)
FindFirst(d) ==
  LET found == {p \in Endpoint : endpoint[p] = "active"} IN
  /\ At(d, "find")
  /\ run' = [run EXCEPT
       ![d].pc = IF found = {} THEN "ended" ELSE "read",
       ![d].to = IF found = {} THEN {} ELSE {CHOOSE p \in found : TRUE}]
  /\ UNCHANGED <<version, endpoint, del, accepted, log, edits, faults>>

(* The active endpoints are found.                                         *)
Find(d) ==
  LET found == {p \in Endpoint : endpoint[p] = "active"} IN
  /\ At(d, "find")
  /\ run' = [run EXCEPT ![d].pc = IF found = {} THEN "ended" ELSE "read",
                        ![d].to = found]
  /\ UNCHANGED <<version, endpoint, del, accepted, log, edits, faults>>

(* Mutant: the payload is the order its caller had read before it changed  *)
(* it.                                                                     *)
ReadBefore(d) ==
  /\ At(d, "read")
  /\ run' = [run EXCEPT ![d].pc = "send",
                        ![d].payload = run[d].event - 1]
  /\ del' = [del EXCEPT ![d] = [p \in Endpoint |->
              IF p \in run[d].to
              THEN [pc |-> "post", attempt |-> 1, answer |-> "failed"]
              ELSE del[d][p]]]
  /\ UNCHANGED <<version, endpoint, accepted, log, edits, faults>>

(* The order is read, and every delivery begins.                           *)
Read(d) ==
  /\ At(d, "read")
  /\ run' = [run EXCEPT ![d].pc = "send", ![d].payload = version]
  /\ del' = [del EXCEPT ![d] = [p \in Endpoint |->
              IF p \in run[d].to
              THEN [pc |-> "post", attempt |-> 1, answer |-> "failed"]
              ELSE del[d][p]]]
  /\ UNCHANGED <<version, endpoint, accepted, log, edits, faults>>

(* A query of dispatchOrderEvent fails: the event is given up.             *)
QueryFails(d) ==
  /\ run[d].pc \in {"find", "read"} /\ Fault
  /\ run' = [run EXCEPT ![d].pc = "ended"]
  /\ UNCHANGED <<version, endpoint, del, accepted, log, edits>>
-----------------------------------------------------------------------------
(* deliverToEndpoint: attempts at the address found, whatever has become   *)
(* of the endpoint.                                                        *)

Posted(d, p, answer) ==
  del' = [del EXCEPT ![d][p].pc = "log", ![d][p].answer = answer]

Accept(d, p) == accepted' = [accepted EXCEPT ![d][p] = @ + 1]

Post(d, p) ==
  /\ del[d][p].pc = "post"
  /\ Accept(d, p) /\ Posted(d, p, "ok")
  /\ UNCHANGED <<version, endpoint, run, log, edits, faults>>

(* Mutant: any answer is taken for a success.                              *)
PostFailsUnseen(d, p) ==
  /\ del[d][p].pc = "post" /\ Fault
  /\ UNCHANGED accepted \/ Accept(d, p)
  /\ Posted(d, p, "ok")
  /\ UNCHANGED <<version, endpoint, run, log, edits>>

(* Refused, unreachable, or aborted after ten seconds, when the endpoint   *)
(* may have taken it.                                                      *)
PostFails(d, p) ==
  /\ del[d][p].pc = "post" /\ Fault
  /\ UNCHANGED accepted \/ Accept(d, p)
  /\ Posted(d, p, "failed")
  /\ UNCHANGED <<version, endpoint, run, log, edits>>

(* Mutant: a success does not end the loop.                                *)
AfterGoesOn(x) ==
  IF x.attempt = MaxAttempts THEN [x EXCEPT !.pc = "done"]
  ELSE [x EXCEPT !.pc = "post", !.attempt = @ + 1]

(* Mutant: an attempt too many.                                            *)
AfterOneMore(x) ==
  IF x.answer = "ok" \/ x.attempt > MaxAttempts THEN [x EXCEPT !.pc = "done"]
  ELSE [x EXCEPT !.pc = "post", !.attempt = @ + 1]

(* Mutant: the last attempt is not made.                                   *)
AfterTooFew(x) ==
  IF x.answer = "ok" \/ x.attempt + 1 >= MaxAttempts
  THEN [x EXCEPT !.pc = "done"]
  ELSE [x EXCEPT !.pc = "post", !.attempt = @ + 1]

(* The loop ends with a success or with the last attempt.                  *)
After(x) ==
  IF x.answer = "ok" \/ x.attempt = MaxAttempts THEN [x EXCEPT !.pc = "done"]
  ELSE [x EXCEPT !.pc = "post", !.attempt = @ + 1]

(* Each attempt leaves a row.                                              *)
Log(d, p) ==
  LET x == del[d][p] IN
  /\ x.pc = "log" /\ endpoint[p] # "deleted"
  /\ log' = [log EXCEPT ![d][p] = @ \cup {x.answer}]
  /\ del' = [del EXCEPT ![d][p] = After(x)]
  /\ UNCHANGED <<version, endpoint, run, accepted, edits, faults>>

(* The row of a deleted endpoint is refused, and the loop goes on.         *)
LogFails(d, p) ==
  LET x == del[d][p] IN
  /\ x.pc = "log" /\ endpoint[p] = "deleted"
  /\ del' = [del EXCEPT ![d][p] = After(x)]
  /\ UNCHANGED <<version, endpoint, run, accepted, log, edits, faults>>
-----------------------------------------------------------------------------
(* The seller: WebhookOutboundController.                                  *)

Edit == edits < MaxEdits /\ edits' = edits + 1

Switch(p) ==
  /\ Edit /\ endpoint[p] # "deleted"
  /\ endpoint' = [endpoint EXCEPT ![p] =
                    IF @ = "active" THEN "inactive" ELSE "active"]
  /\ UNCHANGED <<version, run, del, accepted, log, faults>>

(* The rows refer to the endpoint: one with rows cannot be deleted.        *)
Delete(p) ==
  /\ Edit /\ \A d \in Run : log[d][p] = {}
  /\ endpoint' = [endpoint EXCEPT ![p] = "deleted"]
  /\ UNCHANGED <<version, run, del, accepted, log, faults>>

(* The API restarts: nothing of a call is kept.                            *)
Crash ==
  /\ Fault
  /\ run' = [d \in Run |-> IF run[d].pc \in {"find", "read", "send"}
                           THEN [run[d] EXCEPT !.pc = "ended"] ELSE run[d]]
  /\ del' = [d \in Run |-> [p \in Endpoint |->
              IF del[d][p].pc \in {"post", "log"}
              THEN [del[d][p] EXCEPT !.pc = "done"] ELSE del[d][p]]]
  /\ UNCHANGED <<version, endpoint, accepted, log, edits>>

Deliver(d, p) == Post(d, p) \/ PostFails(d, p) \/ Log(d, p) \/ LogFails(d, p)

Progress(d) == Find(d) \/ Read(d) \/ \E p \in Endpoint : Deliver(d, p)

Next ==
  \/ \E d \in Run :
       \/ Change(d) \/ Repeat(d)
       \/ Progress(d) \/ QueryFails(d)
  \/ \E p \in Endpoint : Switch(p) \/ Delete(p)
  \/ ChangeSilently
  \/ Crash

Spec == Init /\ [][Next]_vars

(* Node goes on with every call.                                           *)
Fairness == \A d \in Run : WF_vars(Progress(d))

FairSpec == Spec /\ Fairness
-----------------------------------------------------------------------------
(* Whatever happens between a change and its report, the payload shows the *)
(* order as that change left it or later (dispatchOrderEvent reads it      *)
(* after its caller's transaction).                                        *)
PayloadNotOlder ==
  \A d \in Run : At(d, "send") => run[d].payload \in run[d].event .. version

(* A row that says success is of an attempt the endpoint took, also when   *)
(* answers were lost before (deliverToEndpoint, logDelivery).              *)
LogIsTrue ==
  \A d \in Run : \A p \in Endpoint :
    "ok" \in log[d][p] => accepted[d][p] > 0

(* An endpoint takes one report twice only when an answer was lost: a      *)
(* success is never followed by another attempt.                           *)
CopiesBounded ==
  \A d \in Run : \A p \in Endpoint : accepted[d][p] <= faults + 1

(* Once a row says that an endpoint took a report, the report is not sent  *)
(* there again, whatever becomes of the endpoint or of other deliveries    *)
(* (deliverToEndpoint ends its loop with the first success).               *)
SuccessIsFinal ==
  [][\A d \in Run : \A p \in Endpoint :
       "ok" \in log[d][p] => accepted'[d][p] = accepted[d][p]]_vars

(* Whatever is refused, lost, edited or restarted, an endpoint sees of a   *)
(* report what ReportContract says: one change, one payload, no more       *)
(* copies than attempts, and none after a success (dispatchOrderEvent,     *)
(* deliverToEndpoint).                                                     *)
Reports == INSTANCE ReportContract
  WITH told <- [d \in Run |-> run[d].event],
       shown <- [d \in Run |-> run[d].payload],
       taken <- accepted, noted <- log

ReportsKept == Reports!Spec

(* A report that reached its deliveries is taken by every endpoint it was  *)
(* for, unless all attempts at it failed or the API restarted.             *)
ReportIsTaken ==
  \A d \in Run :
    At(d, "send") ~> \/ \A p \in run[d].to : accepted[d][p] > 0
                     \/ At(d, "ended") \/ faults >= MaxAttempts

(* An endpoint that stays active learns of the order's last reported       *)
(* change, whatever order the reports arrive in, unless something failed.  *)
LatestIsKnown ==
  \A d \in Run :
    At(d, "find") ~>
      \/ \A p \in Endpoint : \E e \in Run :
           accepted[e][p] > 0 /\ run[e].payload >= run[d].event
      \/ edits > 0 \/ faults > 0
=============================================================================
