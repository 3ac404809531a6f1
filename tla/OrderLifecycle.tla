--------------------------- MODULE OrderLifecycle ---------------------------
(***************************************************************************)
(* What happens to an order after the checkout (apps/api/src/storefront,   *)
(* webhooks and orders).  Four parties move it and none waits for another: *)
(*                                                                         *)
(*   - the customer's browser confirms the payment (confirmPayment);       *)
(*   - Stripe and PayPal deliver webhooks at least once and in any order   *)
(*     (WebhookService.confirmOrder and refundOrder);                      *)
(*   - the seller changes the status, one order or many at a time          *)
(*     (updateOrderStatus, bulkUpdateStatus);                              *)
(*   - the fulfilment service reports SHIPPED and DELIVERED.               *)
(*                                                                         *)
(* Each handler reads the order first and acts on what it read in a later  *)
(* transaction, as in the module Checkout, which this one extends.         *)
(***************************************************************************)
EXTENDS Checkout

CONSTANTS
  SellerTargets,    \* statuses a seller asks for (any OrderStatus)
  CarrierReports,   \* fulfilment statuses reported (SHIPPED, DELIVERED)
  DelayedOrders,    \* orders a seller sends a delay notice for
  StockLevels,      \* quantities an admin writes over a variant's stock
  DatabaseErrors,   \* may the database refuse a webhook's transaction?
  MaxRefundMails    \* bound: refund e-mails after which none is started

ASSUME LifecycleAssumption ==
  /\ SellerTargets \subseteq OrderStatuses
  /\ CarrierReports \subseteq {"SHIPPED", "DELIVERED"}
  /\ DelayedOrders \subseteq Order
  /\ StockLevels \subseteq Int
  /\ DatabaseErrors \in BOOLEAN
  /\ MaxRefundMails \in Nat

VARIABLES
  net,         \* provider events not yet answered with a 200
  transactionId, \* the payment Order.transactionId names, or none
  taken,       \* times the stock of an order was taken (paidAt is set with it)
  restored,    \* times the stock of an order was given back
  mailed,      \* order-confirmation e-mails started for an order
  refundMailed \* refund e-mails started for an order

orderVars == <<status, events, stock>>

account == <<transactionId, taken, restored, mailed, refundMailed>>

checkoutOnly == <<paymentId, reduced, uses, usedCount>>

vars == <<checkoutVars, net, account>>

Message == {"paid", "refunded"} \X Order

(* No transition leads to PENDING: only a checkout makes an order so.      *)
Reachable == OrderStatuses \ {"PENDING"}

OrderRequests ==
  CheckoutRequests
    \cup [pc : {"verify", "notify", "hookTx", "hookNotify", "refundTx",
                "refundNotify"}, order : Order]
    \cup [pc : {"confirmTx"}, order : Order, payment : Order]
    \cup [pc : {"sellerWrite"}, order : Order, target : Reachable]
    \cup [pc : {"carrierWrite"}, order : Order, target : CarrierReports]
    \cup [pc : {"bulk"}, todo : SUBSET Order, target : OrderStatuses]
    \cup [pc : {"bulkWrite"}, order : Order, todo : SUBSET Order,
          target : Reachable]

(* The type invariant of the order lifecycle.                              *)
LifecycleTypeOK ==
  /\ CheckoutTypeOK
  /\ req \in [Slot -> OrderRequests]
  /\ net \subseteq Message
  /\ transactionId \in [Order -> SUBSET Order]
  /\ taken \in [Order -> Nat]
  /\ restored \in [Order -> Nat]
  /\ mailed \in [Order -> Nat]
  /\ refundMailed \in [Order -> Nat]

Init ==
  /\ CheckoutInit
  /\ net = {}
  /\ transactionId = [o \in Order |-> {}]
  /\ taken = [o \in Order |-> 0]
  /\ restored = [o \in Order |-> 0]
  /\ mailed = [o \in Order |-> 0]
  /\ refundMailed = [o \in Order |-> 0]

Paid(o) == provider[o] \in {"paid", "refunded"}

(* Mutants: PROCESSING reachable from PENDING; a refund that may follow a  *)
(* refund.                                                                 *)
TransitionsSkipConfirm ==
  [PENDING    |-> {"CONFIRMED", "PROCESSING", "CANCELLED"},
   CONFIRMED  |-> {"PROCESSING", "CANCELLED"},
   PROCESSING |-> {"SHIPPED", "CANCELLED"},
   SHIPPED    |-> {"DELIVERED", "REFUNDED"},
   DELIVERED  |-> {"REFUNDED"},
   CANCELLED  |-> {},
   REFUNDED   |-> {}]

RefundableAgain ==
  {"CONFIRMED", "PROCESSING", "SHIPPED", "DELIVERED", "REFUNDED"}

ORDER_TRANSITIONS ==
  [PENDING    |-> {"CONFIRMED", "CANCELLED"},
   CONFIRMED  |-> {"PROCESSING", "CANCELLED"},
   PROCESSING |-> {"SHIPPED", "CANCELLED"},
   SHIPPED    |-> {"DELIVERED", "REFUNDED"},
   DELIVERED  |-> {"REFUNDED"},
   CANCELLED  |-> {},
   REFUNDED   |-> {}]

canTransition(current, target) == target \in ORDER_TRANSITIONS[current]

Refundable == {"CONFIRMED", "PROCESSING", "SHIPPED", "DELIVERED"}

-----------------------------------------------------------------------------
(* The customer and the payment provider.                                  *)

Send(m) == net' = net \cup {m}

(* The browser pays a Stripe intent with the client secret it was given.   *)
CustomerPays(o) ==
  /\ o \in StripeOrder /\ paymentId[o] /\ provider[o] = "created"
  /\ provider' = [provider EXCEPT ![o] = "paid"]
  /\ Send(<<"paid", o>>)
  /\ UNCHANGED <<database, req, crashes, account>>

(* The customer approves a PayPal order; the capture takes the money.      *)
CustomerApproves(o) ==
  /\ o \notin StripeOrder /\ paymentId[o] /\ provider[o] = "created"
  /\ provider' = [provider EXCEPT ![o] = "approved"]
  /\ UNCHANGED <<database, req, crashes, net, account>>

(* The payment is refunded at the provider, wholly or in part: the code    *)
(* looks at no amount.                                                     *)
ProviderRefunds(o) ==
  /\ provider[o] = "paid"
  /\ provider' = [provider EXCEPT ![o] = "refunded"]
  /\ Send(<<"refunded", o>>)
  /\ UNCHANGED <<database, req, crashes, account>>

(* Delivery is at least once: an answered event may be sent again.         *)
ProviderResends(o) ==
  /\ \E kind \in {"paid", "refunded"} :
       /\ kind = "paid" => Paid(o)
       /\ kind = "refunded" => provider[o] = "refunded"
       /\ <<kind, o>> \notin net
       /\ Send(<<kind, o>>)
  /\ UNCHANGED <<checkoutVars, account>>

-----------------------------------------------------------------------------
(* confirmPayment: the browser's confirmation.                             *)

(* The atomic update both confirmations share: updateMany where the status *)
(* is still PENDING, the CONFIRMED event, the stock of each variant.       *)
StillPendingDropped(o) == status[o] # "NONE"  \* mutant: no status filter

StillPending(o) == status[o] = "PENDING"

MoveStock(o, sign) ==
  stock' = [v \in Variant |-> stock[v] + sign * Cart[o][v]]

Confirm(o, payment) ==
  /\ status' = [status EXCEPT ![o] = "CONFIRMED"]
  /\ transactionId' = [transactionId EXCEPT ![o] = {payment}]
  /\ events' = [events EXCEPT ![o] = @ \cup {"CONFIRMED"}]
  /\ MoveStock(o, -1)
  /\ taken' = [taken EXCEPT ![o] = @ + 1]
  /\ UNCHANGED <<restored, mailed, refundMailed>>

ClientConfirm(s, o) ==
  /\ StillPending(o)
  /\ Enter(s, [pc |-> "verify", order |-> o])
  /\ UNCHANGED <<database, provider, crashes, net, account>>

Confirming(o, payment) ==
  [pc |-> "confirmTx", order |-> o, payment |-> payment]

(* Mutant: a request that names no payment is not refused.                 *)
ClientVerifyMissing(s) ==
  LET o == req[s].order
  IN /\ req[s].pc = "verify" /\ o \in StripeOrder
     /\ \E p \in StripeOrder \cup {NoDiscount} :
          /\ p # NoDiscount => Paid(p)
          /\ req' = [req EXCEPT ![s] = Confirming(o, p)]
     /\ UNCHANGED <<database, provider, crashes, net, account>>

(* retrievePaymentIntent must say "succeeded", which a refund leaves so.   *)
(* The payment is the one the browser names, or else the order's own:      *)
(* whose order it was made for is not compared.                            *)
ClientVerifyStripe(s) ==
  LET o == req[s].order
  IN /\ req[s].pc = "verify" /\ o \in StripeOrder
     /\ \E p \in StripeOrder :
          /\ Paid(p)
          /\ req' = [req EXCEPT ![s] = Confirming(o, p)]
     /\ UNCHANGED <<database, provider, crashes, net, account>>

(* Mutants: the status of the capture is not looked at; a payment captured *)
(* before is taken for a new one.                                          *)
ClientCaptureUnchecked(s) ==
  LET o == req[s].order
  IN /\ req[s].pc = "verify" /\ o \notin StripeOrder
     /\ \E p \in Order \ StripeOrder :
          /\ req' = [req EXCEPT ![s] = Confirming(o, p)]
          /\ \/ /\ provider[p] = "approved"
                /\ provider' = [provider EXCEPT ![p] = "paid"]
                /\ Send(<<"paid", p>>)
             \/ provider[p] = "created" /\ UNCHANGED <<provider, net>>
     /\ UNCHANGED <<database, crashes, account>>

ClientCaptureAgain(s) ==
  LET o == req[s].order
  IN /\ req[s].pc = "verify" /\ o \notin StripeOrder
     /\ \E p \in Order \ StripeOrder :
          /\ provider[p] \in {"approved", "paid"}
          /\ provider' = [provider EXCEPT ![p] = "paid"]
          /\ Send(<<"paid", p>>)
          /\ req' = [req EXCEPT ![s] = Confirming(o, p)]
     /\ UNCHANGED <<database, crashes, account>>

(* captureOrder takes the money of the payment named, which PayPal does    *)
(* once.  Its answer may be lost after it did.                             *)
ClientCapture(s) ==
  LET o == req[s].order
  IN /\ req[s].pc = "verify" /\ o \notin StripeOrder
     /\ \E p \in Order \ StripeOrder :
          /\ provider[p] = "approved"
          /\ provider' = [provider EXCEPT ![p] = "paid"]
          /\ Send(<<"paid", p>>)
          /\ \E answer \in {Confirming(o, p), Idle} :
               req' = [req EXCEPT ![s] = answer]
     /\ UNCHANGED <<database, crashes, account>>

(* The call to the gateway throws, the payment is not completed, or the    *)
(* transaction is refused and rolled back: an error, and no change.        *)
ClientFails(s) ==
  /\ req[s].pc \in {"verify", "confirmTx"}
  /\ req' = [req EXCEPT ![s] = Idle]
  /\ UNCHANGED <<database, provider, crashes, net, account>>

(* Mutant: the notices are sent whatever the transaction did.              *)
ClientConfirmTxNotifies(s) ==
  LET o == req[s].order
  IN /\ Continue(s, "confirmTx", [pc |-> "notify", order |-> o])
     /\ \/ StillPending(o) /\ Confirm(o, req[s].payment)
        \/ ~StillPending(o) /\ UNCHANGED <<orderVars, account>>
     /\ UNCHANGED <<checkoutOnly, provider, crashes, net>>

ClientConfirmTx(s) ==
  LET o == req[s].order
  IN /\ req[s].pc = "confirmTx"
     /\ \/ /\ StillPending(o) /\ Confirm(o, req[s].payment)
           /\ req' = [req EXCEPT ![s] = [pc |-> "notify", order |-> o]]
        \/ /\ ~StillPending(o)
           /\ req' = [req EXCEPT ![s] = Idle]
           /\ UNCHANGED <<orderVars, account>>
     /\ UNCHANGED <<checkoutOnly, provider, crashes, net>>

(* sendOrderConfirmationEmail, fire and forget.                            *)
ClientNotify(s) ==
  LET o == req[s].order
  IN /\ Continue(s, "notify", Idle)
     /\ mailed' = [mailed EXCEPT ![o] = @ + 1]
     /\ UNCHANGED <<database, provider, crashes, net, transactionId, taken,
                    restored, refundMailed>>

-----------------------------------------------------------------------------
(* The webhook controllers answer 200 when the handler ends, however it    *)
(* ends; an event is delivered again only if a crash left no answer.       *)

Answer(m) == net' = net \ {m}

(* Mutant: the event is answered before it is handled.                     *)
HookConfirmAnswersFirst(s, o) ==
  /\ <<"paid", o>> \in net
  /\ req[s] = Idle
  /\ req' = IF StillPending(o)
            THEN [req EXCEPT ![s] = [pc |-> "hookTx", order |-> o]] ELSE req
  /\ Answer(<<"paid", o>>)
  /\ UNCHANGED <<database, provider, crashes, account>>

HookConfirm(s, o) ==
  /\ <<"paid", o>> \in net
  /\ req[s] = Idle
  /\ \/ /\ StillPending(o)
        /\ req' = [req EXCEPT ![s] = [pc |-> "hookTx", order |-> o]]
        /\ UNCHANGED net
     \/ /\ ~StillPending(o)
        /\ UNCHANGED req
        /\ Answer(<<"paid", o>>)
  /\ UNCHANGED <<database, provider, crashes, account>>

HookConfirmTx(s) ==
  LET o == req[s].order
  IN /\ req[s].pc = "hookTx"
     /\ \/ /\ StillPending(o) /\ Confirm(o, o)
           /\ req' = [req EXCEPT ![s] = [pc |-> "hookNotify", order |-> o]]
           /\ UNCHANGED net
        \/ /\ ~StillPending(o)
           /\ req' = [req EXCEPT ![s] = Idle]
           /\ Answer(<<"paid", o>>)
           /\ UNCHANGED <<orderVars, account>>
     /\ UNCHANGED <<checkoutOnly, provider, crashes>>

HookConfirmNotify(s) ==
  LET o == req[s].order
  IN /\ Continue(s, "hookNotify", Idle)
     /\ Answer(<<"paid", o>>)
     /\ mailed' = [mailed EXCEPT ![o] = @ + 1]
     /\ UNCHANGED <<database, provider, crashes, transactionId, taken,
                    restored, refundMailed>>

(* Mutant: the status of the order is looked at in the transaction only.   *)
HookRefundUnchecked(s, o) ==
  /\ <<"refunded", o>> \in net
  /\ refundMailed[o] < MaxRefundMails
  /\ status[o] # "PENDING"
  /\ Enter(s, [pc |-> "refundTx", order |-> o])
  /\ UNCHANGED <<database, provider, crashes, net, account>>

(* Stripe's refund is matched by paymentId, PayPal's by the order id.      *)
HookRefund(s, o) ==
  /\ <<"refunded", o>> \in net
  /\ req[s] = Idle
  /\ refundMailed[o] < MaxRefundMails
  /\ LET found == o \in StripeOrder => paymentId[o]
     IN \/ /\ found /\ status[o] \in Refundable
           /\ req' = [req EXCEPT ![s] = [pc |-> "refundTx", order |-> o]]
           /\ UNCHANGED net
        \/ /\ ~(found /\ status[o] \in Refundable)
           /\ UNCHANGED req
           /\ Answer(<<"refunded", o>>)
  /\ UNCHANGED <<database, provider, crashes, account>>

(* Mutants: the stock restored whatever the status; never restored.        *)
HookRefundTxAlwaysRestores(s) ==
  LET o == req[s].order
  IN /\ Continue(s, "refundTx", [pc |-> "refundNotify", order |-> o])
     /\ status' = IF status[o] \in Refundable
                  THEN [status EXCEPT ![o] = "REFUNDED"] ELSE status
     /\ MoveStock(o, 1)
     /\ restored' = [restored EXCEPT ![o] = @ + 1]
     /\ UNCHANGED <<events, transactionId, taken, mailed, refundMailed,
                    checkoutOnly, provider, crashes, net>>

HookRefundTxKeepsStock(s) ==
  LET o == req[s].order
  IN /\ Continue(s, "refundTx", [pc |-> "refundNotify", order |-> o])
     /\ status' = IF status[o] \in Refundable
                  THEN [status EXCEPT ![o] = "REFUNDED"] ELSE status
     /\ UNCHANGED <<events, stock, account, checkoutOnly, provider, crashes,
                    net>>

(* Whatever the transaction did, the handler goes on to the notices.       *)
HookRefundTx(s) ==
  LET o == req[s].order
  IN /\ Continue(s, "refundTx", [pc |-> "refundNotify", order |-> o])
     /\ \/ /\ status[o] \in Refundable
           /\ status' = [status EXCEPT ![o] = "REFUNDED"]
           /\ events' = [events EXCEPT ![o] = @ \cup {"REFUNDED"}]
           /\ MoveStock(o, 1)
           /\ restored' = [restored EXCEPT ![o] = @ + 1]
           /\ UNCHANGED <<transactionId, taken, mailed, refundMailed>>
        \/ /\ status[o] \notin Refundable
           /\ UNCHANGED <<orderVars, account>>
     /\ UNCHANGED <<checkoutOnly, provider, crashes, net>>

HookRefundNotify(s) ==
  LET o == req[s].order
  IN /\ Continue(s, "refundNotify", Idle)
     /\ Answer(<<"refunded", o>>)
     /\ refundMailed' = [refundMailed EXCEPT ![o] = @ + 1]
     /\ UNCHANGED <<database, provider, crashes, transactionId, taken,
                    restored, mailed>>

(* The transaction throws: logged, rolled back, and answered with 200.     *)
HookError(s) ==
  LET kind == IF req[s].pc = "hookTx" THEN "paid" ELSE "refunded"
  IN /\ DatabaseErrors
     /\ req[s].pc \in {"hookTx", "refundTx"}
     /\ req' = [req EXCEPT ![s] = Idle]
     /\ Answer(<<kind, req[s].order>>)
     /\ UNCHANGED <<database, provider, crashes, account>>

-----------------------------------------------------------------------------
(* The seller and the fulfilment service.                                  *)

SetStatus(o, target) ==
  /\ status' = [status EXCEPT ![o] = target]
  /\ events' = [events EXCEPT ![o] = @ \cup {target}]
  /\ UNCHANGED <<checkoutOnly, stock, provider, crashes, net, account>>

(* updateOrderStatus: the transition is checked on the status read here... *)
SellerUpdate(s, o, target) ==
  /\ status[o] # "NONE" /\ canTransition(status[o], target)
  /\ Enter(s, [pc |-> "sellerWrite", order |-> o, target |-> target])
  /\ UNCHANGED <<database, provider, crashes, net, account>>

(* ... and written over whatever the status is by now.                     *)
SellerWrite(s) ==
  /\ Continue(s, "sellerWrite", Idle)
  /\ SetStatus(req[s].order, req[s].target)

(* bulkUpdateStatus: the same, order after order, failures (an order that  *)
(* does not exist among them) skipped.                                     *)
BulkUpdate(s, os, target) ==
  /\ os # {}
  /\ Enter(s, [pc |-> "bulk", todo |-> os, target |-> target])
  /\ UNCHANGED <<database, provider, crashes, net, account>>

BulkRead(s) ==
  /\ req[s].pc = "bulk"
  /\ \E o \in req[s].todo :
       LET t == req[s].target
           rest == req[s].todo \ {o}
           allowed == /\ status[o] \notin {"NONE", t}
                      /\ canTransition(status[o], t)
       IN req' = [req EXCEPT ![s] =
                    IF allowed
                    THEN [pc |-> "bulkWrite", order |-> o, todo |-> rest,
                          target |-> t]
                    ELSE [pc |-> "bulk", todo |-> rest, target |-> t]]
  /\ UNCHANGED <<database, provider, crashes, net, account>>

BulkWrite(s) ==
  /\ Continue(s, "bulkWrite",
              [pc |-> "bulk", todo |-> req[s].todo, target |-> req[s].target])
  /\ SetStatus(req[s].order, req[s].target)

BulkDone(s) ==
  /\ req[s].pc = "bulk" /\ req[s].todo = {}
  /\ req' = [req EXCEPT ![s] = Idle]
  /\ UNCHANGED <<database, provider, crashes, net, account>>

(* handleStatusUpdate: any order, whatever its status, unless it is there. *)
CarrierReport(s, o, report) ==
  /\ status[o] # "NONE" /\ status[o] # report
  /\ Enter(s, [pc |-> "carrierWrite", order |-> o, target |-> report])
  /\ UNCHANGED <<database, provider, crashes, net, account>>

CarrierWrite(s) ==
  /\ Continue(s, "carrierWrite", Idle)
  /\ SetStatus(req[s].order, req[s].target)

(* The transaction of any of them throws: a bulk update goes on to the     *)
(* next order, the others end with an error.                               *)
WriteFails(s) ==
  /\ \/ Continue(s, "sellerWrite", Idle)
     \/ Continue(s, "carrierWrite", Idle)
     \/ Continue(s, "bulkWrite", [pc |-> "bulk", todo |-> req[s].todo,
                                  target |-> req[s].target])
  /\ UNCHANGED <<database, provider, crashes, net, account>>

(* sendOrderDelayNotification: an e-mail, and a PROCESSING event that says *)
(* so, for an order in any status.                                         *)
DelayNotice(o) ==
  /\ status[o] # "NONE"
  /\ events' = [events EXCEPT ![o] = @ \cup {"PROCESSING"}]
  /\ UNCHANGED <<status, stock, checkoutOnly, provider, req, crashes, net,
                 account>>

(* updateVariant and bulkUpdateVariants write the number the admin typed   *)
(* over whatever the stock is by now.                                      *)
AdminSetsStock(v) ==
  /\ \E quantity \in StockLevels :
       stock' = [stock EXCEPT ![v] = quantity]
  /\ UNCHANGED <<status, events, checkoutOnly, provider, req, crashes, net,
                 account>>

-----------------------------------------------------------------------------
(* Every checkout action leaves the lifecycle's own variables alone.       *)
Checkouts(s) == CheckoutRequest(s) /\ UNCHANGED <<net, account>>

Crash == CheckoutCrash /\ UNCHANGED <<net, account>>

Environment(o) ==
  \/ CustomerPays(o)
  \/ CustomerApproves(o)
  \/ ProviderRefunds(o)
  \/ ProviderResends(o)

Start(s) ==
  \/ \E o \in Order : ClientConfirm(s, o)
  \/ \E o \in Order, t \in SellerTargets : SellerUpdate(s, o, t)
  \/ \E os \in SUBSET Order, t \in SellerTargets : BulkUpdate(s, os, t)
  \/ \E o \in Order, r \in CarrierReports : CarrierReport(s, o, r)

Deliver(s) == \E o \in Order : HookConfirm(s, o) \/ HookRefund(s, o)

Payment(s) ==
  \/ ClientVerifyStripe(s)
  \/ ClientCapture(s)
  \/ ClientFails(s)
  \/ ClientConfirmTx(s)
  \/ ClientNotify(s)
  \/ HookConfirmTx(s)
  \/ HookConfirmNotify(s)
  \/ HookRefundTx(s)
  \/ HookRefundNotify(s)
  \/ HookError(s)

Update(s) ==
  \/ SellerWrite(s)
  \/ BulkRead(s)
  \/ BulkWrite(s)
  \/ BulkDone(s)
  \/ CarrierWrite(s)
  \/ WriteFails(s)

Next ==
  \/ Crash
  \/ \E o \in Order : Environment(o)
  \/ \E o \in DelayedOrders : DelayNotice(o)
  \/ \E v \in Variant : AdminSetsStock(v)
  \/ \E s \in Slot :
       Checkouts(s) \/ Start(s) \/ Deliver(s) \/ Payment(s) \/ Update(s)

Spec == Init /\ [][Next]_vars

(* Handlers run to their end unless the process crashes (bounded), and the *)
(* provider delivers an unanswered event until it is answered.  Delivery   *)
(* is strongly fair because Node accepts any number of requests: that the  *)
(* slots are all taken is a bound of the model.  Customers, sellers,       *)
(* carriers, refunds and repeated deliveries are not fair.                 *)
Progress(s) ==
  \/ CheckoutStep(s) /\ UNCHANGED <<net, account>>
  \/ Payment(s)
  \/ Update(s)

Fairness ==
  /\ \A s \in Slot : WF_vars(Progress(s))
  /\ \A o \in Order : SF_vars(\E s \in Slot : HookConfirm(s, o))
  /\ \A o \in Order : SF_vars(\E s \in Slot : HookRefund(s, o))

FairSpec == Spec /\ Fairness

-----------------------------------------------------------------------------
(* Safety.                                                                 *)

(* "Atomic updateMany WHERE status = 'PENDING' prevents double-confirm":   *)
(* however the browser's confirmation, repeated webhooks, sellers, carriers*)
(* and crashes interleave, the stock of an order is taken at most once.    *)
StockTakenOnce == \A o \in Order : taken[o] <= 1

(* Stock is taken only against money: whoever confirmed an order, and      *)
(* whichever payment it was shown, that payment, which the order's         *)
(* transactionId names, is of the order's method and was collected by the  *)
(* provider.  (That it was made for this order is not promised.)           *)
SameMethod(o, p) == o \in StripeOrder <=> p \in StripeOrder

StockTakenOnlyIfCollected ==
  \A o \in Order :
    taken[o] > 0 => \E p \in transactionId[o] : Paid(p) /\ SameMethod(o, p)

(* PayPal captures a payment once: besides the order it was made for,      *)
(* which the webhook may still confirm, it confirms at most one other,     *)
(* whatever the browsers name, repeat and race for.                        *)
CaptureConfirmsOnce ==
  \A p \in Order \ StripeOrder :
    \A o, q \in Order \ {p} :
      p \in transactionId[o] /\ p \in transactionId[q] => o = q

(* The confirmation e-mail is started only by the request that confirmed   *)
(* the order, so at most once, though two requests race for it.            *)
MailedOnlyIfConfirmed == \A o \in Order : mailed[o] <= taken[o]

(* An order is PROCESSING only if it was CONFIRMED once: updates written   *)
(* over a status that has moved on never take an order past that stage.    *)
(* (A PROCESSING event shows nothing: a delay notice writes one too.)      *)
ProcessedWasConfirmed ==
  \A o \in Order : status[o] = "PROCESSING" => "CONFIRMED" \in events[o]

(* With the payment parties alone, a refund gives back only stock that was *)
(* taken, once, however its deliveries repeat and race.                    *)
RestoredOnlyIfTaken == \A o \in Order : restored[o] <= taken[o]

(* Two deliveries that race for one refund may both send the e-mail, for   *)
(* only the transaction is skipped, but never more than ran at once.       *)
RefundMailsBounded ==
  \A o \in Order : refundMailed[o] <= restored[o] * Cardinality(Slot)

(* The units of a variant in the carts of the orders, those of an order as *)
(* often as count says.                                                    *)
Units(count, v) ==
  UNION {({o} \X (1 .. count[o])) \X (1 .. Cart[o][v]) : o \in Order}

(* With the payment parties alone, the stock is what the orders' statuses  *)
(* say: every CONFIRMED order holds its stock, no other does.              *)
Holding == [o \in Order |-> IF status[o] = "CONFIRMED" THEN 1 ELSE 0]

StockMatchesStatus ==
  \A v \in Variant :
    stock[v] = InitStock[v] - Cardinality(Units(Holding, v))

(* The lifecycle implements OrderContract: through every interleaving,     *)
(* repetition, refusal and crash, stock, money and status change only as   *)
(* if each operation were atomic.                                          *)
Contract == INSTANCE OrderContract
  WITH paid <- {o \in Order : Paid(o)}, transaction <- transactionId

ContractKept == Contract!Spec

-----------------------------------------------------------------------------
(* Liveness.                                                               *)

(* "WEBHOOK (redundant safety net)": an order whose money was collected    *)
(* does not stay PENDING, though the browser never comes back, and the     *)
(* process crashes (pixecom-instruction.md:208).                           *)
PaidIsProcessed ==
  \A o \in Order : Paid(o) ~> status[o] # "PENDING"

(* "charge.refunded -> refund order + restore stock"                       *)
(* (stripe-webhook.controller.ts:20): an order refunded at the provider    *)
(* ends REFUNDED, unless it was cancelled.                                 *)
RefundIsApplied ==
  \A o \in Order :
    provider[o] = "refunded" ~> status[o] \in {"REFUNDED", "CANCELLED"}

=============================================================================
