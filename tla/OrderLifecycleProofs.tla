------------------------ MODULE OrderLifecycleProofs ------------------------
(***************************************************************************)
(* Proofs about OrderLifecycle, for any orders, variants, slots and        *)
(* crashes: the types of its state, and the ledger that makes the stock of *)
(* an order leave once.  Where no admin overwrites it, the stock is what   *)
(* the orders took and gave back: a lemma for StockMatchesStatus.          *)
(***************************************************************************)
EXTENDS OrderLifecycle, FiniteSetTheorems, TLAPS

(* The requests that work on one order.                                    *)
HasOrder ==
  {"items", "useCode", "pay", "store", "create", "verify", "confirmTx",
   "notify", "hookTx", "hookNotify", "refundTx", "refundNotify",
   "sellerWrite", "carrierWrite", "bulkWrite"}

(* A request that has an order has one of the system's.                    *)
LEMMA RequestOrder ==
  ASSUME NEW r \in OrderRequests, r.pc \in HasOrder PROVE r.order \in Order
  BY DEF OrderRequests, CheckoutRequests, Idle, HasOrder

(* The payment a confirmation rests on is one of the system's.             *)
LEMMA RequestPayment ==
  ASSUME NEW r \in OrderRequests, r.pc = "confirmTx"
  PROVE  r.payment \in Order
  BY DEF OrderRequests, CheckoutRequests, Idle

(* The status a request is about to write is one a transition leads to.    *)
LEMMA RequestTarget ==
  ASSUME NEW r \in OrderRequests,
         r.pc \in {"sellerWrite", "carrierWrite", "bulkWrite"}
  PROVE  r.target \in Reachable
<1>1. CarrierReports \subseteq Reachable
  BY LifecycleAssumption DEF Reachable, OrderStatuses
<1>2. QED
  BY <1>1 DEF OrderRequests, CheckoutRequests, Idle

(* The fields of a bulk update between its orders.                         *)
LEMMA RequestBulk ==
  ASSUME NEW r \in OrderRequests, r.pc \in {"bulk", "bulkWrite"}
  PROVE  r.target \in OrderStatuses /\ r.todo \in SUBSET Order
  BY DEF OrderRequests, CheckoutRequests, Idle, Reachable

(* The fields of a checkout.                                               *)
LEMMA RequestCheckout ==
  ASSUME NEW r \in OrderRequests
  PROVE  /\ r.pc = "items" => r.todo \in SUBSET Variant
         /\ r.pc = "create" => r.cut \in Reductions
         /\ r.pc = "applyUse" => r.code \in Code
  BY DEF OrderRequests, CheckoutRequests, Idle

(* Every record a handler goes on with is a request.                       *)
LEMMA RequestKinds ==
  /\ Idle \in OrderRequests
  /\ \A o \in Order :
       /\ \A pc \in {"useCode", "pay", "store", "verify", "notify",
                     "hookTx", "hookNotify", "refundTx", "refundNotify"} :
            [pc |-> pc, order |-> o] \in OrderRequests
       /\ \A p \in Order : Confirming(o, p) \in OrderRequests
       /\ \A cut \in Reductions :
            [pc |-> "create", order |-> o, cut |-> cut] \in OrderRequests
       /\ \A t \in SUBSET Variant :
            [pc |-> "items", order |-> o, todo |-> t] \in OrderRequests
       /\ \A t \in Reachable :
            [pc |-> "sellerWrite", order |-> o, target |-> t]
              \in OrderRequests
       /\ \A t \in CarrierReports :
            [pc |-> "carrierWrite", order |-> o, target |-> t]
              \in OrderRequests
       /\ \A t \in Reachable, os \in SUBSET Order :
            [pc |-> "bulkWrite", order |-> o, todo |-> os, target |-> t]
              \in OrderRequests
  /\ \A c \in Code : [pc |-> "applyUse", code |-> c] \in OrderRequests
  /\ \A t \in OrderStatuses, os \in SUBSET Order :
       [pc |-> "bulk", todo |-> os, target |-> t] \in OrderRequests
  BY DEF OrderRequests, CheckoutRequests, Idle, Confirming

(* No transition of the table leads to PENDING.                            *)
LEMMA Transitions ==
  \A current \in OrderStatuses : \A target :
    canTransition(current, target) => target \in Reachable
  BY DEF canTransition, ORDER_TRANSITIONS, OrderStatuses, Reachable

(* A slot that goes on with a request leaves the slots typed.              *)
LEMMA PutType ==
  ASSUME req \in [Slot -> OrderRequests], NEW s \in Slot,
         NEW r \in OrderRequests, req' = [req EXCEPT ![s] = r]
  PROVE  req' \in [Slot -> OrderRequests]
  OBVIOUS

(* Taking or restoring the stock of an order leaves a stock.               *)
LEMMA MoveStockType ==
  ASSUME LifecycleTypeOK, NEW o \in Order, NEW sign \in {-1, 1},
         MoveStock(o, sign)
  PROVE  stock' \in [Variant -> Int]
  BY CheckoutAssumption DEF MoveStock, LifecycleTypeOK, CheckoutTypeOK

(* Confirming an order with a payment keeps the types of what it writes.   *)
LEMMA ConfirmType ==
  ASSUME LifecycleTypeOK, NEW o \in Order, NEW p \in Order, Confirm(o, p)
  PROVE  /\ status' \in [Order -> OrderStatuses \cup {"NONE"}]
         /\ events' \in [Order -> SUBSET EventTypes]
         /\ stock' \in [Variant -> Int]
         /\ transactionId' \in [Order -> SUBSET Order]
         /\ taken' \in [Order -> Nat]
         /\ UNCHANGED <<restored, mailed, refundMailed>>
<1> USE DEF Confirm, LifecycleTypeOK, CheckoutTypeOK
<1>1. stock' \in [Variant -> Int]
  BY MoveStockType
<1>2. /\ transactionId' \in [Order -> SUBSET Order]
      /\ taken' \in [Order -> Nat]
  OBVIOUS
<1> QED
  BY <1>1, <1>2 DEF OrderStatuses, EventTypes

(* Counting a code leaves a count.                                         *)
LEMMA UseCodeType ==
  ASSUME LifecycleTypeOK, NEW c, UseCode(c) PROVE usedCount' \in [Code -> Nat]
<1>1. CASE c \in Code
  BY <1>1 DEF UseCode, LifecycleTypeOK, CheckoutTypeOK
<1>2. CASE c \notin Code
  <2>1. usedCount' = usedCount
    BY <1>2 DEF UseCode, LifecycleTypeOK, CheckoutTypeOK
  <2> QED
    BY <2>1 DEF LifecycleTypeOK, CheckoutTypeOK
<1> QED
  BY <1>1, <1>2

(* The steps of a checkout keep the types.                                 *)
LEMMA CheckoutType ==
  ASSUME LifecycleTypeOK, NEW s \in Slot, CheckoutStep(s),
         UNCHANGED <<net, account>>
  PROVE  LifecycleTypeOK'
<1>1. req[s] \in OrderRequests
  BY DEF LifecycleTypeOK
<1>2. CASE CheckoutItem(s)
  <2>1. req[s].order \in Order
    BY <1>1, <1>2, RequestOrder DEF CheckoutItem, HasOrder
  <2>2. req' \in [Slot -> OrderRequests]
    <3>1. PICK v \in req[s].todo :
            req' = [req EXCEPT ![s] =
                      IF InStock(req[s].order, v)
                      THEN [pc |-> "items", order |-> req[s].order,
                            todo |-> req[s].todo \ {v}]
                      ELSE Idle]
      BY <1>2 DEF CheckoutItem
    <3>2. [pc |-> "items", order |-> req[s].order,
           todo |-> req[s].todo \ {v}] \in OrderRequests
      BY <1>1, <1>2, <2>1, RequestCheckout, RequestKinds DEF CheckoutItem
    <3> QED
      BY <3>1, <3>2, RequestKinds DEF LifecycleTypeOK
  <2> QED
    BY <2>1, <2>2, <1>2
    DEF CheckoutItem, LifecycleTypeOK, CheckoutTypeOK, database, account
<1>3. CASE CheckoutDiscount(s)
  <2>1. req[s].order \in Order
    BY <1>1, <1>3, RequestOrder DEF CheckoutDiscount, HasOrder
  <2>2. req' \in [Slot -> OrderRequests]
    <3>1. PICK r :
            /\ r \in {[pc |-> "create", order |-> req[s].order, cut |-> cut] :
                        cut \in Reductions}
                     \cup {[pc |-> "useCode", order |-> req[s].order]}
            /\ req' = [req EXCEPT ![s] = r]
      BY <1>3 DEF CheckoutDiscount, Reductions
    <3>2. r \in OrderRequests
      BY <2>1, <3>1, RequestKinds
    <3> QED
      BY <3>1, <3>2 DEF LifecycleTypeOK
  <2> QED
    BY <2>1, <2>2, <1>3
    DEF CheckoutDiscount, LifecycleTypeOK, CheckoutTypeOK, database, account
<1>4. CASE CheckoutUseCode(s)
  <2>1. req[s].order \in Order
    BY <1>1, <1>4, RequestOrder DEF CheckoutUseCode, Continue, HasOrder
  <2>2. req' \in [Slot -> OrderRequests]
    BY <2>1, <1>1, <1>4, RequestKinds
    DEF CheckoutUseCode, Continue, Reductions, LifecycleTypeOK
  <2> QED
    BY <2>2, <1>4, UseCodeType
    DEF CheckoutUseCode, LifecycleTypeOK, CheckoutTypeOK, account
<1>5. CASE CheckoutCreate(s)
  <2>1. req[s].order \in Order
    BY <1>1, <1>5, RequestOrder DEF CheckoutCreate, Continue, HasOrder
  <2>2. req' \in [Slot -> OrderRequests]
    BY <2>1, <1>1, <1>5, RequestKinds
    DEF CheckoutCreate, Continue, LifecycleTypeOK
  <2> QED
    BY <2>1, <2>2, <1>5, <1>1, RequestCheckout
    DEF CheckoutCreate, Continue, OrderStatuses, EventTypes, LifecycleTypeOK,
        CheckoutTypeOK, database, account
<1>6. CASE CheckoutPay(s)
  <2>1. req[s].order \in Order
    BY <1>1, <1>6, RequestOrder DEF CheckoutPay, Continue, HasOrder
  <2>2. req' \in [Slot -> OrderRequests]
    BY <2>1, <1>1, <1>6, RequestKinds
    DEF CheckoutPay, Continue, LifecycleTypeOK
  <2> QED
    BY <2>1, <2>2, <1>6
    DEF CheckoutPay, Continue, PaymentStates, LifecycleTypeOK, CheckoutTypeOK,
        database, account
<1>7. CASE CheckoutStore(s)
  <2>1. req[s].order \in Order
    BY <1>1, <1>7, RequestOrder DEF CheckoutStore, Continue, HasOrder
  <2>2. req' \in [Slot -> OrderRequests]
    BY <2>1, <1>1, <1>7, RequestKinds
    DEF CheckoutStore, Continue, LifecycleTypeOK
  <2> QED
    BY <2>1, <2>2, <1>7
    DEF CheckoutStore, Continue, LifecycleTypeOK, CheckoutTypeOK, database,
        account
<1>8. CASE CheckoutFail(s)
  <2>2. req' \in [Slot -> OrderRequests]
    BY <1>1, <1>8, RequestKinds DEF CheckoutFail, LifecycleTypeOK
  <2> QED
    BY <2>2, <1>8
    DEF CheckoutFail, LifecycleTypeOK, CheckoutTypeOK, database, account
<1>9. CASE ApplyUse(s)
  <2>2. req' \in [Slot -> OrderRequests]
    BY <1>1, <1>9, RequestKinds DEF ApplyUse, Continue, LifecycleTypeOK
  <2> QED
    BY <2>2, <1>9, UseCodeType
    DEF ApplyUse, LifecycleTypeOK, CheckoutTypeOK, account
<1> QED
  BY <1>2, <1>3, <1>4, <1>5, <1>6, <1>7, <1>8, <1>9 DEF CheckoutStep

(* The steps of the confirmations and refunds keep the types.              *)
LEMMA PaymentType ==
  ASSUME LifecycleTypeOK, NEW s \in Slot, Payment(s)
  PROVE  LifecycleTypeOK'
<1>1. req[s] \in OrderRequests
  BY DEF LifecycleTypeOK
<1>2. CASE ClientVerifyStripe(s)
  <2>1. req[s].order \in Order
    BY <1>1, <1>2, RequestOrder DEF ClientVerifyStripe, HasOrder
  <2>2. req' \in [Slot -> OrderRequests]
    <3>1. PICK p \in StripeOrder :
            req' = [req EXCEPT ![s] = Confirming(req[s].order, p)]
      BY <1>2 DEF ClientVerifyStripe
    <3>2. Confirming(req[s].order, p) \in OrderRequests
      BY <2>1, RequestKinds, CheckoutAssumption
    <3> QED
      BY <3>1, <3>2 DEF LifecycleTypeOK
  <2> QED
    BY <2>1, <2>2, <1>2
    DEF ClientVerifyStripe, LifecycleTypeOK, CheckoutTypeOK, database, account
<1>3. CASE ClientCapture(s)
  <2>1. req[s].order \in Order
    BY <1>1, <1>3, RequestOrder DEF ClientCapture, HasOrder
  <2>2. PICK p \in Order \ StripeOrder :
          /\ provider' = [provider EXCEPT ![p] = "paid"]
          /\ Send(<<"paid", p>>)
          /\ \E answer \in {Confirming(req[s].order, p), Idle} :
               req' = [req EXCEPT ![s] = answer]
    BY <1>3 DEF ClientCapture
  <2>3. req' \in [Slot -> OrderRequests]
    <3>1. PICK answer \in {Confirming(req[s].order, p), Idle} :
            req' = [req EXCEPT ![s] = answer]
      BY <2>2
    <3>2. answer \in OrderRequests
      BY <2>1, RequestKinds
    <3> QED
      BY <3>1, <3>2 DEF LifecycleTypeOK
  <2> QED
    BY <2>2, <2>3, <1>3
    DEF ClientCapture, Send, Message, PaymentStates, LifecycleTypeOK,
        CheckoutTypeOK, database, account
<1>4. CASE ClientFails(s)
  <2>2. req' \in [Slot -> OrderRequests]
    BY <1>1, <1>4, RequestKinds DEF ClientFails, LifecycleTypeOK
  <2> QED
    BY <2>2, <1>4
    DEF ClientFails, LifecycleTypeOK, CheckoutTypeOK, database, account
<1>5. CASE ClientConfirmTx(s)
  <2>1. req[s].order \in Order
    BY <1>1, <1>5, RequestOrder DEF ClientConfirmTx, HasOrder
  <2>2. req' \in [Slot -> OrderRequests]
    BY <2>1, <1>1, <1>5, RequestKinds DEF ClientConfirmTx, LifecycleTypeOK
  <2>3. req[s].payment \in Order
    BY <1>1, <1>5, RequestPayment DEF ClientConfirmTx
  <2> QED
    BY <2>1, <2>2, <2>3, <1>5, ConfirmType
    DEF ClientConfirmTx, orderVars, checkoutOnly, LifecycleTypeOK,
        CheckoutTypeOK, account
<1>6. CASE ClientNotify(s)
  <2>1. req[s].order \in Order
    BY <1>1, <1>6, RequestOrder DEF ClientNotify, Continue, HasOrder
  <2>2. req' \in [Slot -> OrderRequests]
    BY <2>1, <1>1, <1>6, RequestKinds
    DEF ClientNotify, Continue, LifecycleTypeOK
  <2> QED
    BY <2>1, <2>2, <1>6
    DEF ClientNotify, Continue, LifecycleTypeOK, CheckoutTypeOK, database,
        account
<1>7. CASE HookConfirmTx(s)
  <2>1. req[s].order \in Order
    BY <1>1, <1>7, RequestOrder DEF HookConfirmTx, HasOrder
  <2>2. req' \in [Slot -> OrderRequests]
    BY <2>1, <1>1, <1>7, RequestKinds DEF HookConfirmTx, LifecycleTypeOK
  <2> QED
    BY <2>1, <2>2, <1>7, ConfirmType
    DEF HookConfirmTx, orderVars, checkoutOnly, Answer, LifecycleTypeOK,
        CheckoutTypeOK, account
<1>8. CASE HookConfirmNotify(s)
  <2>1. req[s].order \in Order
    BY <1>1, <1>8, RequestOrder DEF HookConfirmNotify, Continue, HasOrder
  <2>2. req' \in [Slot -> OrderRequests]
    BY <2>1, <1>1, <1>8, RequestKinds
    DEF HookConfirmNotify, Continue, LifecycleTypeOK
  <2> QED
    BY <2>1, <2>2, <1>8
    DEF HookConfirmNotify, Continue, Answer, LifecycleTypeOK, CheckoutTypeOK,
        database, account
<1>9. CASE HookRefundTx(s)
  <2>1. req[s].order \in Order
    BY <1>1, <1>9, RequestOrder DEF HookRefundTx, Continue, HasOrder
  <2>2. req' \in [Slot -> OrderRequests]
    BY <2>1, <1>1, <1>9, RequestKinds
    DEF HookRefundTx, Continue, LifecycleTypeOK
  <2> QED
    BY <2>1, <2>2, <1>9, MoveStockType
    DEF HookRefundTx, Continue, Confirm, orderVars, checkoutOnly,
        OrderStatuses, EventTypes, LifecycleTypeOK, CheckoutTypeOK, database,
        account
<1>10. CASE HookRefundNotify(s)
  <2>1. req[s].order \in Order
    BY <1>1, <1>10, RequestOrder DEF HookRefundNotify, Continue, HasOrder
  <2>2. req' \in [Slot -> OrderRequests]
    BY <2>1, <1>1, <1>10, RequestKinds
    DEF HookRefundNotify, Continue, LifecycleTypeOK
  <2> QED
    BY <2>1, <2>2, <1>10
    DEF HookRefundNotify, Continue, Answer, LifecycleTypeOK, CheckoutTypeOK,
        database, account
<1>11. CASE HookError(s)
  <2>2. req' \in [Slot -> OrderRequests]
    BY <1>1, <1>11, RequestKinds DEF HookError, LifecycleTypeOK
  <2> QED
    BY <2>2, <1>11
    DEF HookError, Answer, LifecycleTypeOK, CheckoutTypeOK, database, account
<1> QED
  BY <1>2, <1>3, <1>4, <1>5, <1>6, <1>7, <1>8, <1>9, <1>10, <1>11 DEF Payment

(* The steps of sellers and carriers keep the types.                       *)
LEMMA UpdateType ==
  ASSUME LifecycleTypeOK, NEW s \in Slot, Update(s)
  PROVE  LifecycleTypeOK'
<1>1. req[s] \in OrderRequests
  BY DEF LifecycleTypeOK
<1>2. CASE SellerWrite(s)
  <2>1. req[s].order \in Order
    BY <1>1, <1>2, RequestOrder DEF SellerWrite, Continue, HasOrder
  <2>2. req' \in [Slot -> OrderRequests]
    BY <2>1, <1>1, <1>2, RequestKinds
    DEF SellerWrite, Continue, LifecycleTypeOK
  <2> QED
    BY <2>1, <2>2, <1>2, <1>1, RequestTarget
    DEF SellerWrite, Continue, SetStatus, checkoutOnly, Reachable,
        OrderStatuses, EventTypes, LifecycleTypeOK, CheckoutTypeOK, database,
        account
<1>3. CASE BulkRead(s)
  <2>2. req' \in [Slot -> OrderRequests]
    <3> DEFINE t == req[s].target
               rest(o) == req[s].todo \ {o}
               write(o) == [pc |-> "bulkWrite", order |-> o, todo |-> rest(o),
                            target |-> t]
               skip(o) == [pc |-> "bulk", todo |-> rest(o), target |-> t]
               checked(o) == /\ status[o] \notin {"NONE", t}
                             /\ canTransition(status[o], t)
    <3>1. PICK o \in req[s].todo :
            req' = [req EXCEPT ![s] = IF checked(o) THEN write(o) ELSE skip(o)]
      BY <1>3 DEF BulkRead
    <3>2. req[s].todo \in SUBSET Order /\ t \in OrderStatuses
      BY <1>1, <1>3, RequestBulk DEF BulkRead
    <3>3. skip(o) \in OrderRequests
      BY <3>2, RequestKinds
    <3>4. checked(o) => write(o) \in OrderRequests
      <4>1. SUFFICES ASSUME checked(o) PROVE t \in Reachable
        BY <3>2, RequestKinds
      <4> QED
        BY <3>1, <3>2, <4>1, Transitions DEF LifecycleTypeOK, CheckoutTypeOK
    <3> QED
      BY <3>1, <3>3, <3>4 DEF LifecycleTypeOK
  <2> QED
    BY <2>2, <1>3
    DEF BulkRead, LifecycleTypeOK, CheckoutTypeOK, database, account
<1>4. CASE BulkWrite(s)
  <2>1. req[s].order \in Order
    BY <1>1, <1>4, RequestOrder DEF BulkWrite, Continue, HasOrder
  <2>2. req' \in [Slot -> OrderRequests]
    BY <2>1, <1>1, <1>4, RequestKinds, RequestBulk
    DEF BulkWrite, Continue, LifecycleTypeOK
  <2> QED
    BY <2>1, <2>2, <1>4, <1>1, RequestTarget
    DEF BulkWrite, Continue, SetStatus, checkoutOnly, Reachable, OrderStatuses,
        EventTypes, LifecycleTypeOK, CheckoutTypeOK, database, account
<1>5. CASE BulkDone(s)
  <2>2. req' \in [Slot -> OrderRequests]
    BY <1>1, <1>5, RequestKinds DEF BulkDone, LifecycleTypeOK
  <2> QED
    BY <2>2, <1>5
    DEF BulkDone, LifecycleTypeOK, CheckoutTypeOK, database, account
<1>6. CASE CarrierWrite(s)
  <2>1. req[s].order \in Order
    BY <1>1, <1>6, RequestOrder DEF CarrierWrite, Continue, HasOrder
  <2>2. req' \in [Slot -> OrderRequests]
    BY <2>1, <1>1, <1>6, RequestKinds
    DEF CarrierWrite, Continue, LifecycleTypeOK
  <2> QED
    BY <2>1, <2>2, <1>6, <1>1, RequestTarget
    DEF CarrierWrite, Continue, SetStatus, checkoutOnly, Reachable,
        OrderStatuses, EventTypes, LifecycleTypeOK, CheckoutTypeOK, database,
        account
<1>7. CASE WriteFails(s)
  <2>1. req' \in [Slot -> OrderRequests]
    <3>1. CASE \/ Continue(s, "sellerWrite", Idle)
               \/ Continue(s, "carrierWrite", Idle)
      BY <3>1, RequestKinds DEF Continue, LifecycleTypeOK
    <3>2. CASE Continue(s, "bulkWrite", [pc |-> "bulk", todo |-> req[s].todo,
                                         target |-> req[s].target])
      BY <3>2, <1>1, RequestKinds, RequestBulk DEF Continue, LifecycleTypeOK
    <3> QED
      BY <1>7, <3>1, <3>2 DEF WriteFails
  <2> QED
    BY <2>1, <1>7
    DEF WriteFails, LifecycleTypeOK, CheckoutTypeOK, database, account
<1> QED
  BY <1>2, <1>3, <1>4, <1>5, <1>6, <1>7 DEF Update

(* Starting a request keeps the types.                                     *)
LEMMA StartType ==
  ASSUME LifecycleTypeOK, NEW s \in Slot, Start(s)
  PROVE  LifecycleTypeOK'
<1>1. ASSUME NEW r \in OrderRequests, Enter(s, r),
             UNCHANGED <<database, provider, crashes, net, account>>
      PROVE  LifecycleTypeOK'
  BY <1>1 DEF Enter, LifecycleTypeOK, CheckoutTypeOK, database, account
<1>2. ASSUME NEW o \in Order, ClientConfirm(s, o) PROVE LifecycleTypeOK'
  BY <1>1, <1>2, RequestKinds DEF ClientConfirm
<1>3. ASSUME NEW o \in Order, NEW t \in SellerTargets, SellerUpdate(s, o, t)
      PROVE  LifecycleTypeOK'
  <2>1. t \in Reachable
    BY <1>3, Transitions DEF SellerUpdate, LifecycleTypeOK, CheckoutTypeOK
  <2> QED
    BY <1>1, <1>3, <2>1, RequestKinds DEF SellerUpdate
<1>4. ASSUME NEW os \in SUBSET Order, NEW t \in SellerTargets,
             BulkUpdate(s, os, t)
      PROVE  LifecycleTypeOK'
  BY <1>1, <1>4, RequestKinds, LifecycleAssumption DEF BulkUpdate
<1>5. ASSUME NEW o \in Order, NEW r \in CarrierReports,
             CarrierReport(s, o, r)
      PROVE  LifecycleTypeOK'
  BY <1>1, <1>5, RequestKinds DEF CarrierReport
<1> QED
  BY <1>2, <1>3, <1>4, <1>5 DEF Start

(* Delivering an event keeps the types.                                    *)
LEMMA DeliverType ==
  ASSUME LifecycleTypeOK, NEW s \in Slot, Deliver(s)
  PROVE  LifecycleTypeOK'
<1>1. ASSUME NEW o \in Order, HookConfirm(s, o) PROVE LifecycleTypeOK'
  <2>1. req' \in [Slot -> OrderRequests]
    BY <1>1, RequestKinds DEF HookConfirm, LifecycleTypeOK
  <2> QED
    BY <1>1, <2>1
    DEF HookConfirm, Answer, LifecycleTypeOK, CheckoutTypeOK, database, account
<1>2. ASSUME NEW o \in Order, HookRefund(s, o) PROVE LifecycleTypeOK'
  <2>1. req' \in [Slot -> OrderRequests]
    BY <1>2, RequestKinds DEF HookRefund, LifecycleTypeOK
  <2> QED
    BY <1>2, <2>1
    DEF HookRefund, Answer, LifecycleTypeOK, CheckoutTypeOK, database, account
<1> QED
  BY <1>1, <1>2 DEF Deliver

(* The customer and the provider keep the types.                           *)
LEMMA EnvironmentType ==
  ASSUME LifecycleTypeOK, NEW o \in Order, Environment(o)
  PROVE  LifecycleTypeOK'
BY DEF Environment, CustomerPays, CustomerApproves, ProviderRefunds,
       ProviderResends, Send, Message, Paid, PaymentStates, LifecycleTypeOK,
       CheckoutTypeOK, checkoutVars, database, account

(* A checkout, from its start to its end, keeps the types.                 *)
LEMMA CheckoutsType ==
  ASSUME LifecycleTypeOK, NEW s \in Slot, Checkouts(s)
  PROVE  LifecycleTypeOK'
<1>1. ASSUME NEW r \in OrderRequests, Enter(s, r),
             UNCHANGED <<database, provider, crashes, net, account>>
      PROVE  LifecycleTypeOK'
  BY <1>1 DEF Enter, LifecycleTypeOK, CheckoutTypeOK, database, account
<1>2. ASSUME NEW o \in Order, CheckoutStart(s, o) PROVE LifecycleTypeOK'
  BY <1>1, <1>2, RequestKinds DEF CheckoutStart, Checkouts
<1>3. ASSUME NEW c \in Code, ApplyStart(s, c) PROVE LifecycleTypeOK'
  BY <1>1, <1>3, RequestKinds DEF ApplyStart, Checkouts
<1> QED
  BY <1>2, <1>3, CheckoutType DEF Checkouts, CheckoutRequest

(* A delay notice and an admin's edit keep the types.                      *)
LEMMA OfficeType ==
  ASSUME LifecycleTypeOK,
         \/ \E o \in DelayedOrders : DelayNotice(o)
         \/ \E v \in Variant : AdminSetsStock(v)
  PROVE  LifecycleTypeOK'
<1> USE DEF LifecycleTypeOK, CheckoutTypeOK, checkoutOnly, account
<1>1. ASSUME NEW o \in DelayedOrders, DelayNotice(o) PROVE LifecycleTypeOK'
  BY <1>1, LifecycleAssumption DEF DelayNotice, EventTypes, OrderStatuses
<1>2. ASSUME NEW v \in Variant, AdminSetsStock(v) PROVE LifecycleTypeOK'
  <2>1. PICK q \in StockLevels : stock' = [stock EXCEPT ![v] = q]
    BY <1>2 DEF AdminSetsStock
  <2>2. stock' \in [Variant -> Int]
    BY <2>1, LifecycleAssumption
  <2> QED
    BY <1>2, <2>2 DEF AdminSetsStock
<1> QED
  BY <1>1, <1>2

(* A crash keeps the types.                                                *)
LEMMA CrashType ==
  ASSUME LifecycleTypeOK, Crash PROVE LifecycleTypeOK'
<1>1. req' \in [Slot -> OrderRequests]
  BY RequestKinds DEF Crash, CheckoutCrash
<1>2. crashes' \in 0 .. MaxCrashes
  BY CheckoutAssumption
  DEF Crash, CheckoutCrash, LifecycleTypeOK, CheckoutTypeOK
<1> QED
  BY <1>1, <1>2
  DEF Crash, CheckoutCrash, LifecycleTypeOK, CheckoutTypeOK, database, account

(* The types hold at first.                                                *)
LEMMA InitType == Init => LifecycleTypeOK
<1> SUFFICES ASSUME Init PROVE LifecycleTypeOK
  OBVIOUS
<1>1. req \in [Slot -> OrderRequests]
  BY RequestKinds DEF Init, CheckoutInit
<1>2. crashes \in 0 .. MaxCrashes /\ stock \in [Variant -> Int]
  BY CheckoutAssumption DEF Init, CheckoutInit
<1> QED
  BY <1>1, <1>2
  DEF Init, CheckoutInit, LifecycleTypeOK, CheckoutTypeOK, Reductions,
      PaymentStates

(* Every step keeps the types.                                             *)
LEMMA StepType == LifecycleTypeOK /\ [Next]_vars => LifecycleTypeOK'
<1> SUFFICES ASSUME LifecycleTypeOK, [Next]_vars PROVE LifecycleTypeOK'
  OBVIOUS
<1>1. CASE UNCHANGED vars
  BY <1>1
  DEF vars, checkoutVars, account, LifecycleTypeOK, CheckoutTypeOK
<1>2. CASE Next
  BY <1>2, CrashType, EnvironmentType, OfficeType, CheckoutsType, StartType,
     DeliverType, PaymentType, UpdateType DEF Next
<1> QED
  BY <1>1, <1>2

(* The lifecycle's state always has the shapes its declarations give it.   *)
THEOREM TypeCorrect == Spec => []LifecycleTypeOK
BY InitType, StepType, PTL DEF Spec

-----------------------------------------------------------------------------
(* What a step does to the rows that decide stock: nothing; a new order; a *)
(* confirmation; a status written by a seller or a carrier; a refund; a    *)
(* stock set by an admin.                                                  *)
Quiet == UNCHANGED <<status, stock, taken, restored>>

Created(o) ==
  /\ status[o] = "NONE" /\ status' = [status EXCEPT ![o] = "PENDING"]
  /\ UNCHANGED <<stock, taken, restored>>

Confirmed(o) ==
  /\ status[o] = "PENDING" /\ status' = [status EXCEPT ![o] = "CONFIRMED"]
  /\ MoveStock(o, -1)
  /\ taken' = [taken EXCEPT ![o] = @ + 1]
  /\ UNCHANGED restored

(* The requests that will write a status they have checked.                *)
Writing == {"sellerWrite", "bulkWrite", "carrierWrite"}

Written(o) ==
  /\ \E s \in Slot : req[s].pc \in Writing
  /\ \E t \in Reachable : status' = [status EXCEPT ![o] = t]
  /\ UNCHANGED <<stock, taken, restored>>

Refunded(o) ==
  /\ status[o] \in Refundable /\ status' = [status EXCEPT ![o] = "REFUNDED"]
  /\ MoveStock(o, 1)
  /\ restored' = [restored EXCEPT ![o] = @ + 1]
  /\ UNCHANGED taken

Adjusted ==
  /\ StockLevels # {}
  /\ UNCHANGED <<status, taken, restored>>

StatusStep ==
  \/ Quiet
  \/ Adjusted
  \/ \E o \in Order :
       Created(o) \/ Confirmed(o) \/ Written(o) \/ Refunded(o)

(* Every step creates, confirms, writes or refunds one order, or none; or  *)
(* it sets a stock.                                                        *)
LEMMA StepIsStatusStep ==
  ASSUME LifecycleTypeOK, [Next]_vars PROVE StatusStep
<1> USE DEF database, account, StatusStep, Quiet
<1>0. ASSUME NEW s \in Slot, req[s].pc \in HasOrder PROVE req[s].order \in Order
  BY <1>0, RequestOrder DEF LifecycleTypeOK
<1>1. CASE UNCHANGED vars
  BY <1>1 DEF vars, checkoutVars
<1>2. CASE Crash
  BY <1>2 DEF Crash, CheckoutCrash
<1>3. ASSUME NEW o \in Order, Environment(o) PROVE StatusStep
  BY <1>3 DEF Environment, CustomerPays, CustomerApproves, ProviderRefunds,
              ProviderResends, checkoutVars
<1>4. ASSUME NEW o \in DelayedOrders, DelayNotice(o) PROVE StatusStep
  BY <1>4 DEF DelayNotice
<1>5. ASSUME NEW v \in Variant, AdminSetsStock(v) PROVE StatusStep
  BY <1>5 DEF AdminSetsStock, Adjusted
<1>6. ASSUME NEW s \in Slot, Checkouts(s) PROVE StatusStep
  <2>1. CASE CheckoutCreate(s)
    <3>1. req[s].order \in Order
      BY <1>0, <2>1 DEF CheckoutCreate, Continue, HasOrder
    <3>2. Created(req[s].order)
      BY <1>6, <2>1 DEF CheckoutCreate, Checkouts, Created
    <3> QED
      BY <3>1, <3>2
  <2>2. CASE ~CheckoutCreate(s)
    BY <1>6, <2>2
    DEF Checkouts, CheckoutRequest, CheckoutStep, CheckoutStart, ApplyStart,
        CheckoutItem, CheckoutDiscount, CheckoutUseCode, CheckoutPay,
        CheckoutStore, CheckoutFail, ApplyUse
  <2> QED
    BY <2>1, <2>2
<1>7. ASSUME NEW s \in Slot, Start(s) PROVE StatusStep
  BY <1>7 DEF Start, ClientConfirm, SellerUpdate, BulkUpdate, CarrierReport
<1>8. ASSUME NEW s \in Slot, Deliver(s) PROVE StatusStep
  BY <1>8 DEF Deliver, HookConfirm, HookRefund
<1>9. ASSUME NEW s \in Slot, Payment(s) PROVE StatusStep
  <2>1. CASE ClientConfirmTx(s)
    <3>1. req[s].order \in Order
      BY <1>0, <2>1 DEF ClientConfirmTx, HasOrder
    <3> QED
      BY <2>1, <3>1
      DEF ClientConfirmTx, Confirm, StillPending, Confirmed, orderVars
  <2>2. CASE HookConfirmTx(s)
    <3>1. req[s].order \in Order
      BY <1>0, <2>2 DEF HookConfirmTx, HasOrder
    <3> QED
      BY <2>2, <3>1
      DEF HookConfirmTx, Confirm, StillPending, Confirmed, orderVars
  <2>3. CASE HookRefundTx(s)
    <3>1. req[s].order \in Order
      BY <1>0, <2>3 DEF HookRefundTx, Continue, HasOrder
    <3> QED
      BY <2>3, <3>1 DEF HookRefundTx, Refunded, orderVars
  <2>4. CASE ~(ClientConfirmTx(s) \/ HookConfirmTx(s) \/ HookRefundTx(s))
    BY <1>9, <2>4
    DEF Payment, ClientVerifyStripe, ClientCapture, ClientFails,
        ClientNotify, HookConfirmNotify, HookRefundNotify, HookError
  <2> QED
    BY <2>1, <2>2, <2>3, <2>4
<1>10. ASSUME NEW s \in Slot, Update(s) PROVE StatusStep
  <2>1. CASE BulkRead(s) \/ BulkDone(s) \/ WriteFails(s)
    BY <2>1 DEF BulkRead, BulkDone, WriteFails
  <2>2. CASE SellerWrite(s) \/ BulkWrite(s) \/ CarrierWrite(s)
    <3>1. /\ req[s].pc \in {"sellerWrite", "bulkWrite", "carrierWrite"}
          /\ SetStatus(req[s].order, req[s].target)
      BY <2>2 DEF SellerWrite, BulkWrite, CarrierWrite, Continue
    <3>2. req[s].order \in Order
      BY <1>0, <3>1 DEF HasOrder
    <3>3. req[s].target \in Reachable
      BY <3>1, RequestTarget DEF LifecycleTypeOK
    <3> QED
      BY <3>1, <3>2, <3>3 DEF SetStatus, Written, Writing
  <2> QED
    BY <1>10, <2>1, <2>2 DEF Update
<1> QED
  BY <1>1, <1>2, <1>3, <1>4, <1>5, <1>6, <1>7, <1>8, <1>9, <1>10 DEF Next

(* The inductive half of StockTakenOnce: an order that may still be        *)
(* confirmed has had nothing taken.                                        *)
Ledger ==
  \A o \in Order :
    /\ taken[o] \in {0, 1}
    /\ status[o] \in {"NONE", "PENDING"} => taken[o] = 0

(* The ledger holds at first.                                              *)
LEMMA InitLedger == Init => Ledger
BY DEF Init, CheckoutInit, Ledger

(* Every step keeps the ledger.                                            *)
LEMMA StepLedger ==
  ASSUME LifecycleTypeOK, Ledger, [Next]_vars PROVE Ledger'
BY StepIsStatusStep
DEF StatusStep, Quiet, Adjusted, Created, Confirmed, Written, Refunded,
    Ledger, Reachable, OrderStatuses, LifecycleTypeOK, CheckoutTypeOK

(* The ledger of stock and events holds in every state.                    *)
THEOREM LedgerCorrect == Spec => []Ledger
BY InitLedger, StepLedger, TypeCorrect, PTL DEF Spec

(* The stock of an order is taken at most once.                            *)
THEOREM StockIsTakenOnce == Spec => []StockTakenOnce
<1>1. Ledger => StockTakenOnce
  BY DEF Ledger, StockTakenOnce
<1> QED
  BY <1>1, LedgerCorrect, PTL
-----------------------------------------------------------------------------
(* The stock of a variant and the units that orders took and gave back.    *)

(* One more of an order adds the units in its cart.                        *)
LEMMA OneMore ==
  ASSUME NEW count \in [Order -> Nat], NEW o \in Order, NEW v \in Variant,
         IsFiniteSet(Units(count, v))
  PROVE  /\ IsFiniteSet(Units([count EXCEPT ![o] = @ + 1], v))
         /\ Cardinality(Units([count EXCEPT ![o] = @ + 1], v))
              = Cardinality(Units(count, v)) + Cart[o][v]
<1> DEFINE new == [count EXCEPT ![o] = @ + 1]
           one == {<<o, count[o] + 1>>}
           more == one \X (1 .. Cart[o][v])
<1>1. Cart[o][v] \in Nat
  BY CheckoutAssumption
<1>2. \A p \in Order : new[p] = IF p = o THEN count[p] + 1 ELSE count[p]
  OBVIOUS
<1>3. {o} \X (1 .. count[o] + 1) = ({o} \X (1 .. count[o])) \cup one
  OBVIOUS
<1>4. ({o} \X (1 .. new[o])) \X (1 .. Cart[o][v])
        = (({o} \X (1 .. count[o])) \X (1 .. Cart[o][v])) \cup more
  BY <1>2, <1>3
<1>5. Units(new, v) = Units(count, v) \cup more
  BY <1>2, <1>4 DEF Units
<1>6. Units(count, v) \cap more = {}
  BY DEF Units
<1>7. IsFiniteSet(more) /\ Cardinality(more) = Cart[o][v]
  <2>1. IsFiniteSet(one) /\ Cardinality(one) = 1
    BY FS_Singleton
  <2>2. /\ IsFiniteSet(1 .. Cart[o][v])
        /\ Cardinality(1 .. Cart[o][v]) = Cart[o][v]
    <3>1. ASSUME NEW n \in Nat
          PROVE  IsFiniteSet(1 .. n) /\ Cardinality(1 .. n) = n
      <4>1. /\ IsFiniteSet(1 .. n)
            /\ Cardinality(1 .. n) = IF 1 > n THEN 0 ELSE n - 1 + 1
        BY FS_Interval
      <4> QED
        BY <4>1
    <3> QED
      BY <1>1, <3>1
  <2>3. IsFiniteSet(more) /\ Cardinality(more) = 1 * Cart[o][v]
    BY <2>1, <2>2, FS_Product, ZenonT(30)
  <2> QED
    BY <1>1, <2>3
<1>8. /\ IsFiniteSet(Units(count, v) \cup more)
      /\ Cardinality(Units(count, v) \cup more)
           = Cardinality(Units(count, v)) + Cart[o][v] - Cardinality({})
  BY <1>6, <1>7, FS_Union
<1>9. Cardinality(Units(count, v)) \in Nat
  BY FS_CardinalityType
<1> HIDE DEF new, more
<1>10. Cardinality(Units(new, v)) = Cardinality(Units(count, v)) + Cart[o][v]
  BY <1>1, <1>5, <1>8, <1>9, FS_EmptySet
<1> QED
  BY <1>5, <1>8, <1>10 DEF new

(* Where no admin sets it, the stock of a variant is what it was at first, *)
(* less the units each confirmation took, with those each refund gave back.*)
StockLedger ==
  \A v \in Variant :
    stock[v] = InitStock[v] - Cardinality(Units(taken, v))
                            + Cardinality(Units(restored, v))

(* Its inductive half: only finitely many units moved.                     *)
Counted(count) == \A v \in Variant : IsFiniteSet(Units(count, v))

Moved == Counted(taken) /\ Counted(restored)

(* At first nothing has moved.                                             *)
LEMMA InitMoved == Init => Moved /\ StockLedger
<1> SUFFICES ASSUME Init, NEW v \in Variant
             PROVE  /\ IsFiniteSet(Units(taken, v))
                    /\ IsFiniteSet(Units(restored, v))
                    /\ stock[v] = InitStock[v]
                         - Cardinality(Units(taken, v))
                         + Cardinality(Units(restored, v))
  BY DEF Moved, Counted, StockLedger
<1>1. Units(taken, v) = {} /\ Units(restored, v) = {}
  BY DEF Init, Units
<1>2. stock[v] = InitStock[v] /\ InitStock[v] \in Int
  BY CheckoutAssumption DEF Init, CheckoutInit
<1> QED
  BY <1>1, <1>2, FS_EmptySet

(* Every step moves the stock by the units it takes or gives back.         *)
LEMMA StepMoved ==
  ASSUME StockLevels = {}, LifecycleTypeOK, Moved, StockLedger, [Next]_vars
  PROVE  Moved' /\ StockLedger'
<1> SUFFICES ASSUME NEW v \in Variant
             PROVE  /\ IsFiniteSet(Units(taken', v))
                    /\ IsFiniteSet(Units(restored', v))
                    /\ stock'[v] = InitStock[v]
                         - Cardinality(Units(taken', v))
                         + Cardinality(Units(restored', v))
  BY DEF Moved, Counted, StockLedger, Units
<1>1. /\ IsFiniteSet(Units(taken, v)) /\ IsFiniteSet(Units(restored, v))
      /\ stock[v] = InitStock[v] - Cardinality(Units(taken, v))
                                 + Cardinality(Units(restored, v))
  BY DEF Moved, Counted, StockLedger
<1>2. /\ Cardinality(Units(taken, v)) \in Nat
      /\ Cardinality(Units(restored, v)) \in Nat
      /\ InitStock[v] \in Int /\ stock[v] \in Int
      /\ \A o \in Order : Cart[o][v] \in Nat
  BY <1>1, FS_CardinalityType, CheckoutAssumption
  DEF LifecycleTypeOK, CheckoutTypeOK
<1>3. taken \in [Order -> Nat] /\ restored \in [Order -> Nat]
  BY DEF LifecycleTypeOK
<1>4. CASE UNCHANGED <<stock, taken, restored>>
  BY <1>1, <1>4
<1>5. ASSUME NEW o \in Order, Confirmed(o)
      PROVE  /\ IsFiniteSet(Units(taken', v))
             /\ IsFiniteSet(Units(restored', v))
             /\ stock'[v] = InitStock[v] - Cardinality(Units(taken', v))
                                         + Cardinality(Units(restored', v))
  <2>1. /\ IsFiniteSet(Units(taken', v))
        /\ Cardinality(Units(taken', v))
             = Cardinality(Units(taken, v)) + Cart[o][v]
    BY <1>1, <1>3, <1>5, OneMore DEF Confirmed
  <2>2. stock'[v] = stock[v] - Cart[o][v] /\ restored' = restored
    BY <1>2, <1>5 DEF Confirmed, MoveStock
  <2> QED
    BY <1>1, <1>2, <2>1, <2>2
<1>6. ASSUME NEW o \in Order, Refunded(o)
      PROVE  /\ IsFiniteSet(Units(taken', v))
             /\ IsFiniteSet(Units(restored', v))
             /\ stock'[v] = InitStock[v] - Cardinality(Units(taken', v))
                                         + Cardinality(Units(restored', v))
  <2>1. /\ IsFiniteSet(Units(restored', v))
        /\ Cardinality(Units(restored', v))
             = Cardinality(Units(restored, v)) + Cart[o][v]
    BY <1>1, <1>3, <1>6, OneMore DEF Refunded
  <2>2. stock'[v] = stock[v] + Cart[o][v] /\ taken' = taken
    BY <1>2, <1>6 DEF Refunded, MoveStock
  <2> QED
    BY <1>1, <1>2, <2>1, <2>2
<1> QED
  BY <1>4, <1>5, <1>6, StepIsStatusStep
  DEF StatusStep, Quiet, Adjusted, Created, Written
=============================================================================
