------------------------ MODULE OrderPaymentProofs -------------------------
(***************************************************************************)
(* Proofs about money and mail in OrderLifecycle: stock is taken only      *)
(* against a payment the provider has collected, and the confirmation      *)
(* e-mail is started only by the request that took it.  While payments     *)
(* alone move an order, refunds give back what was taken, once, their      *)
(* e-mails are bounded, and the stock can be told from the statuses.       *)
(***************************************************************************)
EXTENDS OrderLifecycleProofs

-----------------------------------------------------------------------------
(* The inductive halves of StockTakenOnlyIfCollected and                   *)
(* MailedOnlyIfConfirmed: whoever is about to confirm an order, and every  *)
(* event that will make someone try, has the provider's word for a payment *)
(* of the order's method (not for the order's own: the browser names it);  *)
(* a payment is created once, by the checkout that created the order, so   *)
(* that word is never unsaid.                                              *)
Backs(p, o) == Paid(p) /\ SameMethod(o, p)

Money ==
  /\ \A o \in Order :
       /\ status[o] = "NONE" => provider[o] = "none"
       /\ taken[o] > 0 => transactionId[o] # {}
       /\ \A p \in transactionId[o] : Backs(p, o)
       /\ <<"paid", o>> \in net => Paid(o)
  /\ \A t \in Slot :
       /\ req[t].pc = "confirmTx" => Backs(req[t].payment, req[t].order)
       /\ req[t].pc = "hookTx" => Paid(req[t].order)
       /\ req[t].pc = "pay" => /\ provider[req[t].order] = "none"
                              /\ status[req[t].order] # "NONE"
  /\ \A t, u \in Slot :
       t # u /\ req[t].pc = "pay" /\ req[u].pc = "pay"
         => req[t].order # req[u].order

(* A request that still has to mail is the only one for its order, and the *)
(* order, whose stock has been taken, has not been mailed about.           *)
Notifying == {"notify", "hookNotify"}

Mail ==
  /\ \A o \in Order : mailed[o] <= taken[o]
  /\ \A t \in Slot :
       req[t].pc \in Notifying
         => taken[req[t].order] = 1 /\ mailed[req[t].order] = 0
  /\ \A t, u \in Slot :
       t # u /\ req[t].pc \in Notifying /\ req[u].pc \in Notifying
         => req[t].order # req[u].order

(* Most steps only move one request to a place of no interest to either.   *)
Aside(s) ==
  /\ \E r \in OrderRequests :
       /\ r.pc \notin {"pay", "confirmTx", "hookTx", "notify", "hookNotify"}
       /\ req' = [req EXCEPT ![s] = r]
  /\ net' \subseteq net
  /\ UNCHANGED <<provider, transactionId, taken, mailed>>

(* No step takes the row of an order away.                                 *)
LEMMA StatusKept ==
  ASSUME LifecycleTypeOK, [Next]_vars, NEW o \in Order
  PROVE  status'[o] = "NONE" => status[o] = "NONE"
BY StepIsStatusStep
DEF StatusStep, Quiet, Created, Confirmed, Written, Refunded, Reachable,
    OrderStatuses, Adjusted, LifecycleTypeOK, CheckoutTypeOK

(* The order of the request a slot executes is one of the orders.          *)
LEMMA RequestSlot ==
  ASSUME LifecycleTypeOK, NEW s \in Slot, req[s].pc \in HasOrder
  PROVE  req[s].order \in Order
BY RequestOrder DEF LifecycleTypeOK

(* The payment a slot will confirm with is one of the payments.            *)
LEMMA PaymentSlot ==
  ASSUME LifecycleTypeOK, NEW s \in Slot, req[s].pc = "confirmTx"
  PROVE  req[s].payment \in Order
BY RequestPayment DEF LifecycleTypeOK

(* What is known of money stays known when at most slot s moves, to no     *)
(* creation of a payment, with the provider's word for what it will do.    *)
LEMMA MoneyKept ==
  ASSUME LifecycleTypeOK, Money, NEW s \in Slot,
         \A t \in Slot : t # s => req'[t] = req[t],
         \A p \in Order :
           /\ status'[p] = "NONE" => status[p] = "NONE"
           /\ Paid(p) => provider'[p] \in {"paid", "refunded"}
           /\ provider[p] = "none" => provider'[p] = "none"
           /\ <<"paid", p>> \in net'
                => provider'[p] \in {"paid", "refunded"},
         UNCHANGED <<transactionId, taken>>,
         req'[s].pc = "confirmTx"
           => /\ provider'[req'[s].payment] \in {"paid", "refunded"}
              /\ SameMethod(req'[s].order, req'[s].payment),
         req'[s].pc = "hookTx"
           => provider'[req'[s].order] \in {"paid", "refunded"},
         req'[s].pc # "pay"
  PROVE  Money'
<1>1. \A t \in Slot : req[t].pc \in HasOrder => req[t].order \in Order
  BY RequestSlot
<1>2. \A t \in Slot : req[t].pc = "confirmTx" => req[t].payment \in Order
  BY PaymentSlot
<1>3. ASSUME NEW o \in Order
      PROVE  /\ status'[o] = "NONE" => provider'[o] = "none"
             /\ taken'[o] > 0 => transactionId'[o] # {}
             /\ \A p \in transactionId'[o] : Backs(p, o)'
             /\ <<"paid", o>> \in net' => Paid(o)'
  <2>1. transactionId[o] \subseteq Order
    BY DEF LifecycleTypeOK
  <2> QED
    BY <2>1 DEF Money, Backs, Paid, SameMethod
<1>4. ASSUME NEW t \in Slot, t # s
      PROVE  /\ req'[t].pc = "confirmTx"
                  => Backs(req[t].payment, req[t].order)'
             /\ req'[t].pc = "hookTx" => Paid(req[t].order)'
             /\ req'[t].pc = "pay" => /\ provider'[req'[t].order] = "none"
                                     /\ status'[req'[t].order] # "NONE"
  <2>1. req'[t] = req[t]
    BY <1>4
  <2>2. CASE req[t].pc = "confirmTx"
    <3>1. Backs(req[t].payment, req[t].order) /\ req[t].payment \in Order
      BY <1>2, <2>2 DEF Money
    <3> QED
      BY <2>1, <2>2, <3>1 DEF Backs, Paid, SameMethod
  <2>3. CASE req[t].pc = "hookTx"
    <3>1. Paid(req[t].order) /\ req[t].order \in Order
      BY <1>1, <2>3 DEF Money, HasOrder
    <3> QED
      BY <2>1, <2>3, <3>1 DEF Paid
  <2>4. CASE req[t].pc = "pay"
    <3>1. /\ provider[req[t].order] = "none" /\ status[req[t].order] # "NONE"
          /\ req[t].order \in Order
      BY <1>1, <2>4 DEF Money, HasOrder
    <3> QED
      BY <2>1, <2>4, <3>1
  <2> QED
    BY <2>1, <2>2, <2>3, <2>4
<1>5. /\ req'[s].pc = "confirmTx"
           => Backs(req[s].payment, req[s].order)'
      /\ req'[s].pc = "hookTx" => Paid(req[s].order)'
  BY DEF Backs, Paid, SameMethod
<1> QED
  BY <1>3, <1>4, <1>5 DEF Money

(* A step aside of the payment keeps what is known of money and mail.      *)
LEMMA AsideKeeps ==
  ASSUME LifecycleTypeOK, Money, Mail, [Next]_vars, NEW s \in Slot, Aside(s)
  PROVE  Money' /\ Mail'
<1>1. PICK r \in OrderRequests :
        /\ r.pc \notin {"pay", "confirmTx", "hookTx", "notify", "hookNotify"}
        /\ req' = [req EXCEPT ![s] = r]
  BY DEF Aside
<1>2. req'[s] = r /\ \A t \in Slot : t # s => req'[t] = req[t]
  BY <1>1 DEF LifecycleTypeOK
<1>3. \A p \in Order :
        /\ status'[p] = "NONE" => status[p] = "NONE"
        /\ Paid(p) => provider'[p] \in {"paid", "refunded"}
        /\ provider[p] = "none" => provider'[p] = "none"
        /\ <<"paid", p>> \in net' => provider'[p] \in {"paid", "refunded"}
  BY StatusKept DEF Aside, Money, Paid
<1>4. Money'
  BY <1>1, <1>2, <1>3, MoneyKept DEF Aside
<1>5. Mail'
  BY <1>1, <1>2 DEF Aside, Mail, Notifying
<1> QED
  BY <1>4, <1>5

(* Starting a seller's or a carrier's request is a step aside.             *)
LEMMA StartIsAside ==
  ASSUME LifecycleTypeOK, NEW s \in Slot, Start(s) PROVE Aside(s)
<1>1. ASSUME NEW r \in OrderRequests, Enter(s, r),
             r.pc \in {"verify", "sellerWrite", "bulk", "carrierWrite"},
             UNCHANGED <<provider, net, account>>
      PROVE  Aside(s)
  BY <1>1 DEF Enter, Aside, account
<1>2. ASSUME NEW o \in Order, ClientConfirm(s, o) PROVE Aside(s)
  BY <1>1, <1>2, RequestKinds DEF ClientConfirm
<1>3. ASSUME NEW o \in Order, NEW t \in SellerTargets, SellerUpdate(s, o, t)
      PROVE  Aside(s)
  <2>1. t \in Reachable
    BY <1>3, Transitions DEF SellerUpdate, LifecycleTypeOK, CheckoutTypeOK
  <2> QED
    BY <1>1, <1>3, <2>1, RequestKinds DEF SellerUpdate
<1>4. ASSUME NEW os \in SUBSET Order, NEW t \in SellerTargets,
             BulkUpdate(s, os, t)
      PROVE  Aside(s)
  BY <1>1, <1>4, RequestKinds, LifecycleAssumption DEF BulkUpdate
<1>5. ASSUME NEW o \in Order, NEW r \in CarrierReports,
             CarrierReport(s, o, r)
      PROVE  Aside(s)
  BY <1>1, <1>5, RequestKinds DEF CarrierReport
<1> QED
  BY <1>2, <1>3, <1>4, <1>5 DEF Start

(* The seller's and the carrier's writes are steps aside.                  *)
LEMMA UpdateIsAside ==
  ASSUME LifecycleTypeOK, NEW s \in Slot, Update(s), LifecycleTypeOK'
  PROVE  Aside(s)
<1>1. req' = [req EXCEPT ![s] = req'[s]] /\ req'[s] \in OrderRequests
  BY DEF Update, SellerWrite, BulkRead, BulkWrite, BulkDone, CarrierWrite,
         WriteFails, Continue, LifecycleTypeOK
<1>2. req'[s].pc \in {"idle", "bulk", "bulkWrite"}
  BY DEF Update, SellerWrite, BulkRead, BulkWrite, BulkDone, CarrierWrite,
         WriteFails, Continue, LifecycleTypeOK, Idle
<1>3. net' \subseteq net
      /\ UNCHANGED <<provider, transactionId, taken, mailed>>
  BY DEF Update, SellerWrite, BulkRead, BulkWrite, BulkDone, CarrierWrite,
         WriteFails, SetStatus, account
<1> QED
  BY <1>1, <1>2, <1>3 DEF Aside

(* The checkout is a step aside until it creates the order.                *)
LEMMA CheckoutIsAside ==
  ASSUME LifecycleTypeOK, NEW s \in Slot, Checkouts(s), LifecycleTypeOK',
         ~CheckoutCreate(s), ~CheckoutPay(s)
  PROVE  Aside(s)
<1> USE DEF Checkouts, CheckoutRequest, CheckoutStep, CheckoutStart,
            ApplyStart, CheckoutItem, CheckoutDiscount, CheckoutUseCode,
            CheckoutStore, CheckoutFail, ApplyUse
<1>1. req' = [req EXCEPT ![s] = req'[s]] /\ req'[s] \in OrderRequests
  BY DEF Enter, Continue, LifecycleTypeOK
<1>2. req'[s].pc \in {"idle", "items", "useCode", "create", "applyUse"}
  BY DEF Enter, Continue, LifecycleTypeOK, Idle
<1>3. net' \subseteq net
      /\ UNCHANGED <<provider, transactionId, taken, mailed>>
  BY DEF account
<1> QED
  BY <1>1, <1>2, <1>3 DEF Aside

(* Refund steps and refused transactions are steps aside.                  *)
LEMMA PaymentIsAside ==
  ASSUME LifecycleTypeOK, NEW s \in Slot, LifecycleTypeOK',
         \/ ClientFails(s) \/ HookRefundTx(s)
         \/ HookRefundNotify(s) \/ HookError(s)
  PROVE  Aside(s)
<1> USE DEF ClientFails, HookRefundTx, HookRefundNotify, HookError
<1>1. req' = [req EXCEPT ![s] = req'[s]] /\ req'[s] \in OrderRequests
  BY DEF Continue, LifecycleTypeOK
<1>2. req'[s].pc \in {"idle", "refundNotify"}
  BY DEF Continue, LifecycleTypeOK, Idle
<1>3. net' \subseteq net
      /\ UNCHANGED <<provider, transactionId, taken, mailed>>
  BY DEF account, Answer
<1> QED
  BY <1>1, <1>2, <1>3 DEF Aside

(* Delivering a refund event is a step aside.                              *)
LEMMA HookRefundIsAside ==
  ASSUME LifecycleTypeOK, NEW s \in Slot, NEW o \in Order, HookRefund(s, o),
         LifecycleTypeOK'
  PROVE  Aside(s)
<1>1. req' = [req EXCEPT ![s] = req'[s]] /\ req'[s] \in OrderRequests
  BY DEF HookRefund, LifecycleTypeOK
<1>2. req'[s].pc \in {"idle", "refundTx"}
  BY DEF HookRefund, LifecycleTypeOK, Idle
<1>3. net' \subseteq net
      /\ UNCHANGED <<provider, transactionId, taken, mailed>>
  BY DEF HookRefund, account, Answer
<1> QED
  BY <1>1, <1>2, <1>3 DEF Aside
-----------------------------------------------------------------------------
(* The steps that do matter, each for the request of slot s and its order. *)
LEMMA CreateKeeps ==
  ASSUME LifecycleTypeOK, Ledger, Money, Mail, [Next]_vars,
         NEW s \in Slot, CheckoutCreate(s), UNCHANGED <<net, account>>
  PROVE  Money' /\ Mail'
<1> DEFINE o == req[s].order
<1>1. o \in Order /\ status[o] = "NONE"
  BY RequestSlot DEF CheckoutCreate, Continue, HasOrder
<1>2. req' = [req EXCEPT ![s] = [pc |-> "pay", order |-> o]]
  BY DEF CheckoutCreate, Continue
<1>3. status' = [status EXCEPT ![o] = "PENDING"]
  BY DEF CheckoutCreate
<1>4. UNCHANGED <<provider, net, transactionId, taken, mailed>>
  BY DEF CheckoutCreate, account
<1>5. Money'
  <2>1. status'[o] = "PENDING"
        /\ \A p \in Order : p # o => status'[p] = status[p]
    BY <1>1, <1>3 DEF LifecycleTypeOK, CheckoutTypeOK
  <2>2. provider[o] = "none"
    BY <1>1 DEF Money
  <2>3. \A t \in Slot : t # s /\ req[t].pc = "pay" => req[t].order # o
    BY <1>1 DEF Money
  <2>4. \A t \in Slot : t # s => req'[t] = req[t]
    BY <1>2 DEF LifecycleTypeOK
  <2>5. req'[s].pc = "pay" /\ req'[s].order = o
    BY <1>2 DEF LifecycleTypeOK
  <2>6. \A p \in Order :
          /\ status'[p] = "NONE" => provider'[p] = "none"
          /\ taken'[p] > 0 => transactionId'[p] # {}
          /\ \A q \in transactionId'[p] : Backs(q, p)'
          /\ <<"paid", p>> \in net' => Paid(p)'
    BY <1>4, <2>1 DEF Money, Backs, Paid, SameMethod
  <2>7. \A t \in Slot :
          /\ req'[t].pc = "confirmTx"
               => Backs(req[t].payment, req[t].order)'
          /\ req'[t].pc = "hookTx" => Paid(req[t].order)'
    BY <1>4, <2>4, <2>5 DEF Money, Backs, Paid, SameMethod
  <2>8. \A t \in Slot : req'[t].pc = "pay" => req'[t].order \in Order
    BY <1>1, <2>4, <2>5, RequestSlot DEF HasOrder
  <2>9. \A t \in Slot :
          req'[t].pc = "pay" => /\ provider'[req'[t].order] = "none"
                               /\ status'[req'[t].order] # "NONE"
    BY <1>4, <2>1, <2>2, <2>3, <2>4, <2>5, <2>8 DEF Money
  <2>10. \A t, u \in Slot :
           t # u /\ req'[t].pc = "pay" /\ req'[u].pc = "pay"
             => req'[t].order # req'[u].order
    BY <2>3, <2>4, <2>5 DEF Money
  <2> QED
    BY <2>6, <2>7, <2>9, <2>10 DEF Money
<1>6. Mail'
  BY <1>2, <1>4 DEF Mail, Notifying, LifecycleTypeOK
<1> QED
  BY <1>5, <1>6

(* Creating a payment keeps what is known of money and mail.               *)
LEMMA PayKeeps ==
  ASSUME LifecycleTypeOK, Ledger, Money, Mail, [Next]_vars,
         NEW s \in Slot, CheckoutPay(s), UNCHANGED <<net, account>>
  PROVE  Money' /\ Mail'
<1> DEFINE o == req[s].order
<1>1. o \in Order /\ req[s].pc = "pay"
  BY RequestSlot DEF CheckoutPay, Continue, HasOrder
<1>2. req' = [req EXCEPT ![s] = [pc |-> "store", order |-> o]]
  BY DEF CheckoutPay, Continue
<1>3. provider' = [provider EXCEPT ![o] = "created"]
  BY DEF CheckoutPay
<1>4. UNCHANGED <<status, net, transactionId, taken, mailed>>
  BY DEF CheckoutPay, database, account
<1>5. provider[o] = "none" /\ status[o] # "NONE" /\ ~Paid(o)
  BY <1>1 DEF Money, Paid
<1>6. \A t \in Slot : req'[t].pc = "pay" =>
        t # s /\ req'[t] = req[t] /\ req[t].order \in Order /\ req[t].order # o
  BY <1>1, <1>2, RequestSlot DEF Money, LifecycleTypeOK, HasOrder
<1>7. \A t \in Slot :
        /\ req'[t].pc = "hookTx" => /\ t # s /\ req'[t] = req[t]
                                    /\ req[t].order \in Order
                                    /\ req[t].order # o
        /\ req'[t].pc = "confirmTx" => /\ t # s /\ req'[t] = req[t]
                                       /\ req[t].payment \in Order
                                       /\ req[t].payment # o
  BY <1>1, <1>2, <1>5, RequestSlot, PaymentSlot
  DEF Money, Backs, LifecycleTypeOK, HasOrder
<1>8. \A p \in Order : p # o => provider'[p] = provider[p]
  BY <1>3 DEF LifecycleTypeOK, CheckoutTypeOK
<1>9. Money'
  <2>1. ASSUME NEW p \in Order
        PROVE  /\ status'[p] = "NONE" => provider'[p] = "none"
               /\ taken'[p] > 0 => transactionId'[p] # {}
               /\ \A q \in transactionId'[p] : Backs(q, p)'
               /\ <<"paid", p>> \in net' => Paid(p)'
    <3>1. transactionId[p] \subseteq Order
      BY DEF LifecycleTypeOK
    <3> QED
      BY <3>1, <1>4, <1>5, <1>8 DEF Money, Backs, Paid, SameMethod
  <2>2. \A t \in Slot :
          /\ req'[t].pc = "confirmTx"
               => Backs(req[t].payment, req[t].order)'
          /\ req'[t].pc = "hookTx" => Paid(req[t].order)'
          /\ req'[t].pc = "pay" => /\ provider'[req'[t].order] = "none"
                                   /\ status'[req'[t].order] # "NONE"
    BY <1>4, <1>6, <1>7, <1>8 DEF Money, Backs, Paid, SameMethod
  <2> QED
    BY <2>1, <2>2, <1>6 DEF Money
<1>10. Mail'
  BY <1>2, <1>4 DEF Mail, Notifying, LifecycleTypeOK
<1> QED
  BY <1>9, <1>10

(* The customer and the provider only add to what is paid.                 *)
LEMMA EnvironmentKeeps ==
  ASSUME LifecycleTypeOK, Ledger, Money, Mail, NEW o \in Order, Environment(o)
  PROVE  Money' /\ Mail'
<1>1. UNCHANGED <<status, req, transactionId, taken, mailed>>
  BY DEF Environment, CustomerPays, CustomerApproves, ProviderRefunds,
         ProviderResends, database, account, checkoutVars
<1>2. /\ \A p \in Order : Paid(p) => Paid(p)'
      /\ \A p \in Order : provider[p] = "none" => provider'[p] = "none"
      /\ \A p \in Order : <<"paid", p>> \in net' => Paid(p)'
  BY DEF Environment, CustomerPays, CustomerApproves, ProviderRefunds,
         ProviderResends, Send, Paid, Money, LifecycleTypeOK, CheckoutTypeOK,
         checkoutVars
<1>3. \A t \in Slot : req[t].pc \in HasOrder => req[t].order \in Order
  BY RequestSlot
<1>4. Money'
  <2>1. ASSUME NEW t \in Slot
        PROVE  /\ req'[t].pc = "confirmTx"
                    => Backs(req[t].payment, req[t].order)'
               /\ req'[t].pc = "hookTx" => Paid(req[t].order)'
               /\ req'[t].pc = "pay" => /\ provider'[req'[t].order] = "none"
                                       /\ status'[req'[t].order] # "NONE"
    BY <1>1, <1>2, <1>3, PaymentSlot DEF Money, Backs, SameMethod, HasOrder
  <2>2. ASSUME NEW p \in Order
        PROVE  /\ status'[p] = "NONE" => provider'[p] = "none"
               /\ taken'[p] > 0 => transactionId'[p] # {}
               /\ \A q \in transactionId'[p] : Backs(q, p)'
    <3>1. transactionId[p] \subseteq Order
      BY DEF LifecycleTypeOK
    <3> QED
      BY <3>1, <1>1, <1>2 DEF Money, Backs, SameMethod
  <2> QED
    BY <1>1, <1>2, <2>1, <2>2 DEF Money
<1>5. Mail'
  BY <1>1 DEF Mail
<1> QED
  BY <1>4, <1>5

(* One request moves to a place where it will confirm, or ends: payment p, *)
(* which may be collected in this step, is paid.                           *)
LEMMA ConfirmingKeeps ==
  ASSUME LifecycleTypeOK, Money, Mail, NEW s \in Slot, NEW p \in Order,
         req' = [req EXCEPT ![s] = req'[s]],
         req'[s].pc \in {"idle", "confirmTx", "hookTx"},
         req'[s].pc = "confirmTx"
           => req'[s].payment = p /\ SameMethod(req'[s].order, p),
         req'[s].pc = "hookTx" => req'[s].order = p,
         provider' = [provider EXCEPT ![p] = provider'[p]],
         provider[p] # "none", provider'[p] \in {"paid", "refunded"},
         net' \subseteq net \cup {<<"paid", p>>},
         UNCHANGED <<status, transactionId, taken, mailed>>
  PROVE  Money' /\ Mail'
<1>1. \A t \in Slot : t # s => req'[t] = req[t]
  BY DEF LifecycleTypeOK
<1>2. \A q \in Order : q # p => provider'[q] = provider[q]
  BY DEF LifecycleTypeOK, CheckoutTypeOK
<1>3. \A q \in Order :
        /\ status'[q] = "NONE" => status[q] = "NONE"
        /\ Paid(q) => provider'[q] \in {"paid", "refunded"}
        /\ provider[q] = "none" => provider'[q] = "none"
        /\ <<"paid", q>> \in net' => provider'[q] \in {"paid", "refunded"}
  BY <1>2 DEF Money, Paid
<1>4. Money'
  BY <1>1, <1>3, MoneyKept
<1>5. Mail'
  BY <1>1 DEF Mail, Notifying
<1> QED
  BY <1>4, <1>5

(* A delivered payment event belongs to a paid order.                      *)
LEMMA HookConfirmKeeps ==
  ASSUME LifecycleTypeOK, Money, Mail, NEW s \in Slot, NEW o \in Order,
         HookConfirm(s, o)
  PROVE  Money' /\ Mail'
<1> USE DEF HookConfirm, database, account
<1>1. req' = [req EXCEPT ![s] = req'[s]]
  BY DEF LifecycleTypeOK
<1>2. req'[s] = [pc |-> "hookTx", order |-> o] \/ req'[s] = Idle
  BY DEF LifecycleTypeOK
<1>3. /\ req'[s].pc \in {"idle", "confirmTx", "hookTx"}
      /\ req'[s].pc # "confirmTx"
      /\ req'[s].pc = "hookTx" => req'[s].order = o
  BY <1>2 DEF Idle
<1>4. provider[o] # "none" /\ provider'[o] \in {"paid", "refunded"}
  BY DEF Money, Paid
<1>5. /\ provider' = [provider EXCEPT ![o] = provider'[o]]
      /\ net' \subseteq net \cup {<<"paid", o>>}
      /\ UNCHANGED <<status, transactionId, taken, mailed>>
  BY DEF LifecycleTypeOK, CheckoutTypeOK, Answer
<1> QED
  BY <1>1, <1>3, <1>4, <1>5, ConfirmingKeeps

(* The Stripe intent a confirmation goes on with is a paid one.            *)
LEMMA ClientVerifyKeeps ==
  ASSUME LifecycleTypeOK, Money, Mail, NEW s \in Slot, ClientVerifyStripe(s)
  PROVE  Money' /\ Mail'
<1> USE DEF ClientVerifyStripe, database, account
<1>1. PICK p \in StripeOrder :
        /\ Paid(p)
        /\ req' = [req EXCEPT ![s] = Confirming(req[s].order, p)]
  OBVIOUS
<1>2. p \in Order /\ SameMethod(req[s].order, p)
  BY CheckoutAssumption DEF SameMethod
<1>3. /\ req' = [req EXCEPT ![s] = req'[s]]
      /\ req'[s].pc = "confirmTx" /\ req'[s].payment = p
      /\ req'[s].order = req[s].order
  BY <1>1 DEF Confirming, LifecycleTypeOK
<1>4. /\ provider' = [provider EXCEPT ![p] = provider'[p]]
      /\ provider[p] # "none" /\ provider'[p] \in {"paid", "refunded"}
      /\ net' \subseteq net \cup {<<"paid", p>>}
      /\ UNCHANGED <<status, transactionId, taken, mailed>>
  BY <1>1, <1>2 DEF Paid, LifecycleTypeOK, CheckoutTypeOK
<1> QED
  BY <1>2, <1>3, <1>4, ConfirmingKeeps

(* A captured PayPal payment is paid, whether its answer comes or is lost. *)
LEMMA ClientCaptureKeeps ==
  ASSUME LifecycleTypeOK, Money, Mail, NEW s \in Slot, ClientCapture(s)
  PROVE  Money' /\ Mail'
<1> USE DEF ClientCapture, database, account
<1>1. PICK p \in Order \ StripeOrder :
        /\ provider[p] = "approved"
        /\ provider' = [provider EXCEPT ![p] = "paid"]
        /\ Send(<<"paid", p>>)
        /\ \E answer \in {Confirming(req[s].order, p), Idle} :
             req' = [req EXCEPT ![s] = answer]
  OBVIOUS
<1>2. PICK answer \in {Confirming(req[s].order, p), Idle} :
        req' = [req EXCEPT ![s] = answer]
  BY <1>1
<1>3. req' = [req EXCEPT ![s] = req'[s]] /\ req'[s] = answer
  BY <1>2 DEF LifecycleTypeOK
<1>4. /\ req'[s].pc \in {"idle", "confirmTx"}
      /\ req'[s].pc = "confirmTx"
           => req'[s].payment = p /\ SameMethod(req'[s].order, p)
  BY <1>2, <1>3 DEF Confirming, Idle, SameMethod
<1>5. /\ provider' = [provider EXCEPT ![p] = provider'[p]]
      /\ provider[p] # "none" /\ provider'[p] \in {"paid", "refunded"}
      /\ net' \subseteq net \cup {<<"paid", p>>}
      /\ UNCHANGED <<status, transactionId, taken, mailed>>
  BY <1>1 DEF Send, LifecycleTypeOK, CheckoutTypeOK
<1> QED
  BY <1>3, <1>4, <1>5, ConfirmingKeeps

(* The transaction that confirms (the one action of both confirmations).   *)
LEMMA ConfirmTxKeeps ==
  ASSUME LifecycleTypeOK, Ledger, Money, Mail, NEW s \in Slot, NEW o \in Order,
         NEW p \in Order, req[s].pc \in {"confirmTx", "hookTx"},
         req[s].order = o, Backs(p, o), StillPending(o), Confirm(o, p),
         req' = [req EXCEPT ![s] = req'[s]], req'[s].order = o,
         req'[s].pc \in Notifying,
         UNCHANGED <<provider, net>>
  PROVE  Money' /\ Mail'
<1>1. \A t \in Slot : t # s => req'[t] = req[t]
  BY DEF LifecycleTypeOK
<1>2. /\ taken[o] = 0 /\ mailed[o] = 0
      /\ \A t \in Slot : req[t].pc \in Notifying => req[t].order # o
  BY DEF Ledger, Mail, StillPending, LifecycleTypeOK
<1>3. /\ taken'[o] = 1 /\ mailed' = mailed
      /\ \A q \in Order : q # o => taken'[q] = taken[q]
      /\ transactionId'[o] = {p}
      /\ \A q \in Order : q # o => transactionId'[q] = transactionId[q]
  BY <1>2 DEF Confirm, LifecycleTypeOK
<1>4. /\ status[o] = "PENDING" /\ status'[o] = "CONFIRMED"
      /\ \A q \in Order : q # o => status'[q] = status[q]
  BY DEF Confirm, StillPending, LifecycleTypeOK, CheckoutTypeOK
<1>5. \A t \in Slot : req[t].pc \in HasOrder => req[t].order \in Order
  BY RequestSlot
<1>6. Money'
  <2>1. ASSUME NEW q \in Order
        PROVE  /\ status'[q] = "NONE" => provider'[q] = "none"
               /\ taken'[q] > 0 => transactionId'[q] # {}
               /\ \A r \in transactionId'[q] : Backs(r, q)'
               /\ <<"paid", q>> \in net' => Paid(q)'
    <3>1. CASE q = o
      BY <1>3, <1>4, <3>1 DEF Money, Backs, Paid, SameMethod
    <3>2. CASE q # o
      BY <1>3, <1>4, <3>2 DEF Money, Backs, Paid, SameMethod
    <3> QED
      BY <3>1, <3>2
  <2>2. \A t \in Slot : req'[t].pc \in {"pay", "confirmTx", "hookTx"}
                        => t # s /\ req'[t] = req[t] /\ req[t].order \in Order
    BY <1>1, <1>5 DEF Notifying, HasOrder
  <2>3. \A t \in Slot :
          /\ req'[t].pc = "confirmTx"
               => Backs(req[t].payment, req[t].order)'
          /\ req'[t].pc = "hookTx" => Paid(req[t].order)'
          /\ req'[t].pc = "pay" => /\ provider'[req'[t].order] = "none"
                                   /\ status'[req'[t].order] # "NONE"
    BY <2>2, <1>4 DEF Money, Backs, Paid, SameMethod
  <2> QED
    BY <2>1, <2>2, <2>3 DEF Money
<1>7. Mail'
  <2>1. \A q \in Order : mailed'[q] <= taken'[q]
    BY <1>2, <1>3 DEF Mail
  <2>2. \A t \in Slot : req'[t].pc \in Notifying
          => taken'[req'[t].order] = 1 /\ mailed'[req'[t].order] = 0
    BY <1>1, <1>2, <1>3, <1>5 DEF Mail, Notifying, HasOrder
  <2>3. \A t, u \in Slot :
          t # u /\ req'[t].pc \in Notifying /\ req'[u].pc \in Notifying
            => req'[t].order # req'[u].order
    BY <1>1, <1>2 DEF Mail
  <2> QED
    BY <2>1, <2>2, <2>3 DEF Mail
<1> QED
  BY <1>6, <1>7

(* The e-mail of a request that confirmed: the slot is idle afterwards.    *)
LEMMA NotifyKeeps ==
  ASSUME LifecycleTypeOK, Ledger, Money, Mail, NEW s \in Slot, NEW o \in Order,
         req[s].pc \in Notifying, req[s].order = o,
         req' = [req EXCEPT ![s] = Idle],
         mailed' = [mailed EXCEPT ![o] = @ + 1],
         net' \subseteq net,
         UNCHANGED <<status, provider, transactionId, taken>>
  PROVE  Money' /\ Mail'
<1>1. \A t \in Slot : req'[t].pc # "idle" => t # s /\ req'[t] = req[t]
  BY DEF Idle, LifecycleTypeOK
<1>2. \A t \in Slot : req[t].pc \in HasOrder => req[t].order \in Order
  BY RequestSlot
<1>3. Money'
  <2>1. \A t \in Slot : t # s => req'[t] = req[t]
    BY DEF LifecycleTypeOK
  <2>2. req'[s].pc = "idle"
    BY DEF Idle, LifecycleTypeOK
  <2>3. \A p \in Order :
          /\ status'[p] = "NONE" => status[p] = "NONE"
          /\ Paid(p) => provider'[p] \in {"paid", "refunded"}
          /\ provider[p] = "none" => provider'[p] = "none"
          /\ <<"paid", p>> \in net' => provider'[p] \in {"paid", "refunded"}
    BY DEF Money, Paid
  <2> QED
    BY <2>1, <2>2, <2>3, MoneyKept
<1>4. /\ mailed'[o] = 1 /\ taken[o] = 1
      /\ \A p \in Order : p # o => mailed'[p] = mailed[p]
  BY DEF Mail, LifecycleTypeOK
<1>5. Mail'
  <2>1. \A p \in Order : mailed'[p] <= taken'[p]
    BY <1>4 DEF Mail
  <2>2. \A t \in Slot : req'[t].pc \in Notifying
          => /\ t # s /\ req'[t] = req[t]
             /\ req[t].order \in Order /\ req[t].order # o
    BY <1>1, <1>2 DEF Mail, Notifying, HasOrder
  <2>3. \A t \in Slot : req'[t].pc \in Notifying
          => taken'[req'[t].order] = 1 /\ mailed'[req'[t].order] = 0
    BY <1>4, <2>2 DEF Mail
  <2> QED
    BY <2>1, <2>2, <2>3 DEF Mail
<1> QED
  BY <1>3, <1>5

(* The browser's transaction confirms with the payment it verified.        *)
LEMMA ClientConfirmKeeps ==
  ASSUME LifecycleTypeOK, Ledger, Money, Mail, [Next]_vars, LifecycleTypeOK',
         NEW s \in Slot, ClientConfirmTx(s)
  PROVE  Money' /\ Mail'
<1>1. PICK o \in Order : o = req[s].order
  BY RequestSlot DEF ClientConfirmTx, HasOrder
<1>2. CASE StillPending(o)
  <2>1. req' = [req EXCEPT ![s] = [pc |-> "notify", order |-> o]]
    BY <1>1, <1>2 DEF ClientConfirmTx
  <2>2. req' = [req EXCEPT ![s] = req'[s]] /\ req'[s].order = o
        /\ req'[s].pc \in Notifying
    BY <2>1 DEF LifecycleTypeOK, Notifying
  <2>3. PICK p \in Order : p = req[s].payment
    BY PaymentSlot DEF ClientConfirmTx
  <2>4. /\ Confirm(o, p) /\ UNCHANGED <<provider, net>>
        /\ req[s].pc = "confirmTx" /\ Backs(p, o)
    BY <1>1, <1>2, <2>3 DEF ClientConfirmTx, Money
  <2> QED
    BY <1>1, <1>2, <2>2, <2>4, ConfirmTxKeeps
<1>3. CASE ~StillPending(o)
  <2>1. req' = [req EXCEPT ![s] = Idle] /\ Idle \in OrderRequests
    BY <1>1, <1>3, RequestKinds DEF ClientConfirmTx
  <2>2. Aside(s)
    BY <1>1, <1>3, <2>1 DEF ClientConfirmTx, Aside, Idle, account
  <2> QED
    BY <2>2, AsideKeeps
<1> QED
  BY <1>2, <1>3

(* The webhook's transaction confirms a paid order.                        *)
LEMMA HookConfirmTxKeeps ==
  ASSUME LifecycleTypeOK, Ledger, Money, Mail, [Next]_vars, LifecycleTypeOK',
         NEW s \in Slot, HookConfirmTx(s)
  PROVE  Money' /\ Mail'
<1>1. PICK o \in Order : o = req[s].order
  BY RequestSlot DEF HookConfirmTx, HasOrder
<1>2. CASE StillPending(o)
  <2>1. req' = [req EXCEPT ![s] = [pc |-> "hookNotify", order |-> o]]
    BY <1>1, <1>2 DEF HookConfirmTx
  <2>2. req' = [req EXCEPT ![s] = req'[s]] /\ req'[s].order = o
        /\ req'[s].pc \in Notifying
    BY <2>1 DEF LifecycleTypeOK, Notifying
  <2>3. /\ Confirm(o, o) /\ UNCHANGED <<provider, net>>
        /\ req[s].pc = "hookTx" /\ Backs(o, o)
    BY <1>1, <1>2 DEF HookConfirmTx, Money, Backs, SameMethod
  <2> QED
    BY <1>1, <1>2, <2>2, <2>3, ConfirmTxKeeps
<1>3. CASE ~StillPending(o)
  <2>1. req' = [req EXCEPT ![s] = Idle] /\ Idle \in OrderRequests
    BY <1>1, <1>3, RequestKinds DEF HookConfirmTx
  <2>2. Aside(s)
    BY <1>1, <1>3, <2>1 DEF HookConfirmTx, Aside, Idle, account, Answer
  <2> QED
    BY <2>2, AsideKeeps
<1> QED
  BY <1>2, <1>3

(* The notices are started by the one request that confirmed.              *)
LEMMA MailKeeps ==
  ASSUME LifecycleTypeOK, Ledger, Money, Mail, NEW s \in Slot,
         ClientNotify(s) \/ HookConfirmNotify(s)
  PROVE  Money' /\ Mail'
<1>1. PICK o \in Order : o = req[s].order
  BY RequestSlot DEF ClientNotify, HookConfirmNotify, Continue, HasOrder
<1>2. /\ req[s].pc \in Notifying
      /\ req' = [req EXCEPT ![s] = Idle]
      /\ mailed' = [mailed EXCEPT ![o] = @ + 1]
      /\ net' \subseteq net
      /\ UNCHANGED <<status, provider, transactionId, taken>>
  BY <1>1
  DEF ClientNotify, HookConfirmNotify, Continue, Notifying, Answer, database
<1> QED
  BY <1>1, <1>2, NotifyKeeps

(* At first no money has moved and no mail was started.                    *)
LEMMA InitMoneyMail == Init => Money /\ Mail
BY DEF Init, CheckoutInit, Idle, Money, Mail, Notifying

(* Every step keeps what is known of money and mail.                       *)
LEMMA StepMoneyMail ==
  LifecycleTypeOK /\ Ledger /\ Money /\ Mail /\ [Next]_vars => Money' /\ Mail'
<1> SUFFICES ASSUME LifecycleTypeOK, Ledger, Money, Mail, [Next]_vars
             PROVE  Money' /\ Mail'
  OBVIOUS
<1>1. LifecycleTypeOK'
  BY StepType
<1>2. CASE UNCHANGED vars
  BY <1>2
  DEF vars, checkoutVars, account, Money, Mail, Backs, Paid, SameMethod
<1>3. CASE Crash
  <2>1. \A t \in Slot : req'[t].pc = "idle"
    BY <1>3 DEF Crash, CheckoutCrash, Idle
  <2>2. UNCHANGED <<status, provider, net, transactionId, taken, mailed>>
    BY <1>3 DEF Crash, CheckoutCrash, database, account
  <2> QED
    BY <2>1, <2>2 DEF Money, Mail, Backs, Paid, SameMethod, Notifying
<1>4. ASSUME NEW o \in Order, Environment(o) PROVE Money' /\ Mail'
  BY <1>4, EnvironmentKeeps
<1>5. ASSUME NEW s \in Slot, Checkouts(s) PROVE Money' /\ Mail'
  <2>1. UNCHANGED <<net, account>>
    BY <1>5 DEF Checkouts
  <2> QED
    BY <1>1, <1>5, <2>1, CreateKeeps, PayKeeps, CheckoutIsAside, AsideKeeps
<1>6. ASSUME NEW s \in Slot, Start(s) PROVE Money' /\ Mail'
  BY <1>6, StartIsAside, AsideKeeps
<1>7. ASSUME NEW s \in Slot, Deliver(s) PROVE Money' /\ Mail'
  BY <1>1, <1>7, HookConfirmKeeps, HookRefundIsAside, AsideKeeps DEF Deliver
<1>8. ASSUME NEW s \in Slot, Payment(s) PROVE Money' /\ Mail'
  <2>1. CASE \/ ClientFails(s) \/ HookRefundTx(s)
             \/ HookRefundNotify(s) \/ HookError(s)
    BY <1>1, <2>1, PaymentIsAside, AsideKeeps
  <2>2. CASE ~(\/ ClientFails(s) \/ HookRefundTx(s)
               \/ HookRefundNotify(s) \/ HookError(s))
    BY <1>1, <1>8, <2>2, ClientVerifyKeeps, ClientCaptureKeeps,
       ClientConfirmKeeps, HookConfirmTxKeeps, MailKeeps DEF Payment
  <2> QED
    BY <2>1, <2>2
<1>9. ASSUME NEW s \in Slot, Update(s) PROVE Money' /\ Mail'
  BY <1>1, <1>9, UpdateIsAside, AsideKeeps
<1>10. CASE \/ \E o \in DelayedOrders : DelayNotice(o)
            \/ \E v \in Variant : AdminSetsStock(v)
  <2>1. UNCHANGED <<status, provider, req, net, transactionId, taken, mailed>>
    BY <1>10 DEF DelayNotice, AdminSetsStock, account
  <2> QED
    BY <2>1 DEF Money, Mail, Backs, Paid, SameMethod
<1> QED
  BY <1>2, <1>3, <1>4, <1>5, <1>6, <1>7, <1>8, <1>9, <1>10 DEF Next

(* Money and Mail hold in every reachable state.                           *)
THEOREM MoneyAndMail == Spec => [](Money /\ Mail)
BY InitMoneyMail, StepMoneyMail, TypeCorrect, LedgerCorrect, PTL DEF Spec

(* Stock is taken only against a payment of the order's method that the    *)
(* provider collected, whichever the browser named (confirmPayment and     *)
(* WebhookService.confirmOrder).                                           *)
THEOREM TakenIsCollected == Spec => []StockTakenOnlyIfCollected
<1>1. Money => StockTakenOnlyIfCollected
  BY DEF Money, Backs, StockTakenOnlyIfCollected
<1> QED
  BY <1>1, MoneyAndMail, PTL

(* The confirmation e-mail is started at most once, and only by a request  *)
(* that took the stock, whatever requests race for the order.              *)
THEOREM MailedIsConfirmed == Spec => []MailedOnlyIfConfirmed
<1>1. Mail => MailedOnlyIfConfirmed
  BY DEF Mail, MailedOnlyIfConfirmed
<1> QED
  BY <1>1, MoneyAndMail, PTL
-----------------------------------------------------------------------------
(* PayPal payments are captured once.                                      *)

(* The inductive half of CaptureConfirmsOnce: a request that will confirm  *)
(* with a payment is the only one, and no order but the payment's own has  *)
(* been confirmed with it.                                                 *)
Claims(t, p) == req[t].pc = "confirmTx" /\ req[t].payment = p

UsedOnce(p) ==
  /\ \A t, u \in Slot : Claims(t, p) /\ Claims(u, p) => t = u
  /\ \A t \in Slot, o \in Order \ {p} :
       Claims(t, p) => p \notin transactionId[o]
  /\ \A o, q \in Order \ {p} :
       p \in transactionId[o] /\ p \in transactionId[q] => o = q

Once == \A p \in Order \ StripeOrder : UsedOnce(p)

(* What a step does to claims: nothing new; a claim to a payment that is   *)
(* Stripe's or not yet collected; a claim used; a webhook's confirmation.  *)
NoneButOf(s) ==
  \A t \in Slot : t # s /\ req'[t].pc = "confirmTx" => req'[t] = req[t]

NoClaim ==
  /\ \A t \in Slot : req'[t].pc = "confirmTx" => req'[t] = req[t]
  /\ UNCHANGED transactionId

NewClaim(s, p) ==
  /\ p \in StripeOrder \/ ~Paid(p)
  /\ req'[s].pc = "confirmTx" => req'[s].payment = p
  /\ NoneButOf(s)
  /\ UNCHANGED transactionId

UsedClaim(s, o, p) ==
  /\ Claims(s, p)
  /\ req'[s].pc # "confirmTx"
  /\ NoneButOf(s)
  /\ transactionId' = [transactionId EXCEPT ![o] = {p}]

OwnConfirm(o) ==
  /\ \A t \in Slot : req'[t].pc = "confirmTx" => req'[t] = req[t]
  /\ transactionId' = [transactionId EXCEPT ![o] = {o}]

ClaimStep ==
  \/ NoClaim
  \/ \E s \in Slot, p \in Order : NewClaim(s, p)
  \/ \E s \in Slot, o \in Order, p \in Order : UsedClaim(s, o, p)
  \/ \E o \in Order : OwnConfirm(o)

(* A request of the payment parties goes on to one of these places.        *)
AfterPayment(s) ==
  {"idle", "confirmTx", "notify", "hookNotify"}
    \cup (IF HookRefundTx(s) THEN {"refundNotify"} ELSE {})

(* A step of such a request moves it alone, and only there.                *)
LEMMA PaymentSends ==
  ASSUME LifecycleTypeOK, NEW s \in Slot, Payment(s)
  PROVE  /\ \A t \in Slot : t # s => req'[t] = req[t]
         /\ req'[s].pc \in AfterPayment(s)
<1> USE DEF LifecycleTypeOK, AfterPayment, Idle, Continue
<1>1. CASE ClientVerifyStripe(s)
  <2>1. PICK p \in StripeOrder :
          req' = [req EXCEPT ![s] = Confirming(req[s].order, p)]
    BY <1>1 DEF ClientVerifyStripe
  <2> QED
    BY <2>1 DEF Confirming
<1>2. CASE ClientCapture(s)
  <2>1. PICK p \in Order \ StripeOrder :
          \E answer \in {Confirming(req[s].order, p), Idle} :
            req' = [req EXCEPT ![s] = answer]
    BY <1>2 DEF ClientCapture
  <2> QED
    BY <2>1 DEF Confirming
<1>3. CASE ClientConfirmTx(s)
  BY <1>3 DEF ClientConfirmTx
<1>4. CASE HookConfirmTx(s)
  BY <1>4 DEF HookConfirmTx
<1>5. CASE HookRefundTx(s)
  BY <1>5 DEF HookRefundTx
<1>6. CASE \/ ClientFails(s) \/ ClientNotify(s) \/ HookConfirmNotify(s)
           \/ HookRefundNotify(s) \/ HookError(s)
  BY <1>6 DEF ClientFails, ClientNotify, HookConfirmNotify, HookRefundNotify,
              HookError
<1> QED
  BY <1>1, <1>2, <1>3, <1>4, <1>5, <1>6 DEF Payment

(* The steps of the payment parties claim as ClaimStep says.               *)
LEMMA PaymentClaims ==
  ASSUME LifecycleTypeOK, NEW s \in Slot, Payment(s) PROVE ClaimStep
<1> USE DEF ClaimStep, NoneButOf, LifecycleTypeOK, account
<1>1. \A t \in Slot : t # s => req'[t] = req[t]
  BY PaymentSends
<1>2. CASE ClientVerifyStripe(s)
  <2>1. PICK p \in StripeOrder :
          req' = [req EXCEPT ![s] = Confirming(req[s].order, p)]
    BY <1>2 DEF ClientVerifyStripe
  <2>2. NewClaim(s, p)
    BY <1>1, <1>2, <2>1 DEF ClientVerifyStripe, NewClaim, Confirming
  <2> QED
    BY <2>2, CheckoutAssumption
<1>3. CASE ClientCapture(s)
  <2>1. PICK p \in Order \ StripeOrder :
          /\ provider[p] = "approved"
          /\ \E answer \in {Confirming(req[s].order, p), Idle} :
               req' = [req EXCEPT ![s] = answer]
    BY <1>3 DEF ClientCapture
  <2>2. NewClaim(s, p)
    BY <1>1, <1>3, <2>1 DEF ClientCapture, NewClaim, Confirming, Idle, Paid
  <2> QED
    BY <2>2
<1>4. CASE ClientConfirmTx(s)
  <2>1. PICK o \in Order, p \in Order :
          o = req[s].order /\ p = req[s].payment
    BY <1>4, RequestSlot, PaymentSlot DEF ClientConfirmTx, HasOrder
  <2>2. req'[s].pc \in {"idle", "notify"}
    BY <1>4 DEF ClientConfirmTx, Idle
  <2>3. CASE StillPending(o)
    <3>1. UsedClaim(s, o, p)
      BY <1>1, <1>4, <2>1, <2>2, <2>3
      DEF ClientConfirmTx, Confirm, UsedClaim, Claims
    <3> QED
      BY <3>1
  <2>4. CASE ~StillPending(o)
    BY <1>1, <1>4, <2>1, <2>2, <2>4 DEF ClientConfirmTx, NoClaim
  <2> QED
    BY <2>3, <2>4
<1>5. CASE HookConfirmTx(s)
  <2>1. PICK o \in Order : o = req[s].order
    BY <1>5, RequestSlot DEF HookConfirmTx, HasOrder
  <2>2. req'[s].pc \in {"idle", "hookNotify"}
    BY <1>5 DEF HookConfirmTx, Idle
  <2>3. CASE StillPending(o)
    <3>1. OwnConfirm(o)
      BY <1>1, <1>5, <2>1, <2>2, <2>3
      DEF HookConfirmTx, Confirm, OwnConfirm
    <3> QED
      BY <3>1
  <2>4. CASE ~StillPending(o)
    BY <1>1, <1>5, <2>1, <2>2, <2>4 DEF HookConfirmTx, NoClaim
  <2> QED
    BY <2>3, <2>4
<1>6. CASE \/ ClientFails(s) \/ ClientNotify(s) \/ HookConfirmNotify(s)
           \/ HookRefundTx(s) \/ HookRefundNotify(s) \/ HookError(s)
  <2>1. UNCHANGED transactionId
    BY <1>6 DEF ClientFails, ClientNotify, HookConfirmNotify, HookRefundTx,
                HookRefundNotify, HookError
  <2>2. req'[s].pc \in {"idle", "refundNotify"}
    BY <1>6 DEF ClientFails, ClientNotify, HookConfirmNotify, HookRefundTx,
                HookRefundNotify, HookError, Continue, Idle
  <2> QED
    BY <1>1, <2>1, <2>2 DEF NoClaim
<1> QED
  BY <1>2, <1>3, <1>4, <1>5, <1>6 DEF Payment

(* Every step claims as ClaimStep says: no other party claims a payment.   *)
LEMMA StepIsClaimStep ==
  ASSUME LifecycleTypeOK, [Next]_vars PROVE ClaimStep
<1> USE DEF account, LifecycleTypeOK
<1>1. CASE UNCHANGED vars
  BY <1>1 DEF vars, checkoutVars, ClaimStep, NoClaim
<1>2. CASE Crash
  BY <1>2 DEF Crash, CheckoutCrash, Idle, ClaimStep, NoClaim
<1>3. ASSUME NEW o \in Order, Environment(o) PROVE NoClaim
  BY <1>3 DEF Environment, CustomerPays, CustomerApproves, ProviderRefunds,
              ProviderResends, checkoutVars, NoClaim
<1>4. ASSUME NEW s \in Slot, Checkouts(s) PROVE NoClaim
  BY <1>4
  DEF Checkouts, CheckoutRequest, CheckoutStep, CheckoutStart, ApplyStart,
      CheckoutItem, CheckoutDiscount, CheckoutUseCode, CheckoutCreate,
      CheckoutPay, CheckoutStore, CheckoutFail, ApplyUse, Enter, Continue,
      Idle, NoClaim
<1>5. ASSUME NEW s \in Slot, Start(s) PROVE NoClaim
  BY <1>5 DEF Start, ClientConfirm, SellerUpdate, BulkUpdate, CarrierReport,
              Enter, NoClaim
<1>6. ASSUME NEW s \in Slot, Deliver(s) PROVE NoClaim
  BY <1>6 DEF Deliver, HookConfirm, HookRefund, NoClaim
<1>7. ASSUME NEW s \in Slot, Update(s) PROVE NoClaim
  BY <1>7
  DEF Update, SellerWrite, BulkRead, BulkWrite, BulkDone, CarrierWrite,
      WriteFails, SetStatus, Continue, Idle, NoClaim
<1>8. CASE \/ \E o \in DelayedOrders : DelayNotice(o)
           \/ \E v \in Variant : AdminSetsStock(v)
  BY <1>8 DEF DelayNotice, AdminSetsStock, ClaimStep, NoClaim
<1> QED
  BY <1>1, <1>2, <1>3, <1>4, <1>5, <1>6, <1>7, <1>8, PaymentClaims
  DEF Next, ClaimStep

(* At first no payment is claimed.                                         *)
LEMMA InitOnce == Init => Once
BY DEF Init, CheckoutInit, Idle, Once, UsedOnce, Claims

(* A payment is claimed when it is captured, and is captured once.         *)
LEMMA StepOnce ==
  ASSUME LifecycleTypeOK, Money, Once, [Next]_vars PROVE Once'
<1> USE DEF LifecycleTypeOK
<1> SUFFICES ASSUME NEW p \in Order \ StripeOrder PROVE UsedOnce(p)'
  BY DEF Once
<1>1. UsedOnce(p)
  BY DEF Once
<1>2. ~Paid(p) => /\ \A t \in Slot : ~Claims(t, p)
                  /\ \A o \in Order : p \notin transactionId[o]
  BY DEF Money, Backs, Claims
<1>3. CASE NoClaim
  BY <1>1, <1>3 DEF NoClaim, UsedOnce, Claims
<1>4. ASSUME NEW s \in Slot, NEW r \in Order, NewClaim(s, r)
      PROVE  UsedOnce(p)'
  <2>1. transactionId' = transactionId
    BY <1>4 DEF NewClaim
  <2>2. ASSUME NEW t \in Slot, Claims(t, p)'
        PROVE  Claims(t, p) \/ (t = s /\ ~Paid(p))
    BY <1>4, <2>2 DEF NewClaim, NoneButOf, Claims
  <2>3. CASE Paid(p)
    BY <1>1, <2>1, <2>2, <2>3 DEF UsedOnce
  <2>4. CASE ~Paid(p)
    BY <1>2, <2>1, <2>2, <2>4 DEF UsedOnce
  <2> QED
    BY <2>3, <2>4
<1>5. ASSUME NEW s \in Slot, NEW o \in Order, NEW r \in Order,
             UsedClaim(s, o, r)
      PROVE  UsedOnce(p)'
  <2>1. ASSUME NEW t \in Slot, Claims(t, p)' PROVE Claims(t, p) /\ t # s
    BY <1>5, <2>1 DEF UsedClaim, NoneButOf, Claims
  <2>2. \A q \in Order :
          transactionId'[q] = IF q = o THEN {r} ELSE transactionId[q]
    BY <1>5 DEF UsedClaim
  <2>3. Claims(s, r)
    BY <1>5 DEF UsedClaim
  <2> QED
    BY <1>1, <2>1, <2>2, <2>3 DEF UsedOnce
<1>6. ASSUME NEW o \in Order, OwnConfirm(o) PROVE UsedOnce(p)'
  <2>1. ASSUME NEW t \in Slot, Claims(t, p)' PROVE Claims(t, p)
    BY <1>6, <2>1 DEF OwnConfirm, Claims
  <2>2. \A q \in Order \ {p} :
          p \in transactionId'[q] => p \in transactionId[q]
    BY <1>6 DEF OwnConfirm
  <2> QED
    BY <1>1, <2>1, <2>2 DEF UsedOnce
<1> QED
  BY <1>3, <1>4, <1>5, <1>6, StepIsClaimStep DEF ClaimStep

(* A PayPal payment confirms, besides the order it was made for, at most   *)
(* one other, whatever the browsers name and race for (confirmPayment      *)
(* captures dto.paypalOrderId without looking whose it is).                *)
THEOREM CaptureIsConfirmedOnce == Spec => []CaptureConfirmsOnce
<1>1. Spec => []Once
  BY InitOnce, StepOnce, TypeCorrect, MoneyAndMail, PTL DEF Spec
<1>2. Once => CaptureConfirmsOnce
  BY DEF Once, UsedOnce, CaptureConfirmsOnce
<1> QED
  BY <1>1, <1>2, PTL

-----------------------------------------------------------------------------
(* The payment parties alone: no seller and no carrier writes a status,    *)
(* and no admin a stock.                                                   *)
PaymentsOnly ==
  SellerTargets = {} /\ CarrierReports = {} /\ StockLevels = {}

NoWriters == \A s \in Slot : req[s].pc \notin Writing \cup {"bulk"}

(* Then the status says what an order's stock has been through.            *)
Settled ==
  \A o \in Order :
    /\ status[o] \in {"NONE", "PENDING", "CONFIRMED", "REFUNDED"}
    /\ taken[o] = IF status[o] \in {"CONFIRMED", "REFUNDED"} THEN 1 ELSE 0
    /\ restored[o] = IF status[o] = "REFUNDED" THEN 1 ELSE 0

(* The requests that refund an order.  They begin while it is CONFIRMED,   *)
(* and none begins once it is REFUNDED: there are no more than slots.      *)
Refunding == {"refundTx", "refundNotify"}

RefundsOf(o) == {s \in Slot : req[s].pc \in Refunding /\ req[s].order = o}

RefundMail ==
  /\ \A s \in Slot :
       /\ req[s].pc = "refundTx"
            => status[req[s].order] \in {"CONFIRMED", "REFUNDED"}
       /\ req[s].pc = "refundNotify" => status[req[s].order] = "REFUNDED"
  /\ \A o \in Order :
       IF status[o] = "REFUNDED"
       THEN refundMailed[o] + Cardinality(RefundsOf(o)) <= Cardinality(Slot)
       ELSE refundMailed[o] = 0

(* The inductive invariant of the payment parties.                         *)
PInv == NoWriters /\ Settled /\ RefundMail

(* At first nothing was taken, refunded or mailed.                         *)
LEMMA InitPInv == Init => PInv
<1> SUFFICES ASSUME Init PROVE PInv
  OBVIOUS
<1>1. NoWriters
  BY DEF Init, CheckoutInit, NoWriters, Writing, Idle
<1>2. Settled
  BY DEF Init, CheckoutInit, Settled
<1>3. RefundMail
  BY DEF Init, CheckoutInit, RefundMail, Idle
<1> QED
  BY <1>1, <1>2, <1>3 DEF PInv

(* Sellers and carriers start nothing, so nothing of theirs is under way.  *)
LEMMA StepNoWriters ==
  ASSUME PaymentsOnly, LifecycleTypeOK, NoWriters, [Next]_vars
  PROVE  NoWriters'
<1> USE DEF NoWriters, Writing, LifecycleTypeOK
<1>1. CASE UNCHANGED vars
  BY <1>1 DEF vars, checkoutVars
<1>2. CASE Crash
  BY <1>2 DEF Crash, CheckoutCrash, Idle
<1>3. ASSUME NEW o \in Order, Environment(o) PROVE NoWriters'
  BY <1>3 DEF Environment, CustomerPays, CustomerApproves, ProviderRefunds,
              ProviderResends, checkoutVars
<1>4. ASSUME NEW s \in Slot, Checkouts(s) PROVE NoWriters'
  BY <1>4
  DEF Checkouts, CheckoutRequest, CheckoutStep, CheckoutStart, ApplyStart,
      CheckoutItem, CheckoutDiscount, CheckoutUseCode, CheckoutCreate,
      CheckoutPay, CheckoutStore, CheckoutFail, ApplyUse, Enter, Continue,
      Idle
<1>5. ASSUME NEW s \in Slot, Start(s) PROVE NoWriters'
  BY <1>5 DEF Start, PaymentsOnly, ClientConfirm, Enter
<1>6. ASSUME NEW s \in Slot, Deliver(s) PROVE NoWriters'
  BY <1>6 DEF Deliver, HookConfirm, HookRefund
<1>7. ASSUME NEW s \in Slot, Payment(s) PROVE NoWriters'
  <2>1. /\ \A t \in Slot : t # s => req'[t] = req[t]
        /\ req'[s].pc \notin Writing \cup {"bulk"}
    BY <1>7, PaymentSends DEF AfterPayment
  <2> QED
    BY <2>1
<1>8. ASSUME NEW s \in Slot, Update(s) PROVE NoWriters'
  BY <1>8
  DEF Update, SellerWrite, BulkRead, BulkWrite, BulkDone, CarrierWrite,
      WriteFails, Continue
<1>9. CASE \/ \E o \in DelayedOrders : DelayNotice(o)
           \/ \E v \in Variant : AdminSetsStock(v)
  BY <1>9 DEF DelayNotice, AdminSetsStock
<1> QED
  BY <1>1, <1>2, <1>3, <1>4, <1>5, <1>6, <1>7, <1>8, <1>9 DEF Next

(* Without writers only the checkout, a confirmation and a refund move the *)
(* status, each from the one before.                                       *)
LEMMA StepSettled ==
  ASSUME LifecycleTypeOK, NoWriters, Settled, [Next]_vars
  PROVE  Settled'
BY StepIsStatusStep
DEF StatusStep, Quiet, Adjusted, Created, Confirmed, Written, Refunded,
    Settled, NoWriters, Refundable, LifecycleTypeOK, CheckoutTypeOK

(* Most steps begin, end and mail no refund.                               *)
Calm ==
  /\ \A s \in Slot : req'[s].pc \in Refunding => req'[s] = req[s]
  /\ \A o \in Order : status'[o] = "REFUNDED" => status[o] = "REFUNDED"
  /\ UNCHANGED refundMailed

(* The three steps of a refund are the only others.                        *)
LEMMA StepIsCalm ==
  ASSUME LifecycleTypeOK, NoWriters, [Next]_vars
  PROVE  \/ Calm
         \/ \E s \in Slot : \/ \E o \in Order : HookRefund(s, o)
                            \/ HookRefundTx(s) \/ HookRefundNotify(s)
<1> USE DEF Calm, Refunding, LifecycleTypeOK, CheckoutTypeOK, database, account
<1>1. CASE UNCHANGED vars
  BY <1>1 DEF vars, checkoutVars
<1>2. CASE Crash
  BY <1>2 DEF Crash, CheckoutCrash, Idle
<1>3. ASSUME NEW o \in Order, Environment(o) PROVE Calm
  BY <1>3 DEF Environment, CustomerPays, CustomerApproves, ProviderRefunds,
              ProviderResends, checkoutVars
<1>4. ASSUME NEW s \in Slot, Checkouts(s) PROVE Calm
  BY <1>4
  DEF Checkouts, CheckoutRequest, CheckoutStep, CheckoutStart, ApplyStart,
      CheckoutItem, CheckoutDiscount, CheckoutUseCode, CheckoutCreate,
      CheckoutPay, CheckoutStore, CheckoutFail, ApplyUse, Enter, Continue,
      Idle
<1>5. ASSUME NEW s \in Slot, Start(s) PROVE Calm
  BY <1>5 DEF Start, ClientConfirm, SellerUpdate, BulkUpdate, CarrierReport,
              Enter
<1>6. ASSUME NEW s \in Slot, NEW o \in Order, HookConfirm(s, o) PROVE Calm
  BY <1>6 DEF HookConfirm
<1>7. ASSUME NEW s \in Slot, Payment(s), ~HookRefundTx(s),
             ~HookRefundNotify(s)
      PROVE  Calm
  <2>1. /\ \A t \in Slot : t # s => req'[t] = req[t]
        /\ req'[s].pc \notin Refunding
    BY <1>7, PaymentSends DEF AfterPayment
  <2>2. /\ \A o \in Order : status'[o] = "REFUNDED" => status[o] = "REFUNDED"
        /\ UNCHANGED refundMailed
    BY <1>7
    DEF Payment, ClientVerifyStripe, ClientCapture, ClientFails,
        ClientConfirmTx, ClientNotify, HookConfirmTx, HookConfirmNotify,
        HookError, Confirm, Continue, orderVars
  <2> QED
    BY <2>1, <2>2
<1>8. ASSUME NEW s \in Slot, Update(s) PROVE FALSE
  BY <1>8
  DEF Update, SellerWrite, BulkRead, BulkWrite, BulkDone, CarrierWrite,
      WriteFails, Continue, NoWriters, Writing
<1>9. CASE \/ \E o \in DelayedOrders : DelayNotice(o)
           \/ \E v \in Variant : AdminSetsStock(v)
  BY <1>9 DEF DelayNotice, AdminSetsStock
<1> QED
  BY <1>1, <1>2, <1>3, <1>4, <1>5, <1>6, <1>7, <1>8, <1>9 DEF Next, Deliver

(* The refunds of an order are some of the slots.                          *)
LEMMA RefundSlots ==
  ASSUME NEW T \in SUBSET Slot
  PROVE  /\ IsFiniteSet(T) /\ Cardinality(T) \in Nat
         /\ Cardinality(Slot) \in Nat
         /\ Cardinality(T) <= Cardinality(Slot)
  BY SlotsAssumption, FS_Subset, FS_CardinalityType

(* Statuses move on: an order that is CONFIRMED stays so or is REFUNDED,   *)
(* and a REFUNDED one stays so.                                            *)
LEMMA Onward ==
  ASSUME LifecycleTypeOK, NoWriters, [Next]_vars, NEW o \in Order
  PROVE  /\ status[o] = "REFUNDED" => status'[o] = "REFUNDED"
         /\ status[o] = "CONFIRMED" => status'[o] \in {"CONFIRMED", "REFUNDED"}
BY StepIsStatusStep
DEF StatusStep, Quiet, Adjusted, Created, Confirmed, Written, Refunded,
    NoWriters, Refundable, LifecycleTypeOK, CheckoutTypeOK

(* A calm step leaves the refund mails as they are.                        *)
LEMMA CalmKeeps ==
  ASSUME LifecycleTypeOK, NoWriters, RefundMail, [Next]_vars, Calm
  PROVE  RefundMail'
<1>1. \A s \in Slot : req'[s].pc \in Refunding =>
        req'[s] = req[s] /\ req[s].order \in Order
  BY RequestSlot DEF Calm, Refunding, HasOrder
<1>2. ASSUME NEW s \in Slot
      PROVE  /\ req'[s].pc = "refundTx"
                  => status'[req'[s].order] \in {"CONFIRMED", "REFUNDED"}
             /\ req'[s].pc = "refundNotify"
                  => status'[req'[s].order] = "REFUNDED"
  BY <1>1, Onward DEF RefundMail, Refunding
<1>3. ASSUME NEW o \in Order
      PROVE  IF status'[o] = "REFUNDED"
             THEN refundMailed'[o] + Cardinality(RefundsOf(o)')
                    <= Cardinality(Slot)
             ELSE refundMailed'[o] = 0
  <2>1. RefundsOf(o)' \in SUBSET RefundsOf(o)
    BY <1>1 DEF RefundsOf
  <2>2. /\ RefundsOf(o) \in SUBSET Slot
        /\ RefundsOf(o)' \in SUBSET Slot
    BY DEF RefundsOf
  <2>3. Cardinality(RefundsOf(o)') <= Cardinality(RefundsOf(o))
    BY <2>1, <2>2, RefundSlots, FS_Subset
  <2>4. refundMailed'[o] = refundMailed[o] /\ refundMailed[o] \in Nat
    BY DEF Calm, LifecycleTypeOK
  <2>5. status'[o] = "REFUNDED" <=> status[o] = "REFUNDED"
    BY Onward DEF Calm
  <2> QED
    BY <2>2, <2>3, <2>4, <2>5, RefundSlots DEF RefundMail
<1> QED
  BY <1>2, <1>3 DEF RefundMail

(* A refund begins while its order is CONFIRMED.                           *)
LEMMA HookRefundKeeps ==
  ASSUME LifecycleTypeOK, Settled, RefundMail,
         NEW s \in Slot, NEW o \in Order, HookRefund(s, o)
  PROVE  RefundMail'
<1> USE DEF HookRefund, database, account
<1>1. status' = status /\ refundMailed' = refundMailed
  OBVIOUS
<1>2. CASE req' = req
  BY <1>1, <1>2 DEF RefundMail, RefundsOf
<1>3. CASE /\ status[o] \in Refundable
           /\ req' = [req EXCEPT ![s] = [pc |-> "refundTx", order |-> o]]
  <2>1. status[o] = "CONFIRMED"
    BY <1>3 DEF Settled, Refundable
  <2>2. \A t \in Slot :
          req'[t] = IF t = s THEN [pc |-> "refundTx", order |-> o] ELSE req[t]
    BY <1>3 DEF LifecycleTypeOK
  <2>3. ASSUME NEW p \in Order, status[p] = "REFUNDED"
        PROVE  RefundsOf(p)' = RefundsOf(p)
    <3>1. req[s].pc \notin Refunding
      BY DEF Idle, Refunding
    <3> QED
      BY <2>1, <2>2, <2>3, <3>1 DEF RefundsOf
  <2> QED
    BY <1>1, <2>1, <2>2, <2>3 DEF RefundMail
<1> QED
  BY <1>2, <1>3

(* The transaction makes its order REFUNDED, or finds it so.               *)
LEMMA HookRefundTxKeeps ==
  ASSUME LifecycleTypeOK, RefundMail, NEW s \in Slot, HookRefundTx(s)
  PROVE  RefundMail'
<1> DEFINE o == req[s].order
<1>1. o \in Order /\ req[s].pc = "refundTx"
  BY RequestSlot DEF HookRefundTx, Continue, HasOrder
<1>2. \A t \in Slot : req'[t] = IF t = s
                                THEN [pc |-> "refundNotify", order |-> o]
                                ELSE req[t]
  BY DEF HookRefundTx, Continue, LifecycleTypeOK
<1>3. refundMailed' = refundMailed
  BY DEF HookRefundTx, account
<1>4. status[o] \in {"CONFIRMED", "REFUNDED"}
  BY <1>1 DEF RefundMail
<1>5. \A p \in Order : status'[p] = IF p = o THEN "REFUNDED" ELSE status[p]
  BY <1>1, <1>4
  DEF HookRefundTx, orderVars, Refundable, LifecycleTypeOK, CheckoutTypeOK
<1>6. \A p \in Order : RefundsOf(p)' = RefundsOf(p)
  BY <1>1, <1>2 DEF RefundsOf, Refunding
<1>7. \A t \in Slot : req[t].pc \in Refunding => req[t].order \in Order
  BY RequestSlot DEF Refunding, HasOrder
<1>8. ASSUME NEW t \in Slot
      PROVE  /\ req'[t].pc = "refundTx"
                  => status'[req'[t].order] \in {"CONFIRMED", "REFUNDED"}
             /\ req'[t].pc = "refundNotify"
                  => status'[req'[t].order] = "REFUNDED"
  BY <1>1, <1>2, <1>5, <1>7 DEF RefundMail, Refunding
<1>9. ASSUME NEW p \in Order
      PROVE  IF status'[p] = "REFUNDED"
             THEN refundMailed'[p] + Cardinality(RefundsOf(p)')
                    <= Cardinality(Slot)
             ELSE refundMailed'[p] = 0
  <2>1. RefundsOf(p) \in SUBSET Slot
    BY DEF RefundsOf
  <2> QED
    BY <1>3, <1>5, <1>6, <2>1, RefundSlots DEF RefundMail
<1> QED
  BY <1>8, <1>9 DEF RefundMail

(* A refund that mails makes room for no other.                            *)
LEMMA HookRefundNotifyKeeps ==
  ASSUME LifecycleTypeOK, RefundMail, NEW s \in Slot, HookRefundNotify(s)
  PROVE  RefundMail'
<1> DEFINE o == req[s].order
<1>1. o \in Order /\ req[s].pc = "refundNotify" /\ status[o] = "REFUNDED"
  BY RequestSlot DEF HookRefundNotify, Continue, HasOrder, RefundMail
<1>2. \A t \in Slot : req'[t] = IF t = s THEN Idle ELSE req[t]
  BY DEF HookRefundNotify, Continue, LifecycleTypeOK
<1>3. /\ status' = status
      /\ \A p \in Order : /\ refundMailed[p] \in Nat
                          /\ refundMailed'[p] = IF p = o
                               THEN refundMailed[p] + 1 ELSE refundMailed[p]
  BY <1>1 DEF HookRefundNotify, database, LifecycleTypeOK
<1>4. ASSUME NEW t \in Slot
      PROVE  /\ req'[t].pc = "refundTx"
                  => status'[req'[t].order] \in {"CONFIRMED", "REFUNDED"}
             /\ req'[t].pc = "refundNotify"
                  => status'[req'[t].order] = "REFUNDED"
  BY <1>2, <1>3 DEF RefundMail, Idle
<1>5. \A p \in Order :
        RefundsOf(p)' = IF p = o THEN RefundsOf(p) \ {s} ELSE RefundsOf(p)
  BY <1>1, <1>2 DEF RefundsOf, Refunding, Idle
<1>6. s \in RefundsOf(o)
  BY <1>1 DEF RefundsOf, Refunding
<1>7. ASSUME NEW p \in Order
      PROVE  IF status'[p] = "REFUNDED"
             THEN refundMailed'[p] + Cardinality(RefundsOf(p)')
                    <= Cardinality(Slot)
             ELSE refundMailed'[p] = 0
  <2>1. RefundsOf(p) \in SUBSET Slot
    BY DEF RefundsOf
  <2>2. /\ Cardinality(RefundsOf(p)) \in Nat /\ Cardinality(Slot) \in Nat
        /\ p = o => Cardinality(RefundsOf(p)')
                      = Cardinality(RefundsOf(p)) - 1
    BY <1>5, <1>6, <2>1, RefundSlots, FS_RemoveElement
  <2> QED
    BY <1>1, <1>3, <1>5, <2>2 DEF RefundMail
<1> QED
  BY <1>4, <1>7 DEF RefundMail

(* Every step keeps the invariant of the payment parties.                  *)
LEMMA StepPInv ==
  ASSUME PaymentsOnly, LifecycleTypeOK, PInv, [Next]_vars
  PROVE  PInv'
<1> USE DEF PInv
<1>1. NoWriters' /\ Settled'
  BY StepNoWriters, StepSettled
<1>2. RefundMail'
  BY StepIsCalm, CalmKeeps, HookRefundKeeps, HookRefundTxKeeps,
     HookRefundNotifyKeeps
<1> QED
  BY <1>1, <1>2

(* What holds of an order in every state when only the checkout, the       *)
(* browser and the provider's webhooks take part.                          *)
LEMMA PaymentInvariant ==
  ASSUME PaymentsOnly
  PROVE  Spec => [](LifecycleTypeOK /\ Moved /\ StockLedger /\ PInv)
<1>1. Init => LifecycleTypeOK /\ Moved /\ StockLedger /\ PInv
  BY InitType, InitMoved, InitPInv
<1>2. LifecycleTypeOK /\ Moved /\ StockLedger /\ PInv /\ [Next]_vars
        => (LifecycleTypeOK /\ Moved /\ StockLedger /\ PInv)'
  BY StepType, StepMoved, StepPInv DEF PaymentsOnly
<1> QED
  BY <1>1, <1>2, PTL DEF Spec

(* With the payment parties alone, a refund gives back only stock that was *)
(* taken, once, however its deliveries repeat and race (refundOrder).      *)
THEOREM RestoredIsTaken ==
  ASSUME PaymentsOnly PROVE Spec => []RestoredOnlyIfTaken
<1>1. PInv => RestoredOnlyIfTaken
  BY DEF PInv, Settled, RestoredOnlyIfTaken
<1> QED
  BY <1>1, PaymentInvariant, PTL

(* Deliveries that race for one refund send at most one e-mail for each of *)
(* the requests that ran at once, and none without the refund (the notices *)
(* of refundOrder).                                                        *)
THEOREM RefundMailsAreBounded ==
  ASSUME PaymentsOnly PROVE Spec => []RefundMailsBounded
<1>1. LifecycleTypeOK /\ PInv => RefundMailsBounded
  <2> SUFFICES ASSUME LifecycleTypeOK, PInv, NEW o \in Order
               PROVE  refundMailed[o] <= restored[o] * Cardinality(Slot)
    BY DEF RefundMailsBounded
  <2>1. RefundsOf(o) \in SUBSET Slot /\ refundMailed[o] \in Nat
    BY DEF RefundsOf, LifecycleTypeOK
  <2>2. /\ Cardinality(Slot) \in Nat
        /\ restored[o] * Cardinality(Slot) =
             IF status[o] = "REFUNDED" THEN Cardinality(Slot) ELSE 0
    BY <2>1, RefundSlots DEF PInv, Settled
  <2> QED
    BY <2>1, <2>2, RefundSlots DEF PInv, RefundMail
<1> QED
  BY <1>1, PaymentInvariant, PTL

(* With the payment parties alone every CONFIRMED order, and no other,     *)
(* holds its stock: at any moment the stock can be told from the statuses. *)
THEOREM StockIsByStatus ==
  ASSUME PaymentsOnly PROVE Spec => []StockMatchesStatus
<1>1. LifecycleTypeOK /\ Moved /\ StockLedger /\ PInv => StockMatchesStatus
  <2> SUFFICES ASSUME LifecycleTypeOK, Moved, StockLedger, PInv,
                      NEW v \in Variant
               PROVE  stock[v] = InitStock[v]
                                   - Cardinality(Units(Holding, v))
    BY DEF StockMatchesStatus
  <2>1. IsFiniteSet(Units(taken, v)) /\ IsFiniteSet(Units(restored, v))
    BY DEF Moved, Counted
  <2>2. \A o \in Order :
          /\ taken[o] \in {0, 1} /\ restored[o] \in {0, 1}
          /\ Holding[o] = IF taken[o] = 1 /\ restored[o] = 0 THEN 1 ELSE 0
          /\ restored[o] <= taken[o]
    BY DEF PInv, Settled, Holding
  <2>3. Units(restored, v) \subseteq Units(taken, v)
    BY <2>2 DEF Units
  <2>4. Units(Holding, v) = Units(taken, v) \ Units(restored, v)
    BY <2>2 DEF Units
  <2>5. Cardinality(Units(Holding, v))
          = Cardinality(Units(taken, v)) - Cardinality(Units(restored, v))
    <3>1. Units(taken, v) \cap Units(restored, v) = Units(restored, v)
      BY <2>3
    <3> QED
      BY <2>1, <2>4, <3>1, FS_Difference, ZenonT(30)
  <2>6. /\ Cardinality(Units(taken, v)) \in Nat
        /\ Cardinality(Units(restored, v)) \in Nat
        /\ InitStock[v] \in Int
    BY <2>1, FS_CardinalityType, CheckoutAssumption
  <2> QED
    BY <2>5, <2>6 DEF StockLedger
<1> QED
  BY <1>1, PaymentInvariant, PTL
=============================================================================
