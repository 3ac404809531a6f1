------------------------- MODULE OrderContractProofs ------------------------
(***************************************************************************)
(* OrderLifecycle implements OrderContract: its initial states are initial *)
(* states of the contract, and every step, seen through the orders' rows,  *)
(* the provider and the stock, is one of the contract's or a stutter.      *)
(***************************************************************************)
EXTENDS OrderPaymentProofs

-----------------------------------------------------------------------------
(* Stages: whoever writes the status of an order, and however late, it is  *)
(* processed only if it was CONFIRMED.                                     *)

(* The inductive half of ProcessedWasConfirmed: events are never removed,  *)
(* so a write checked when the order was CONFIRMED may come at any time.   *)
Stage ==
  /\ \A o \in Order :
       /\ status[o] = "NONE" => events[o] = {}
       /\ status[o] \in {"CONFIRMED", "PROCESSING"} => "CONFIRMED" \in events[o]
  /\ \A t \in Slot :
       req[t].pc \in Writing
         => /\ status[req[t].order] # "NONE"
            /\ req[t].target = "PROCESSING"
                 => "CONFIRMED" \in events[req[t].order]

(* What a step does to statuses and events: nothing; a new order; a status *)
(* with its event, PROCESSING only where CONFIRMED was; a delay notice.    *)
Staged(o) ==
  \E t \in Reachable :
    /\ t = "PROCESSING" => "CONFIRMED" \in events[o]
    /\ status' = [status EXCEPT ![o] = t]
    /\ events' = [events EXCEPT ![o] = @ \cup {t}]

Born(o) ==
  /\ status[o] = "NONE"
  /\ status' = [status EXCEPT ![o] = "PENDING"]
  /\ events' = [events EXCEPT ![o] = {"CREATED"}]

Noticed(o) ==
  /\ status[o] # "NONE"
  /\ UNCHANGED status
  /\ events' = [events EXCEPT ![o] = @ \cup {"PROCESSING"}]

EventStep ==
  \/ UNCHANGED <<status, events>>
  \/ \E o \in Order : Born(o) \/ Staged(o) \/ Noticed(o)

(* Every step leaves the stages alone, or is one order's step.             *)
LEMMA StepIsEventStep ==
  ASSUME LifecycleTypeOK, Stage, [Next]_vars PROVE EventStep
<1> USE DEF database, account, EventStep
<1>0. ASSUME NEW s \in Slot, req[s].pc \in HasOrder PROVE req[s].order \in Order
  BY <1>0, RequestOrder DEF LifecycleTypeOK
<1>1. CASE UNCHANGED vars
  BY <1>1 DEF vars, checkoutVars
<1>2. CASE Crash
  BY <1>2 DEF Crash, CheckoutCrash
<1>3. ASSUME NEW o \in Order, Environment(o) PROVE EventStep
  BY <1>3 DEF Environment, CustomerPays, CustomerApproves, ProviderRefunds,
              ProviderResends, checkoutVars
<1>4. ASSUME NEW s \in Slot, Checkouts(s) PROVE EventStep
  <2>1. CASE CheckoutCreate(s)
    <3>1. req[s].order \in Order
      BY <1>0, <2>1 DEF CheckoutCreate, Continue, HasOrder
    <3>2. Born(req[s].order)
      BY <1>4, <2>1 DEF CheckoutCreate, Checkouts, Born
    <3> QED
      BY <3>1, <3>2
  <2>2. CASE ~CheckoutCreate(s)
    BY <1>4, <2>2
    DEF Checkouts, CheckoutRequest, CheckoutStep, CheckoutStart, ApplyStart,
        CheckoutItem, CheckoutDiscount, CheckoutUseCode, CheckoutPay,
        CheckoutStore, CheckoutFail, ApplyUse
  <2> QED
    BY <2>1, <2>2
<1>5. ASSUME NEW s \in Slot, Start(s) PROVE EventStep
  BY <1>5 DEF Start, ClientConfirm, SellerUpdate, BulkUpdate, CarrierReport
<1>6. ASSUME NEW s \in Slot, Deliver(s) PROVE EventStep
  BY <1>6 DEF Deliver, HookConfirm, HookRefund
<1>7. ASSUME NEW s \in Slot, Payment(s) PROVE EventStep
  <2>1. CASE ClientConfirmTx(s) \/ HookConfirmTx(s) \/ HookRefundTx(s)
    <3>1. req[s].order \in Order
      BY <1>0, <2>1
      DEF ClientConfirmTx, HookConfirmTx, HookRefundTx, Continue, HasOrder
    <3>2. Staged(req[s].order) \/ UNCHANGED <<status, events>>
      BY <2>1
      DEF ClientConfirmTx, HookConfirmTx, HookRefundTx, Confirm, Staged,
          Reachable, OrderStatuses, orderVars
    <3> QED
      BY <3>1, <3>2
  <2>2. CASE ~(ClientConfirmTx(s) \/ HookConfirmTx(s) \/ HookRefundTx(s))
    BY <1>7, <2>2
    DEF Payment, ClientVerifyStripe, ClientCapture, ClientFails,
        ClientNotify, HookConfirmNotify, HookRefundNotify, HookError
  <2> QED
    BY <2>1, <2>2
<1>8. ASSUME NEW s \in Slot, Update(s) PROVE EventStep
  <2>1. CASE BulkRead(s) \/ BulkDone(s) \/ WriteFails(s)
    BY <2>1 DEF BulkRead, BulkDone, WriteFails
  <2>2. CASE SellerWrite(s) \/ BulkWrite(s) \/ CarrierWrite(s)
    <3>1. /\ req[s].pc \in {"sellerWrite", "bulkWrite", "carrierWrite"}
          /\ SetStatus(req[s].order, req[s].target)
      BY <2>2 DEF SellerWrite, BulkWrite, CarrierWrite, Continue
    <3>2. req[s].order \in Order
      BY <1>0, <3>1 DEF HasOrder
    <3>3. req[s].target \in Reachable
      BY <3>1, RequestTarget DEF LifecycleTypeOK
    <3>4. req[s].target = "PROCESSING" => "CONFIRMED" \in events[req[s].order]
      BY <3>1 DEF Stage, Writing
    <3> QED
      BY <3>1, <3>2, <3>3, <3>4 DEF SetStatus, Staged
  <2> QED
    BY <1>8, <2>1, <2>2 DEF Update
<1>9. ASSUME NEW o \in DelayedOrders, DelayNotice(o) PROVE EventStep
  <2>1. o \in Order /\ Noticed(o)
    BY <1>9, LifecycleAssumption DEF DelayNotice, Noticed
  <2> QED
    BY <2>1
<1>10. ASSUME NEW v \in Variant, AdminSetsStock(v) PROVE EventStep
  BY <1>10 DEF AdminSetsStock
<1> QED
  BY <1>1, <1>2, <1>3, <1>4, <1>5, <1>6, <1>7, <1>8, <1>9, <1>10 DEF Next

(* A request about to write is an old one, or has just seen the order, and *)
(* CONFIRMED before PROCESSING, in a step that changes no row.             *)
Checked(t) ==
  \/ req'[t] = req[t]
  \/ /\ req'[t].order \in Order /\ status[req'[t].order] # "NONE"
     /\ req'[t].target = "PROCESSING" => status[req'[t].order] = "CONFIRMED"
     /\ UNCHANGED <<status, events>>

(* A write still to come was pending before, or is checked in this step.   *)
LEMMA WritesAreChecked ==
  ASSUME LifecycleTypeOK, [Next]_vars, NEW t \in Slot, req'[t].pc \in Writing
  PROVE  Checked(t)
<1> USE DEF database, Checked
<1>1. CASE UNCHANGED vars
  BY <1>1 DEF vars, checkoutVars
<1>2. CASE Crash
  BY <1>2 DEF Crash, CheckoutCrash, Idle, Writing
<1>3. ASSUME NEW o \in Order, Environment(o) PROVE Checked(t)
  BY <1>3 DEF Environment, CustomerPays, CustomerApproves, ProviderRefunds,
              ProviderResends, checkoutVars
<1>4. ASSUME NEW s \in Slot, Checkouts(s) PROVE Checked(t)
  BY <1>4
  DEF Checkouts, CheckoutRequest, CheckoutStep, CheckoutStart, ApplyStart,
      CheckoutItem, CheckoutDiscount, CheckoutUseCode, CheckoutCreate,
      CheckoutPay, CheckoutStore, CheckoutFail, ApplyUse, Enter, Continue,
      Idle, Writing, LifecycleTypeOK
<1>5. ASSUME NEW s \in Slot, Start(s) PROVE Checked(t)
  <2>1. ASSUME NEW o \in Order, NEW u \in SellerTargets, SellerUpdate(s, o, u)
        PROVE  Checked(t)
    <3>1. u = "PROCESSING" => status[o] = "CONFIRMED"
      BY <2>1
      DEF SellerUpdate, canTransition, ORDER_TRANSITIONS, LifecycleTypeOK,
          CheckoutTypeOK, OrderStatuses
    <3> QED
      BY <2>1, <3>1 DEF SellerUpdate, Enter, LifecycleTypeOK
  <2>2. ASSUME NEW o \in Order, NEW r \in CarrierReports,
               CarrierReport(s, o, r)
        PROVE  Checked(t)
    <3>1. r # "PROCESSING"
      BY LifecycleAssumption
    <3> QED
      BY <2>2, <3>1 DEF CarrierReport, Enter, LifecycleTypeOK
  <2>3. ASSUME NEW o \in Order, ClientConfirm(s, o) PROVE Checked(t)
    BY <2>3 DEF ClientConfirm, Enter, Writing, LifecycleTypeOK
  <2>4. ASSUME NEW os \in SUBSET Order, NEW u \in SellerTargets,
               BulkUpdate(s, os, u)
        PROVE  Checked(t)
    BY <2>4 DEF BulkUpdate, Enter, Writing, LifecycleTypeOK
  <2> QED
    BY <1>5, <2>1, <2>2, <2>3, <2>4 DEF Start
<1>6. ASSUME NEW s \in Slot, Deliver(s) PROVE Checked(t)
  BY <1>6 DEF Deliver, HookConfirm, HookRefund, Writing, LifecycleTypeOK
<1>7. ASSUME NEW s \in Slot, Payment(s) PROVE Checked(t)
  BY <1>7, PaymentSends DEF AfterPayment, Writing
<1>8. ASSUME NEW s \in Slot, Update(s) PROVE Checked(t)
  <2>1. CASE BulkRead(s)
    <3>1. PICK o \in req[s].todo :
            req'[s] = IF status[o] \notin {"NONE", req[s].target}
                         /\ canTransition(status[o], req[s].target)
                      THEN [pc |-> "bulkWrite", order |-> o,
                            todo |-> req[s].todo \ {o},
                            target |-> req[s].target]
                      ELSE [pc |-> "bulk", todo |-> req[s].todo \ {o},
                            target |-> req[s].target]
      BY <2>1 DEF BulkRead, LifecycleTypeOK
    <3>2. o \in Order
      BY <2>1, <3>1, RequestBulk DEF BulkRead, LifecycleTypeOK
    <3>3. canTransition(status[o], "PROCESSING") /\ status[o] # "NONE"
            => status[o] = "CONFIRMED"
      BY <3>2
      DEF canTransition, ORDER_TRANSITIONS, LifecycleTypeOK, CheckoutTypeOK,
          OrderStatuses
    <3>4. t # s => req'[t] = req[t]
      BY <2>1 DEF BulkRead, LifecycleTypeOK
    <3>5. UNCHANGED <<status, events>>
      BY <2>1 DEF BulkRead
    <3>6. CASE t = s
      BY <3>1, <3>2, <3>3, <3>5, <3>6 DEF Writing
    <3> QED
      BY <3>4, <3>6
  <2>2. CASE ~BulkRead(s)
    BY <1>8, <2>2
    DEF Update, SellerWrite, BulkWrite, BulkDone, CarrierWrite, WriteFails,
        Continue, Idle, Writing, LifecycleTypeOK
  <2> QED
    BY <2>1, <2>2
<1>9. CASE \/ \E o \in DelayedOrders : DelayNotice(o)
           \/ \E v \in Variant : AdminSetsStock(v)
  BY <1>9 DEF DelayNotice, AdminSetsStock
<1> QED
  BY <1>1, <1>2, <1>3, <1>4, <1>5, <1>6, <1>7, <1>8, <1>9 DEF Next

(* At first no order has reached a stage.                                  *)
LEMMA InitStage == Init => Stage
BY DEF Init, CheckoutInit, Idle, Stage, Writing

(* Every step keeps the stages in order.                                   *)
LEMMA StepStage ==
  LifecycleTypeOK /\ Stage /\ [Next]_vars => Stage'
<1> SUFFICES ASSUME LifecycleTypeOK, Stage, [Next]_vars PROVE Stage'
  OBVIOUS
<1>1. EventStep
  BY StepIsEventStep
<1>2. \A o \in Order :
        /\ status'[o] = "NONE" => events'[o] = {}
        /\ status'[o] \in {"CONFIRMED", "PROCESSING"}
             => "CONFIRMED" \in events'[o]
        /\ "CONFIRMED" \in events[o] => "CONFIRMED" \in events'[o]
        /\ status'[o] = "NONE" => status[o] = "NONE"
  BY <1>1
  DEF EventStep, Born, Staged, Noticed, Stage, Reachable, OrderStatuses,
      LifecycleTypeOK, CheckoutTypeOK
<1>3. ASSUME NEW t \in Slot, req'[t].pc \in Writing
      PROVE  /\ status'[req'[t].order] # "NONE"
             /\ req'[t].target = "PROCESSING"
                  => "CONFIRMED" \in events'[req'[t].order]
  <2>1. Checked(t)
    BY <1>3, WritesAreChecked
  <2>2. req'[t] = req[t] => req[t].order \in Order
    BY <1>3, RequestOrder DEF LifecycleTypeOK, Writing, HasOrder
  <2> QED
    BY <1>2, <1>3, <2>1, <2>2 DEF Checked, Stage
<1> QED
  BY <1>2, <1>3 DEF Stage

(* An order is PROCESSING only if it was CONFIRMED once, whoever writes    *)
(* its status over which other (updateOrderStatus, bulkUpdateStatus,       *)
(* handleStatusUpdate check a status they read before) and whatever events *)
(* a delay notice adds.                                                    *)
THEOREM ProcessedIsConfirmed == Spec => []ProcessedWasConfirmed
<1>1. Stage => ProcessedWasConfirmed
  BY DEF Stage, ProcessedWasConfirmed
<1> QED
  BY <1>1, InitStage, StepStage, TypeCorrect, PTL DEF Spec

-----------------------------------------------------------------------------
(* Refinement.                                                             *)

paid == {o \in Order : Paid(o)}

Seen == <<status, paid, transactionId, stock>>

(* Collecting the money of one order adds that order to paid.              *)
LEMMA CollectsOne ==
  ASSUME LifecycleTypeOK, Money, NEW o \in Order,
         provider[o] \in {"created", "approved"},
         provider' = [provider EXCEPT ![o] = "paid"],
         UNCHANGED <<status, transactionId, stock>>
  PROVE  Contract!Collect(o)
<1>1. status[o] # "NONE" /\ ~Paid(o)
  BY DEF Money, Paid
<1>2. paid' = paid \cup {o}
  BY DEF paid, Paid, LifecycleTypeOK, CheckoutTypeOK
<1> QED
  BY <1>1, <1>2 DEF Contract!Collect, paid

(* A change of one payment that collects no money leaves paid as it was.   *)
LEMMA PaidKept ==
  ASSUME LifecycleTypeOK, NEW o \in Order, NEW p \in PaymentStates,
         provider' = [provider EXCEPT ![o] = p],
         Paid(o) <=> p \in {"paid", "refunded"}
  PROVE  paid' = paid
BY DEF paid, Paid, LifecycleTypeOK, CheckoutTypeOK

(* The paid orders follow from the provider alone.                         *)
LEMMA SamePaid == UNCHANGED provider => paid' = paid
BY DEF paid, Paid

(* A confirmation that rests on a collected payment is the contract's.     *)
LEMMA ConfirmIsContracts ==
  ASSUME LifecycleTypeOK, NEW o \in Order, NEW p \in Order, Backs(p, o),
         StillPending(o), Confirm(o, p), UNCHANGED provider
  PROVE  Contract!Confirm(o)
<1>1. p \in paid /\ (o \in StripeOrder <=> p \in StripeOrder)
  BY DEF Backs, paid, SameMethod
<1>2. transactionId' = [transactionId EXCEPT ![o] = {p}]
  BY DEF Confirm
<1>3. /\ status[o] = "PENDING"
      /\ status' = [status EXCEPT ![o] = "CONFIRMED"]
      /\ stock' = [v \in Variant |-> stock[v] + (-1) * Cart[o][v]]
  BY DEF Confirm, StillPending, MoveStock
<1>4. paid' = paid
  BY SamePaid
<1> QED
  BY <1>1, <1>2, <1>3, <1>4
  DEF Contract!Confirm, Contract!SetTo, Contract!Move, paid

(* The contract's step for each step that changes what is seen.            *)
ContractStep == [Contract!Next]_Seen

(* Every step of the lifecycle is a step of the contract, or stutters.     *)
LEMMA StepIsContractStep ==
  ASSUME LifecycleTypeOK, Money, Stage, [Next]_vars PROVE ContractStep
<1> USE DEF database, account, ContractStep, Seen
<1>0. ASSUME NEW s \in Slot, req[s].pc \in HasOrder PROVE req[s].order \in Order
  BY <1>0, RequestSlot
<1>1. CASE UNCHANGED vars
  BY <1>1, SamePaid DEF vars, checkoutVars
<1>2. CASE Crash
  BY <1>2, SamePaid DEF Crash, CheckoutCrash
<1>3. ASSUME NEW o \in Order, Environment(o) PROVE ContractStep
  <2>1. CASE CustomerPays(o)
    BY <2>1, CollectsOne DEF CustomerPays, Contract!Next
  <2>2. CASE CustomerApproves(o)
    BY <2>2, PaidKept DEF CustomerApproves, Paid, PaymentStates
  <2>3. CASE ProviderRefunds(o)
    BY <2>3, PaidKept DEF ProviderRefunds, Paid, PaymentStates
  <2>4. CASE ProviderResends(o)
    BY <2>4, SamePaid DEF ProviderResends, checkoutVars
  <2> QED
    BY <1>3, <2>1, <2>2, <2>3, <2>4 DEF Environment
<1>4. ASSUME NEW s \in Slot, Checkouts(s) PROVE ContractStep
  <2>1. CASE CheckoutCreate(s)
    <3>1. PICK o \in Order : o = req[s].order
      BY <1>0, <2>1 DEF CheckoutCreate, Continue, HasOrder
    <3>2. Contract!Place(o)
      BY <1>4, <2>1, <3>1, SamePaid
      DEF Checkouts, CheckoutCreate, Contract!Place, Contract!SetTo, paid
    <3> QED
      BY <3>2 DEF Contract!Next
  <2>2. CASE CheckoutPay(s)
    <3>1. PICK o \in Order : o = req[s].order
      BY <1>0, <2>2 DEF CheckoutPay, Continue, HasOrder
    <3>2. ~Paid(o)
      BY <2>2, <3>1 DEF CheckoutPay, Continue, Money, Paid
    <3>3. paid' = paid
      BY <2>2, <3>1, <3>2, PaidKept DEF CheckoutPay, PaymentStates
    <3> QED
      BY <1>4, <2>2, <3>3 DEF Checkouts, CheckoutPay
  <2>3. CASE ~CheckoutCreate(s) /\ ~CheckoutPay(s)
    <3>1. UNCHANGED <<status, provider, transactionId, stock>>
      BY <1>4, <2>3
      DEF Checkouts, CheckoutRequest, CheckoutStep, CheckoutStart, ApplyStart,
          CheckoutItem, CheckoutDiscount, CheckoutUseCode, CheckoutStore,
          CheckoutFail, ApplyUse
    <3> QED
      BY <3>1, SamePaid
  <2> QED
    BY <2>1, <2>2, <2>3
<1>5. ASSUME NEW s \in Slot, Start(s) \/ Deliver(s) PROVE ContractStep
  <2>1. UNCHANGED <<status, provider, transactionId, stock>>
    BY <1>5 DEF Start, ClientConfirm, SellerUpdate, BulkUpdate, CarrierReport,
                Deliver, HookConfirm, HookRefund
  <2> QED
    BY <2>1, SamePaid
<1>6. ASSUME NEW s \in Slot, Payment(s) PROVE ContractStep
  <2>1. CASE ClientConfirmTx(s) \/ HookConfirmTx(s)
    <3>1. PICK o \in Order : o = req[s].order
      BY <1>0, <2>1 DEF ClientConfirmTx, HookConfirmTx, HasOrder
    <3>2. UNCHANGED provider
      BY <2>1 DEF ClientConfirmTx, HookConfirmTx
    <3>3. CASE ClientConfirmTx(s) /\ StillPending(o)
      <4>1. PICK p \in Order : p = req[s].payment
        BY <3>3, PaymentSlot DEF ClientConfirmTx
      <4>2. Backs(p, o) /\ Confirm(o, p)
        BY <3>1, <3>3, <4>1 DEF ClientConfirmTx, Money
      <4> QED
        BY <3>2, <3>3, <4>2, ConfirmIsContracts DEF Contract!Next
    <3>4. CASE HookConfirmTx(s) /\ StillPending(o)
      <4>1. Backs(o, o) /\ Confirm(o, o)
        BY <3>1, <3>4 DEF HookConfirmTx, Money, Backs, SameMethod
      <4> QED
        BY <3>2, <3>4, <4>1, ConfirmIsContracts DEF Contract!Next
    <3>5. CASE ~StillPending(o)
      BY <2>1, <3>1, <3>2, <3>5, SamePaid
      DEF ClientConfirmTx, HookConfirmTx, orderVars
    <3> QED
      BY <2>1, <3>3, <3>4, <3>5
  <2>2. CASE HookRefundTx(s)
    <3>1. PICK o \in Order : o = req[s].order
      BY <1>0, <2>2 DEF HookRefundTx, Continue, HasOrder
    <3>2. CASE status[o] \in Refundable
      <4>1. Contract!Refund(o)
        BY <2>2, <3>1, <3>2, SamePaid
        DEF HookRefundTx, Refundable, MoveStock, Contract!Refundable,
            Contract!Refund, Contract!SetTo, Contract!Move, paid
      <4> QED
        BY <4>1 DEF Contract!Next
    <3>3. CASE status[o] \notin Refundable
      BY <2>2, <3>1, <3>3, SamePaid DEF HookRefundTx, orderVars
    <3> QED
      BY <3>2, <3>3
  <2>3. CASE ClientCapture(s)
    <3>1. PICK p \in Order \ StripeOrder :
            /\ provider[p] = "approved"
            /\ provider' = [provider EXCEPT ![p] = "paid"]
      BY <2>3 DEF ClientCapture
    <3>2. UNCHANGED <<status, transactionId, stock>>
      BY <2>3 DEF ClientCapture
    <3>3. Contract!Collect(p)
      BY <3>1, <3>2, CollectsOne
    <3> QED
      BY <3>3 DEF Contract!Next
  <2>4. CASE \/ ClientVerifyStripe(s) \/ ClientFails(s)
             \/ ClientNotify(s) \/ HookConfirmNotify(s)
             \/ HookRefundNotify(s) \/ HookError(s)
    <3>1. UNCHANGED <<status, provider, transactionId, stock>>
      BY <2>4 DEF ClientVerifyStripe, ClientFails, ClientNotify,
                  HookConfirmNotify, HookRefundNotify, HookError
    <3> QED
      BY <3>1, SamePaid
  <2> QED
    BY <1>6, <2>1, <2>2, <2>3, <2>4 DEF Payment
<1>7. ASSUME NEW s \in Slot, Update(s) PROVE ContractStep
  <2>1. CASE BulkRead(s) \/ BulkDone(s) \/ WriteFails(s)
    BY <2>1, SamePaid DEF BulkRead, BulkDone, WriteFails
  <2>2. CASE SellerWrite(s) \/ BulkWrite(s) \/ CarrierWrite(s)
    <3>1. /\ req[s].pc \in Writing
          /\ SetStatus(req[s].order, req[s].target)
      BY <2>2 DEF SellerWrite, BulkWrite, CarrierWrite, Continue, Writing
    <3>2. PICK o \in Order : o = req[s].order
      BY <1>0, <3>1 DEF Writing, HasOrder
    <3>3. req[s].target \in Contract!Later
      BY <3>1, RequestTarget
      DEF Writing, Reachable, OrderStatuses, Contract!Later,
          Contract!Refundable, LifecycleTypeOK
    <3>4. status[o] # "NONE"
      BY <3>1, <3>2 DEF Stage
    <3>5. Contract!Write(o)
      BY <3>1, <3>2, <3>3, <3>4, SamePaid
      DEF SetStatus, Contract!Write, Contract!SetTo, paid
    <3> QED
      BY <3>5 DEF Contract!Next
  <2> QED
    BY <1>7, <2>1, <2>2 DEF Update
<1>8. ASSUME NEW o \in DelayedOrders, DelayNotice(o) PROVE ContractStep
  BY <1>8, SamePaid DEF DelayNotice
<1>9. ASSUME NEW v \in Variant, AdminSetsStock(v) PROVE ContractStep
  <2>1. Contract!Adjust(v)
    BY <1>9, SamePaid DEF AdminSetsStock, Contract!Adjust, paid
  <2> QED
    BY <2>1 DEF Contract!Next
<1> QED
  BY <1>1, <1>2, <1>3, <1>4, <1>5, <1>6, <1>7, <1>8, <1>9 DEF Next

(* The first states of the lifecycle are the contract's.                   *)
LEMMA InitIsContractInit == Init => Contract!Init
<1> SUFFICES ASSUME Init PROVE Contract!Init
  OBVIOUS
<1>1. {o \in Order : Paid(o)} = {}
  BY DEF Init, CheckoutInit, Paid
<1> QED
  BY <1>1 DEF Init, CheckoutInit, Contract!Init

(* Stock, money and status change only as if every operation were atomic,  *)
(* whatever the interleaving of handlers, deliveries and crashes.          *)
THEOREM ContractIsKept == Spec => ContractKept
<1>1. LifecycleTypeOK /\ Money /\ Stage /\ [Next]_vars
        => [Contract!Next]_Contract!contractVars
  BY StepIsContractStep
  DEF ContractStep, Seen, paid, Contract!contractVars
<1>2. Spec => []Stage
  BY InitStage, StepStage, TypeCorrect, PTL DEF Spec
<1>3. Spec => []Money
  BY MoneyAndMail, PTL
<1> QED
  BY <1>1, <1>2, <1>3, InitIsContractInit, TypeCorrect, PTL
  DEF Spec, ContractKept, Contract!Spec
=============================================================================
