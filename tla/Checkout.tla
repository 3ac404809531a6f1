------------------------------ MODULE Checkout ------------------------------
(***************************************************************************)
(* The storefront checkout of the API (apps/api/src/storefront, with the   *)
(* discount codes of apps/api/src/email-marketing): how a cart becomes a   *)
(* PENDING order with a payment to collect.                                *)
(*                                                                         *)
(* A request is a record held in a slot of the API process.  Every await   *)
(* of the handler is a place where another request may run, so each        *)
(* database or gateway call is an action of its own and the record carries *)
(* what the handler read before it.  The process may crash: every request  *)
(* in flight is lost, the database and the payment provider keep theirs.   *)
(*                                                                         *)
(* The shared state (the order, variant, discount and discount_code rows,  *)
(* and the provider) is declared here; OrderLifecycle extends this module  *)
(* with what happens to the order afterwards.                              *)
(***************************************************************************)
EXTENDS Integers, FiniteSets

CONSTANTS
  Order,        \* identifiers of orders; a checkout creates one
  Variant,      \* product variants with a stock
  Slot,         \* requests the API executes at the same time
  StripeOrder,  \* the orders paid with Stripe; the others use PayPal
  Cart,         \* Cart[o][v]: the quantity of variant v in order o
  LargestLine,  \* LargestLine[o][v]: the largest line of v in that cart
  InitStock,    \* stock of each variant before the first order
  Backorder,    \* variants whose product allows out-of-stock purchase
  Discount,     \* sellpage discounts
  Code,         \* recovery discount codes
  NoDiscount,   \* a checkout without a discount, or without a code
  DiscountOf,   \* the discountId each checkout sends
  CodeOf,       \* the discountCode each checkout sends
  UsageLimit,   \* usageLimit of each sellpage discount
  MaxUses,      \* maxUses of each code
  MaxCrashes    \* bound: crashes of the API process

ASSUME CheckoutAssumption ==
  /\ StripeOrder \subseteq Order
  /\ Cart \in [Order -> [Variant -> Nat]]
  /\ LargestLine \in [Order -> [Variant -> Nat]]
  /\ \A o \in Order, v \in Variant : LargestLine[o][v] <= Cart[o][v]
  /\ InitStock \in [Variant -> Int]
  /\ Backorder \subseteq Variant
  /\ NoDiscount \notin Discount \cup Code
  /\ DiscountOf \in [Order -> Discount \cup {NoDiscount}]
  /\ CodeOf \in [Order -> Code \cup {NoDiscount}]
  /\ UsageLimit \in [Discount -> Nat \ {0}]
  /\ MaxUses \in [Code -> Nat \ {0}]
  /\ MaxCrashes \in Nat

(* One process has finitely many requests in flight.                       *)
ASSUME SlotsAssumption == IsFiniteSet(Slot)

VARIABLES
  status,     \* Order.status, or "NONE" before the row exists
  events,     \* the event types among the OrderEvent rows of each order
  paymentId,  \* is Order.paymentId set?
  reduced,    \* what reduced the price: "code", "discount" or "nothing"
  stock,      \* ProductVariant.stockQuantity
  uses,       \* Discount.uses
  usedCount,  \* DiscountCode.usedCount
  provider,   \* the payment of the order at Stripe or PayPal
  req,        \* the request each slot of the API executes
  crashes     \* crashes so far

checkoutVars ==
  <<status, events, paymentId, reduced, stock, uses, usedCount, provider,
    req, crashes>>

database == <<status, events, paymentId, reduced, stock, uses, usedCount>>

OrderStatuses ==
  {"PENDING", "CONFIRMED", "PROCESSING", "SHIPPED", "DELIVERED",
   "CANCELLED", "REFUNDED"}

EventTypes == (OrderStatuses \ {"PENDING"}) \cup {"CREATED"}

PaymentStates == {"none", "created", "approved", "paid", "refunded"}

Reductions == {"nothing", "code", "discount"}

Idle == [pc |-> "idle"]

CheckoutRequests ==
  {Idle}
    \cup [pc : {"items"}, order : Order, todo : SUBSET Variant]
    \cup [pc : {"useCode", "pay", "store"}, order : Order]
    \cup [pc : {"create"}, order : Order, cut : Reductions]
    \cup [pc : {"applyUse"}, code : Code]

CheckoutTypeOK ==
  /\ status \in [Order -> OrderStatuses \cup {"NONE"}]
  /\ events \in [Order -> SUBSET EventTypes]
  /\ paymentId \in [Order -> BOOLEAN]
  /\ reduced \in [Order -> Reductions]
  /\ stock \in [Variant -> Int]
  /\ uses \in [Discount -> Nat]
  /\ usedCount \in [Code -> Nat]
  /\ provider \in [Order -> PaymentStates]
  /\ crashes \in 0 .. MaxCrashes

(* The type invariant of the checkout: every row, the provider and every   *)
(* request record stay within the shapes the code can give them.           *)
TypeOK ==
  /\ CheckoutTypeOK
  /\ req \in [Slot -> CheckoutRequests]

CheckoutInit ==
  /\ status = [o \in Order |-> "NONE"]
  /\ events = [o \in Order |-> {}]
  /\ paymentId = [o \in Order |-> FALSE]
  /\ reduced = [o \in Order |-> "nothing"]
  /\ stock = InitStock
  /\ uses = [d \in Discount |-> 0]
  /\ usedCount = [c \in Code |-> 0]
  /\ provider = [o \in Order |-> "none"]
  /\ req = [s \in Slot |-> Idle]
  /\ crashes = 0

Enter(s, r) == req[s] = Idle /\ req' = [req EXCEPT ![s] = r]

Continue(s, pc, r) == req[s].pc = pc /\ req' = [req EXCEPT ![s] = r]

CheckingOut(o) ==
  \E s \in Slot : /\ req[s].pc \in {"items", "useCode", "create"}
                  /\ req[s].order = o

-----------------------------------------------------------------------------
(* POST /checkout: the seller and a PUBLISHED sellpage are found.          *)
CheckoutStart(s, o) ==
  /\ status[o] = "NONE" /\ ~CheckingOut(o)
  /\ Enter(s, [pc |-> "items", order |-> o,
               todo |-> {v \in Variant : Cart[o][v] > 0}])
  /\ UNCHANGED <<database, provider, crashes>>

(* Every line of the cart is compared alone: the largest decides.          *)
InStock(o, v) == v \in Backorder \/ stock[v] >= LargestLine[o][v]

(* The lines of a variant are priced: its stock is read and compared with  *)
(* their quantities; nothing is reserved.                                  *)
CheckoutItem(s) ==
  /\ req[s].pc = "items"
  /\ \E v \in req[s].todo :
       req' = [req EXCEPT ![s] =
                 IF InStock(req[s].order, v)
                 THEN [pc |-> "items", order |-> req[s].order,
                       todo |-> req[s].todo \ {v}]
                 ELSE Idle]
  /\ UNCHANGED <<database, provider, crashes>>

(* validateCode and the test of the sellpage discount.  Expiry and the     *)
(* active flag are abstracted: either may turn an unused discount away.    *)
CodeLeftOffByOne(c) == usedCount[c] <= MaxUses[c]  \* mutant

CodeLeft(c) == usedCount[c] < MaxUses[c]

DiscountLeft(d) == uses[d] < UsageLimit[d]

CheckoutDiscount(s) ==
  /\ req[s].pc = "items" /\ req[s].todo = {}
  /\ LET o == req[s].order
         c == CodeOf[o]
         d == DiscountOf[o]
         Create(cut) == [pc |-> "create", order |-> o, cut |-> cut]
         next == {Create("nothing")}
           \cup {r \in {[pc |-> "useCode", order |-> o]} :
                   c # NoDiscount /\ CodeLeft(c)}
           \cup {r \in {Create("discount")} :
                   c = NoDiscount /\ d # NoDiscount /\ DiscountLeft(d)}
     IN \E r \in next : req' = [req EXCEPT ![s] = r]
  /\ UNCHANGED <<database, provider, crashes>>

(* applyCode, second half: the increment, of whatever the count is by now. *)
UseCodeUncounted(c) == UNCHANGED usedCount  \* mutant

UseCode(c) == usedCount' = [usedCount EXCEPT ![c] = @ + 1]

CheckoutUseCode(s) ==
  /\ Continue(s, "useCode",
              [pc |-> "create", order |-> req[s].order, cut |-> "code"])
  /\ UseCode(CodeOf[req[s].order])
  /\ UNCHANGED <<status, events, paymentId, reduced, stock, uses, provider,
                 crashes>>

(* Mutants: the transaction's failure is swallowed and the payment goes    *)
(* on; the row is given the event's name for a status.                     *)
CheckoutCreateSwallowed(s) ==
  /\ Continue(s, "create", [pc |-> "pay", order |-> req[s].order])
  /\ UNCHANGED <<database, provider, crashes>>

CheckoutCreateWrongStatus(s) ==
  /\ Continue(s, "create", [pc |-> "pay", order |-> req[s].order])
  /\ status' = [status EXCEPT ![req[s].order] = "CREATED"]
  /\ UNCHANGED <<events, paymentId, reduced, stock, uses, usedCount, provider,
                 crashes>>

(* The transaction that creates the order and its CREATED event.  A        *)
(* discountId is counted whether or not it reduced the price.              *)
CheckoutCreate(s) ==
  LET o == req[s].order
      d == DiscountOf[o]
  IN /\ Continue(s, "create", [pc |-> "pay", order |-> o])
     /\ status[o] = "NONE"
     /\ status' = [status EXCEPT ![o] = "PENDING"]
     /\ events' = [events EXCEPT ![o] = {"CREATED"}]
     /\ reduced' = [reduced EXCEPT ![o] = req[s].cut]
     /\ uses' = [e \in Discount |-> IF e = d THEN uses[e] + 1 ELSE uses[e]]
     /\ UNCHANGED <<paymentId, stock, usedCount, provider, crashes>>

(* createPaymentIntent or createOrder at the gateway.                      *)
CheckoutPay(s) ==
  LET o == req[s].order
  IN /\ Continue(s, "pay", [pc |-> "store", order |-> o])
     /\ provider' = [provider EXCEPT ![o] = "created"]
     /\ UNCHANGED <<database, crashes>>

(* order.update({paymentId}) and the response with the client secret.      *)
CheckoutStore(s) ==
  LET o == req[s].order
  IN /\ Continue(s, "store", Idle)
     /\ paymentId' = [paymentId EXCEPT ![o] = TRUE]
     /\ UNCHANGED <<status, events, reduced, stock, uses, usedCount,
                    provider, crashes>>

(* A product or variant is inactive, the seller has no PayPal gateway, or  *)
(* a database or gateway call throws: the error leaves the handler and     *)
(* nothing already done is undone.                                         *)
CheckoutFail(s) ==
  /\ req[s].pc \in {"items", "useCode", "create", "pay", "store", "applyUse"}
  /\ req' = [req EXCEPT ![s] = Idle]
  /\ UNCHANGED <<database, provider, crashes>>

(* POST /apply-discount: the public endpoint runs the same applyCode.      *)
ApplyStart(s, c) ==
  /\ CodeLeft(c)
  /\ Enter(s, [pc |-> "applyUse", code |-> c])
  /\ UNCHANGED <<database, provider, crashes>>

ApplyUse(s) ==
  /\ Continue(s, "applyUse", Idle)
  /\ UseCode(req[s].code)
  /\ UNCHANGED <<status, events, paymentId, reduced, stock, uses, provider,
                 crashes>>

(* The API process restarts: its requests are gone.                        *)
CheckoutCrash ==
  /\ crashes < MaxCrashes
  /\ crashes' = crashes + 1
  /\ req' = [s \in Slot |-> Idle]
  /\ UNCHANGED <<database, provider>>

CheckoutStep(s) ==
  \/ CheckoutItem(s)
  \/ CheckoutDiscount(s)
  \/ CheckoutUseCode(s)
  \/ CheckoutCreate(s)
  \/ CheckoutPay(s)
  \/ CheckoutStore(s)
  \/ CheckoutFail(s)
  \/ ApplyUse(s)

CheckoutRequest(s) ==
  \/ \E o \in Order : CheckoutStart(s, o)
  \/ \E c \in Code : ApplyStart(s, c)
  \/ CheckoutStep(s)

CheckoutNext == CheckoutCrash \/ \E s \in Slot : CheckoutRequest(s)

CheckoutSpec == CheckoutInit /\ [][CheckoutNext]_checkoutVars

-----------------------------------------------------------------------------
(* Properties.                                                             *)

InFlight(pc, Test(_)) ==
  {s \in Slot : req[s].pc = pc /\ Test(req[s])}

ReducedByCode(c) == {o \in Order : reduced[o] = "code" /\ CodeOf[o] = c}

ReducedByDiscount(d) ==
  {o \in Order : reduced[o] = "discount" /\ DiscountOf[o] = d}

(* Every price reduction has been paid for in its counter: the orders that *)
(* a code reduced, with the checkouts about to create one, are at most its *)
(* usedCount, and the orders a sellpage discount reduced at most its uses, *)
(* whatever fails or crashes between the increment and the order.          *)
EveryReductionIsCounted ==
  /\ \A c \in Code :
       Cardinality(ReducedByCode(c))
         + Cardinality(InFlight("create",
             LAMBDA r : r.cut = "code" /\ CodeOf[r.order] = c))
         <= usedCount[c]
  /\ \A d \in Discount : Cardinality(ReducedByDiscount(d)) <= uses[d]

(* The limits are checked before they are counted, so concurrent checkouts *)
(* may overrun them, but by no more than the requests in flight: one slot  *)
(* can be late only once for a value it read.                              *)
OverrunBounded ==
  LET late == Cardinality(Slot) - 1
  IN /\ \A c \in Code : usedCount[c] <= MaxUses[c] + late
     /\ \A d \in Discount :
          Cardinality(ReducedByDiscount(d)) <= UsageLimit[d] + late

(* Nobody can be charged for an order that does not exist: the provider    *)
(* knows a payment only of an order whose row and CREATED event are        *)
(* committed, and the order names a payment only if the provider has it.   *)
PaymentFollowsOrder ==
  \A o \in Order :
    /\ provider[o] # "none" => status[o] # "NONE" /\ "CREATED" \in events[o]
    /\ paymentId[o] => provider[o] # "none"

(* Prices and payments change only as if every checkout were atomic: what  *)
(* fails, crashes or overlaps between the count, the order, its payment    *)
(* and its id loses or doubles none of them (checkout, applyCode).         *)
Prices ==
  [o \in Order |-> IF status[o] = "NONE" THEN "unplaced" ELSE reduced[o]]

Purchase == INSTANCE CheckoutContract
  WITH counted <- usedCount,
       price <- Prices,
       charged <- {o \in Order : provider[o] # "none"},
       named <- {o \in Order : paymentId[o]},
       Late <- Cardinality(Slot) - 1

CheckoutKept == Purchase!Spec

(* "Single use, linked to email job" (discount-code.service.ts:37): a code *)
(* reduces no more orders than its maxUses.                                *)
CodeUsedWithinLimit ==
  \A c \in Code : Cardinality(ReducedByCode(c)) <= MaxUses[c]
=============================================================================
