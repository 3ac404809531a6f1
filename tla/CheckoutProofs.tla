---------------------------- MODULE CheckoutProofs ---------------------------
(***************************************************************************)
(* Proofs about Checkout: no payment without an order, no price reduction  *)
(* without its count, limits overrun by no more than the requests in       *)
(* flight, and the checkout as an implementation of CheckoutContract.      *)
(***************************************************************************)
EXTENDS Checkout, FiniteSetTheorems, TLAPS

WithOrder == {"items", "useCode", "pay", "store", "create"}

(* The parts of a request, by where it stands.                             *)
LEMMA RequestParts ==
  ASSUME NEW r \in CheckoutRequests
  PROVE  /\ r.pc \in {"idle", "items", "useCode", "pay", "store", "create",
                      "applyUse"}
         /\ r.pc = "idle" => r = Idle
         /\ r.pc \in WithOrder => r.order \in Order
         /\ r.pc = "items" => r.todo \in SUBSET Variant
         /\ r.pc = "create" => r.cut \in Reductions
         /\ r.pc = "applyUse" => r.code \in Code
  BY DEF CheckoutRequests, Idle, WithOrder

(* The records handlers go on with.                                        *)
LEMMA RequestKinds ==
  /\ Idle \in CheckoutRequests
  /\ \A o \in Order :
       /\ \A pc \in {"useCode", "pay", "store"} :
            [pc |-> pc, order |-> o] \in CheckoutRequests
       /\ \A cut \in Reductions :
            [pc |-> "create", order |-> o, cut |-> cut] \in CheckoutRequests
       /\ \A todo \in SUBSET Variant :
            [pc |-> "items", order |-> o, todo |-> todo] \in CheckoutRequests
  /\ \A c \in Code : [pc |-> "applyUse", code |-> c] \in CheckoutRequests
  BY DEF CheckoutRequests, Idle

-----------------------------------------------------------------------------
(* What one step of a handler leaves alone.                                *)

rows == <<status, events, paymentId, reduced, stock, provider>>

(* The request that slot s goes on with, and nothing else but crashes.     *)
Puts(s, r) == req' = [req EXCEPT ![s] = r] /\ UNCHANGED crashes

(* Steps that only read: the request starts, goes on, or ends.             *)
Reads(s, r) == Puts(s, r) /\ UNCHANGED <<rows, uses, usedCount>>

(* The request of a reading step: where it came from decides what it is.   *)
ReadTo(r) ==
  \/ r = Idle
  \/ \E o \in Order : \E todo \in SUBSET Variant :
       r = [pc |-> "items", order |-> o, todo |-> todo]
  \/ \E c \in Code : CodeLeft(c) /\ r = [pc |-> "applyUse", code |-> c]
  \/ \E o \in Order :
       \/ r = [pc |-> "create", order |-> o, cut |-> "nothing"]
       \/ /\ CodeOf[o] \in Code /\ CodeLeft(CodeOf[o])
          /\ r = [pc |-> "useCode", order |-> o]
       \/ /\ DiscountOf[o] \in Discount /\ DiscountLeft(DiscountOf[o])
          /\ r = [pc |-> "create", order |-> o, cut |-> "discount"]

(* Where a reading step leads is a request.                                *)
LEMMA ReadToTyped ==
  ASSUME NEW r, ReadTo(r) PROVE r \in CheckoutRequests
  BY RequestKinds DEF ReadTo, Reductions

(* Every step reads, or is one of the five that write, or a crash.         *)
LEMMA Steps ==
  ASSUME TypeOK, [CheckoutNext]_checkoutVars
  PROVE  \/ UNCHANGED checkoutVars
         \/ CheckoutCrash
         \/ \E s \in Slot :
              \/ \E r : Reads(s, r) /\ ReadTo(r)
              \/ CheckoutUseCode(s) \/ ApplyUse(s) \/ CheckoutCreate(s)
              \/ CheckoutPay(s) \/ CheckoutStore(s)
<1> SUFFICES ASSUME NEW s \in Slot, CheckoutRequest(s)
             PROVE  \/ \E r : Reads(s, r) /\ ReadTo(r)
                    \/ CheckoutUseCode(s) \/ ApplyUse(s) \/ CheckoutCreate(s)
                    \/ CheckoutPay(s) \/ CheckoutStore(s)
  BY DEF CheckoutNext
<1> DEFINE Goal == \E r : Reads(s, r) /\ ReadTo(r)
<1> USE DEF Reads, Puts, rows, database
<1>1. req[s] \in CheckoutRequests
  BY DEF TypeOK
<1>2. ASSUME NEW o \in Order, CheckoutStart(s, o) PROVE Goal
  <2>1. {v \in Variant : Cart[o][v] > 0} \in SUBSET Variant
    OBVIOUS
  <2> QED
    BY <1>2, <2>1 DEF CheckoutStart, Enter, ReadTo
<1>3. ASSUME NEW c \in Code, ApplyStart(s, c) PROVE Goal
  BY <1>3 DEF ApplyStart, Enter, ReadTo
<1>4. ASSUME CheckoutItem(s) PROVE Goal
  <2>1. req[s].order \in Order /\ req[s].todo \in SUBSET Variant
    BY <1>1, <1>4, RequestParts DEF CheckoutItem, WithOrder
  <2>2. PICK v \in req[s].todo :
          req' = [req EXCEPT ![s] =
                    IF InStock(req[s].order, v)
                    THEN [pc |-> "items", order |-> req[s].order,
                          todo |-> req[s].todo \ {v}]
                    ELSE Idle]
    BY <1>4 DEF CheckoutItem
  <2>3. req[s].todo \ {v} \in SUBSET Variant
    BY <2>1
  <2>4. CASE InStock(req[s].order, v)
    BY <1>4, <2>1, <2>2, <2>3, <2>4 DEF CheckoutItem, ReadTo
  <2>5. CASE ~InStock(req[s].order, v)
    BY <1>4, <2>2, <2>5 DEF CheckoutItem, ReadTo
  <2> QED
    BY <2>4, <2>5
<1>5. ASSUME CheckoutDiscount(s) PROVE Goal
  <2> DEFINE o == req[s].order
  <2>1. o \in Order
    BY <1>1, <1>5, RequestParts DEF CheckoutDiscount, WithOrder
  <2>2. /\ CodeOf[o] # NoDiscount => CodeOf[o] \in Code
        /\ DiscountOf[o] # NoDiscount => DiscountOf[o] \in Discount
    BY <2>1, CheckoutAssumption
  <2>3. PICK r :
          /\ req' = [req EXCEPT ![s] = r]
          /\ \/ r = [pc |-> "create", order |-> o, cut |-> "nothing"]
             \/ /\ CodeOf[o] # NoDiscount /\ CodeLeft(CodeOf[o])
                /\ r = [pc |-> "useCode", order |-> o]
             \/ /\ DiscountOf[o] # NoDiscount /\ DiscountLeft(DiscountOf[o])
                /\ r = [pc |-> "create", order |-> o, cut |-> "discount"]
    BY <1>5 DEF CheckoutDiscount
  <2> QED
    BY <1>5, <2>1, <2>2, <2>3 DEF CheckoutDiscount, ReadTo
<1>6. ASSUME CheckoutFail(s) PROVE Goal
  BY <1>6 DEF CheckoutFail, ReadTo
<1> QED
  BY <1>2, <1>3, <1>4, <1>5, <1>6 DEF CheckoutRequest, CheckoutStep
-----------------------------------------------------------------------------
(* Types.                                                                  *)

(* A request in its slot.                                                  *)
LEMMA PutTyped ==
  ASSUME req \in [Slot -> CheckoutRequests], NEW s \in Slot,
         NEW r \in CheckoutRequests, req' = [req EXCEPT ![s] = r]
  PROVE  req' \in [Slot -> CheckoutRequests]
  OBVIOUS

(* Counting a code keeps the counts numbers.                               *)
LEMMA UseCodeTyped ==
  ASSUME TypeOK, NEW c, UseCode(c) PROVE usedCount' \in [Code -> Nat]
<1>1. usedCount \in [Code -> Nat]
  BY DEF TypeOK, CheckoutTypeOK
<1>2. CASE c \in Code
  BY <1>1, <1>2 DEF UseCode
<1>3. CASE c \notin Code
  <2>1. usedCount' = usedCount
    BY <1>1, <1>3 DEF UseCode
  <2> QED
    BY <1>1, <2>1
<1> QED
  BY <1>2, <1>3

(* The types hold at first.                                                *)
LEMMA InitTyped == CheckoutInit => TypeOK
<1> SUFFICES ASSUME CheckoutInit PROVE TypeOK
  OBVIOUS
<1>1. req \in [Slot -> CheckoutRequests]
  BY RequestKinds DEF CheckoutInit
<1>2. crashes \in 0 .. MaxCrashes
  BY CheckoutAssumption DEF CheckoutInit
<1>3. stock \in [Variant -> Int]
  BY CheckoutAssumption DEF CheckoutInit
<1> QED
  BY <1>1, <1>2, <1>3
  DEF CheckoutInit, TypeOK, CheckoutTypeOK, Reductions, PaymentStates

(* The writing steps, by what they put and what they change.               *)
LEMMA StepTyped == TypeOK /\ [CheckoutNext]_checkoutVars => TypeOK'
<1> SUFFICES ASSUME TypeOK, [CheckoutNext]_checkoutVars PROVE TypeOK'
  OBVIOUS
<1>1. /\ req \in [Slot -> CheckoutRequests]
      /\ CheckoutTypeOK
  BY DEF TypeOK
<1>2. CASE UNCHANGED checkoutVars
  BY <1>2 DEF checkoutVars, TypeOK, CheckoutTypeOK
<1>3. CASE CheckoutCrash
  <2>1. crashes' \in 0 .. MaxCrashes
    BY <1>1, <1>3, CheckoutAssumption DEF CheckoutCrash, CheckoutTypeOK
  <2>2. req' \in [Slot -> CheckoutRequests]
    BY <1>3, RequestKinds DEF CheckoutCrash
  <2> QED
    BY <1>1, <1>3, <2>1, <2>2
    DEF CheckoutCrash, TypeOK, CheckoutTypeOK, database
<1>4. ASSUME NEW s \in Slot, NEW r, Reads(s, r), ReadTo(r) PROVE TypeOK'
  <2>1. req' \in [Slot -> CheckoutRequests]
    BY <1>1, <1>4, ReadToTyped, PutTyped DEF Reads, Puts
  <2> QED
    BY <1>1, <1>4, <2>1 DEF TypeOK, CheckoutTypeOK, Reads, Puts, rows
<1>5. ASSUME NEW s \in Slot, req[s].pc \in WithOrder
      PROVE  req[s].order \in Order
  BY <1>1, <1>5, RequestParts
<1>6. ASSUME NEW s \in Slot, CheckoutUseCode(s) PROVE TypeOK'
  <2>1. req[s].order \in Order
    BY <1>5, <1>6 DEF CheckoutUseCode, Continue, WithOrder
  <2>2. req' \in [Slot -> CheckoutRequests]
    <3>1. [pc |-> "create", order |-> req[s].order, cut |-> "code"]
            \in CheckoutRequests
      BY <2>1, RequestKinds DEF Reductions
    <3> QED
      BY <1>1, <1>6, <3>1, PutTyped DEF CheckoutUseCode, Continue
  <2>3. usedCount' \in [Code -> Nat]
    BY <1>6, UseCodeTyped DEF CheckoutUseCode
  <2> QED
    BY <1>1, <1>6, <2>2, <2>3 DEF TypeOK, CheckoutTypeOK, CheckoutUseCode
<1>7. ASSUME NEW s \in Slot, ApplyUse(s) PROVE TypeOK'
  <2>1. req' \in [Slot -> CheckoutRequests]
    BY <1>1, <1>7, RequestKinds, PutTyped DEF ApplyUse, Continue
  <2>2. usedCount' \in [Code -> Nat]
    BY <1>7, UseCodeTyped DEF ApplyUse
  <2> QED
    BY <1>1, <1>7, <2>1, <2>2 DEF TypeOK, CheckoutTypeOK, ApplyUse
<1>8. ASSUME NEW s \in Slot, CheckoutCreate(s) PROVE TypeOK'
  <2> DEFINE o == req[s].order
  <2>1. o \in Order /\ req[s].cut \in Reductions
    BY <1>1, <1>8, RequestParts DEF CheckoutCreate, Continue, WithOrder
  <2>2. req' \in [Slot -> CheckoutRequests]
    BY <1>1, <1>8, <2>1, RequestKinds, PutTyped DEF CheckoutCreate, Continue
  <2>3. uses' \in [Discount -> Nat]
    BY <1>1, <1>8 DEF CheckoutCreate, CheckoutTypeOK
  <2>4. /\ status' \in [Order -> OrderStatuses \cup {"NONE"}]
        /\ events' \in [Order -> SUBSET EventTypes]
        /\ reduced' \in [Order -> Reductions]
    BY <1>1, <1>8, <2>1
    DEF CheckoutCreate, CheckoutTypeOK, OrderStatuses, EventTypes
  <2> QED
    BY <1>1, <1>8, <2>2, <2>3, <2>4 DEF TypeOK, CheckoutTypeOK, CheckoutCreate
<1>9. ASSUME NEW s \in Slot, CheckoutPay(s) PROVE TypeOK'
  <2>1. req[s].order \in Order
    BY <1>5, <1>9 DEF CheckoutPay, Continue, WithOrder
  <2>2. req' \in [Slot -> CheckoutRequests]
    BY <1>1, <1>9, <2>1, RequestKinds, PutTyped DEF CheckoutPay, Continue
  <2>3. provider' \in [Order -> PaymentStates]
    BY <1>1, <1>9, <2>1 DEF CheckoutPay, CheckoutTypeOK, PaymentStates
  <2> QED
    BY <1>1, <1>9, <2>2, <2>3
    DEF TypeOK, CheckoutTypeOK, CheckoutPay, database
<1>10. ASSUME NEW s \in Slot, CheckoutStore(s) PROVE TypeOK'
  <2>1. req' \in [Slot -> CheckoutRequests]
    BY <1>1, <1>10, RequestKinds, PutTyped DEF CheckoutStore, Continue
  <2>2. paymentId' \in [Order -> BOOLEAN]
    BY <1>1, <1>10 DEF CheckoutStore, CheckoutTypeOK
  <2> QED
    BY <1>1, <1>10, <2>1, <2>2 DEF TypeOK, CheckoutTypeOK, CheckoutStore
<1> QED
  BY <1>2, <1>3, <1>4, <1>6, <1>7, <1>8, <1>9, <1>10, Steps

(* The rows and the requests of the checkout keep their shapes.            *)
THEOREM CheckoutTypes == CheckoutSpec => []TypeOK
  BY InitTyped, StepTyped, PTL DEF CheckoutSpec

-----------------------------------------------------------------------------
(* Payments.                                                               *)

(* A request goes to the gateway with an order that is committed, and      *)
(* stores the id of a payment the provider has.                            *)
Paying ==
  \A s \in Slot :
    /\ req[s].pc = "pay" => /\ status[req[s].order] # "NONE"
                            /\ "CREATED" \in events[req[s].order]
    /\ req[s].pc = "store" => provider[req[s].order] # "none"

PayInv == TypeOK /\ PaymentFollowsOrder /\ Paying

(* Every step keeps payments behind their orders.                          *)
LEMMA StepPayInv == PayInv /\ [CheckoutNext]_checkoutVars => PayInv'
<1> SUFFICES ASSUME PayInv, [CheckoutNext]_checkoutVars
             PROVE  (PaymentFollowsOrder /\ Paying)'
  BY StepTyped DEF PayInv
<1> DEFINE Goal == PaymentFollowsOrder /\ Paying
<1>1. /\ req \in [Slot -> CheckoutRequests] /\ TypeOK
      /\ CheckoutTypeOK /\ PaymentFollowsOrder /\ Paying
  BY DEF PayInv, TypeOK
<1>2. CASE UNCHANGED checkoutVars
  BY <1>1, <1>2 DEF checkoutVars, PaymentFollowsOrder, Paying
<1>3. CASE CheckoutCrash
  BY <1>1, <1>3
  DEF CheckoutCrash, database, PaymentFollowsOrder, Paying, Idle
<1>4. ASSUME NEW s \in Slot, NEW r, Reads(s, r), ReadTo(r) PROVE Goal'
  <2>1. r.pc \notin {"pay", "store"}
    BY <1>4 DEF ReadTo, Idle
  <2> QED
    BY <1>1, <1>4, <2>1 DEF PaymentFollowsOrder, Paying, Reads, Puts, rows
<1>5. ASSUME NEW s \in Slot, CheckoutUseCode(s) \/ ApplyUse(s) PROVE Goal'
  BY <1>1, <1>5
  DEF PaymentFollowsOrder, Paying, CheckoutUseCode, ApplyUse, Continue, Idle
<1>6. ASSUME NEW s \in Slot, req[s].pc \in WithOrder
      PROVE  req[s].order \in Order
  BY <1>1, <1>6, RequestParts
<1>7. ASSUME NEW s \in Slot, CheckoutCreate(s) PROVE Goal'
  <2> DEFINE o == req[s].order
  <2>1. /\ o \in Order /\ status[o] = "NONE"
        /\ status' = [status EXCEPT ![o] = "PENDING"]
        /\ events' = [events EXCEPT ![o] = {"CREATED"}]
        /\ req' = [req EXCEPT ![s] = [pc |-> "pay", order |-> o]]
        /\ UNCHANGED <<provider, paymentId>>
    BY <1>6, <1>7 DEF CheckoutCreate, Continue, WithOrder
  <2>2. \A p \in Order :
          status[p] # "NONE" /\ "CREATED" \in events[p]
            => status'[p] # "NONE" /\ "CREATED" \in events'[p]
    BY <1>1, <2>1 DEF CheckoutTypeOK
  <2>3. PaymentFollowsOrder'
    BY <1>1, <2>1, <2>2 DEF PaymentFollowsOrder
  <2>4. ASSUME NEW t \in Slot, t # s
        PROVE  /\ req'[t].pc = "pay" => /\ status'[req'[t].order] # "NONE"
                                        /\ "CREATED" \in events'[req'[t].order]
               /\ req'[t].pc = "store" => provider'[req'[t].order] # "none"
    <3>1. req'[t] = req[t]
      BY <1>1, <2>1, <2>4
    <3>2. req[t].pc = "pay" => req[t].order \in Order
      BY <1>6 DEF WithOrder
    <3> QED
      BY <1>1, <2>1, <2>2, <3>1, <3>2 DEF Paying
  <2>5. /\ req'[s] = [pc |-> "pay", order |-> o]
        /\ status'[o] = "PENDING" /\ events'[o] = {"CREATED"}
    BY <1>1, <2>1 DEF CheckoutTypeOK
  <2>6. Paying'
    BY <2>4, <2>5 DEF Paying
  <2> QED
    BY <2>3, <2>6
<1>8. ASSUME NEW s \in Slot, CheckoutPay(s) PROVE Goal'
  <2> DEFINE o == req[s].order
  <2>1. /\ o \in Order /\ req[s].pc = "pay"
        /\ provider' = [provider EXCEPT ![o] = "created"]
        /\ req' = [req EXCEPT ![s] = [pc |-> "store", order |-> o]]
        /\ UNCHANGED <<status, events, paymentId>>
    BY <1>6, <1>8 DEF CheckoutPay, Continue, WithOrder, database
  <2> QED
    BY <1>1, <2>1 DEF PaymentFollowsOrder, Paying, CheckoutTypeOK
<1>9. ASSUME NEW s \in Slot, CheckoutStore(s) PROVE Goal'
  <2> DEFINE o == req[s].order
  <2>1. /\ o \in Order /\ req[s].pc = "store"
        /\ paymentId' = [paymentId EXCEPT ![o] = TRUE]
        /\ req' = [req EXCEPT ![s] = Idle]
        /\ UNCHANGED <<status, events, provider>>
    BY <1>6, <1>9 DEF CheckoutStore, Continue, WithOrder
  <2>2. provider[o] # "none"
    BY <1>1, <2>1 DEF Paying
  <2> QED
    BY <1>1, <2>1, <2>2 DEF PaymentFollowsOrder, Paying, CheckoutTypeOK, Idle
<1> QED
  BY <1>1, <1>2, <1>3, <1>4, <1>5, <1>7, <1>8, <1>9, Steps

(* Whatever fails or crashes at whichever await, the provider is asked for *)
(* a payment only of an order that is committed, and an order names only a *)
(* payment the provider has (storefront.service.ts checkout).              *)
THEOREM PaymentIsOrdered == CheckoutSpec => []PaymentFollowsOrder
<1>1. CheckoutInit => PayInv
  BY InitTyped DEF CheckoutInit, PayInv, PaymentFollowsOrder, Paying, Idle
<1>2. PayInv => PaymentFollowsOrder
  BY DEF PayInv
<1> QED
  BY <1>1, <1>2, StepPayInv, PTL DEF CheckoutSpec
-----------------------------------------------------------------------------
(* Counts.  A request holds a reduction by a code it has counted; waits to *)
(* count a code it found unspent; or cuts the price by a discount it found *)
(* unspent.                                                                *)

Holds(r, c) == r.pc = "create" /\ r.cut = "code" /\ CodeOf[r.order] = c

Waits(r, c) == \/ r.pc = "useCode" /\ CodeOf[r.order] = c
               \/ r.pc = "applyUse" /\ r.code = c

Cuts(r, d) == r.pc = "create" /\ r.cut = "discount" /\ DiscountOf[r.order] = d

Holding(c) == {s \in Slot : Holds(req[s], c)}
Waiting(c) == {s \in Slot : Waits(req[s], c)}
Cutting(d) == {s \in Slot : Cuts(req[s], d)}

Late == Cardinality(Slot) - 1

(* A code is counted before it reduces, and who will count it found it     *)
(* unspent: with the last to look at it, all other slots may be late.      *)
CodeCount(c) ==
  /\ IsFiniteSet(ReducedByCode(c))
  /\ Cardinality(ReducedByCode(c)) + Cardinality(Holding(c)) <= usedCount[c]
  /\ usedCount[c] + Cardinality(Waiting(c)) <= MaxUses[c] + Late

(* A discount is counted as it reduces.                                    *)
DiscountCount(d) ==
  /\ IsFiniteSet(ReducedByDiscount(d))
  /\ Cardinality(ReducedByDiscount(d)) <= uses[d]
  /\ Cardinality(ReducedByDiscount(d)) + Cardinality(Cutting(d))
       <= UsageLimit[d] + Late

Unreduced == \A o \in Order : status[o] = "NONE" => reduced[o] = "nothing"

CountInv ==
  /\ TypeOK /\ Unreduced
  /\ \A c \in Code : CodeCount(c)
  /\ \A d \in Discount : DiscountCount(d)

(* Sets of slots are finite.                                               *)
LEMMA SlotSets ==
  ASSUME NEW S \in SUBSET Slot
  PROVE  /\ IsFiniteSet(S) /\ Cardinality(S) \in Nat
         /\ Cardinality(Slot) \in Nat /\ Cardinality(S) <= Cardinality(Slot)
  BY SlotsAssumption, FS_Subset, FS_CardinalityType

(* The size n of a set becomes m as one element comes or goes, or neither. *)
Shifts(n, m, was, is) ==
  m = IF is = was THEN n ELSE IF is THEN n + 1 ELSE n - 1

(* A set of slots that changes in one slot.                                *)
LEMMA OneSlot ==
  ASSUME NEW S \in SUBSET Slot, NEW T \in SUBSET Slot, NEW s \in Slot,
         NEW was \in BOOLEAN, NEW is \in BOOLEAN,
         was <=> s \in S, is <=> s \in T,
         \A t \in Slot : t # s => (t \in T <=> t \in S)
  PROVE  Shifts(Cardinality(S), Cardinality(T), was, is)
<1>1. IsFiniteSet(S)
  BY SlotSets
<1>2. CASE is /\ ~was
  <2>1. T = S \cup {s} /\ s \notin S
    BY <1>2
  <2> QED
    BY <1>1, <1>2, <2>1, FS_AddElement DEF Shifts
<1>3. CASE ~is /\ was
  <2>1. T = S \ {s} /\ s \in S
    BY <1>3
  <2> QED
    BY <1>1, <1>3, <2>1, FS_RemoveElement DEF Shifts
<1>4. CASE is = was
  <2>1. T = S
    BY <1>4
  <2> QED
    BY <1>4, <2>1 DEF Shifts
<1> QED
  BY <1>2, <1>3, <1>4

(* How many requests hold, wait and cut after slot s goes on with r.       *)
LEMMA Moved ==
  ASSUME TypeOK, NEW s \in Slot, NEW r, req' = [req EXCEPT ![s] = r]
  PROVE  \A x :
    /\ Shifts(Cardinality(Holding(x)), Cardinality(Holding(x)'),
              Holds(req[s], x), Holds(r, x))
    /\ Shifts(Cardinality(Waiting(x)), Cardinality(Waiting(x)'),
              Waits(req[s], x), Waits(r, x))
    /\ Shifts(Cardinality(Cutting(x)), Cardinality(Cutting(x)'),
              Cuts(req[s], x), Cuts(r, x))
<1> SUFFICES ASSUME NEW x
    PROVE /\ Shifts(Cardinality(Holding(x)), Cardinality(Holding(x)'),
                    Holds(req[s], x), Holds(r, x))
          /\ Shifts(Cardinality(Waiting(x)), Cardinality(Waiting(x)'),
                    Waits(req[s], x), Waits(r, x))
          /\ Shifts(Cardinality(Cutting(x)), Cardinality(Cutting(x)'),
                    Cuts(req[s], x), Cuts(r, x))
  OBVIOUS
<1>1. req'[s] = r /\ \A t \in Slot : t # s => req'[t] = req[t]
  BY DEF TypeOK
<1>2. /\ Holding(x) \in SUBSET Slot /\ Holding(x)' \in SUBSET Slot
      /\ \A t \in Slot : t # s => (t \in Holding(x)' <=> t \in Holding(x))
      /\ s \in Holding(x) <=> Holds(req[s], x)
      /\ s \in Holding(x)' <=> Holds(r, x)
      /\ Holds(req[s], x) \in BOOLEAN /\ Holds(r, x) \in BOOLEAN
  BY <1>1 DEF Holding, Holds
<1>3. /\ Waiting(x) \in SUBSET Slot /\ Waiting(x)' \in SUBSET Slot
      /\ \A t \in Slot : t # s => (t \in Waiting(x)' <=> t \in Waiting(x))
      /\ s \in Waiting(x) <=> Waits(req[s], x)
      /\ s \in Waiting(x)' <=> Waits(r, x)
      /\ Waits(req[s], x) \in BOOLEAN /\ Waits(r, x) \in BOOLEAN
  BY <1>1 DEF Waiting, Waits
<1>4. /\ Cutting(x) \in SUBSET Slot /\ Cutting(x)' \in SUBSET Slot
      /\ \A t \in Slot : t # s => (t \in Cutting(x)' <=> t \in Cutting(x))
      /\ s \in Cutting(x) <=> Cuts(req[s], x)
      /\ s \in Cutting(x)' <=> Cuts(r, x)
      /\ Cuts(req[s], x) \in BOOLEAN /\ Cuts(r, x) \in BOOLEAN
  BY <1>1 DEF Cutting, Cuts
<1> QED
  BY <1>2, <1>3, <1>4, OneSlot

(* The numbers the counts are made of.                                     *)
LEMMA Numbers ==
  ASSUME CountInv
  PROVE  /\ Late \in Int /\ Cardinality(Slot) = Late + 1
         /\ \A c \in Code :
              /\ usedCount[c] \in Nat /\ MaxUses[c] \in Nat \ {0}
              /\ Cardinality(ReducedByCode(c)) \in Nat
              /\ Cardinality(Holding(c)) \in Nat
              /\ Cardinality(Waiting(c)) \in Nat
              /\ Cardinality(Waiting(c)') <= Late + 1
              /\ Cardinality(Waiting(c)') \in Nat
         /\ \A d \in Discount :
              /\ uses[d] \in Nat /\ UsageLimit[d] \in Nat \ {0}
              /\ Cardinality(ReducedByDiscount(d)) \in Nat
              /\ Cardinality(Cutting(d)) \in Nat
              /\ Cardinality(Cutting(d)') <= Late + 1
              /\ Cardinality(Cutting(d)') \in Nat
<1>1. \A c : /\ Holding(c) \in SUBSET Slot /\ Waiting(c) \in SUBSET Slot
             /\ Cutting(c) \in SUBSET Slot
             /\ Waiting(c)' \in SUBSET Slot /\ Cutting(c)' \in SUBSET Slot
  BY DEF Holding, Waiting, Cutting
<1>2. Cardinality(Slot) \in Nat
  BY SlotsAssumption, FS_CardinalityType
<1>3. Late \in Int /\ Cardinality(Slot) = Late + 1
  BY <1>2 DEF Late
<1>4. ASSUME NEW c \in Code
      PROVE  /\ usedCount[c] \in Nat /\ MaxUses[c] \in Nat \ {0}
             /\ Cardinality(ReducedByCode(c)) \in Nat
             /\ Cardinality(Holding(c)) \in Nat
             /\ Cardinality(Waiting(c)) \in Nat
             /\ Cardinality(Waiting(c)') <= Late + 1
             /\ Cardinality(Waiting(c)') \in Nat
  <2>1. usedCount[c] \in Nat /\ MaxUses[c] \in Nat \ {0}
    BY CheckoutAssumption DEF CountInv, TypeOK, CheckoutTypeOK
  <2>2. Cardinality(ReducedByCode(c)) \in Nat
    BY FS_CardinalityType DEF CountInv, CodeCount
  <2> QED
    BY <1>1, <1>3, <2>1, <2>2, SlotSets
<1>5. ASSUME NEW d \in Discount
      PROVE  /\ uses[d] \in Nat /\ UsageLimit[d] \in Nat \ {0}
             /\ Cardinality(ReducedByDiscount(d)) \in Nat
             /\ Cardinality(Cutting(d)) \in Nat
             /\ Cardinality(Cutting(d)') <= Late + 1
             /\ Cardinality(Cutting(d)') \in Nat
  <2>1. uses[d] \in Nat /\ UsageLimit[d] \in Nat \ {0}
    BY CheckoutAssumption DEF CountInv, TypeOK, CheckoutTypeOK
  <2>2. Cardinality(ReducedByDiscount(d)) \in Nat
    BY FS_CardinalityType DEF CountInv, DiscountCount
  <2> QED
    BY <1>1, <1>3, <2>1, <2>2, SlotSets
<1> QED
  BY <1>3, <1>4, <1>5

(* A step that counts nothing: who waits for a code now has just found it  *)
(* unspent, or waited before.                                              *)
LEMMA CodeMoves ==
  ASSUME CountInv, NEW s \in Slot, NEW r, req' = [req EXCEPT ![s] = r],
         NEW c \in Code, UNCHANGED reduced, usedCount'[c] = usedCount[c],
         Holds(r, c) => Holds(req[s], c),
         Waits(r, c) => Waits(req[s], c) \/ CodeLeft(c)
  PROVE  CodeCount(c)'
<1>1. ReducedByCode(c)' = ReducedByCode(c)
  BY DEF ReducedByCode
<1>2. /\ Shifts(Cardinality(Holding(c)), Cardinality(Holding(c)'),
                Holds(req[s], c), Holds(r, c))
      /\ Shifts(Cardinality(Waiting(c)), Cardinality(Waiting(c)'),
                Waits(req[s], c), Waits(r, c))
  BY Moved DEF CountInv
<1>3. /\ usedCount[c] \in Nat /\ MaxUses[c] \in Nat \ {0} /\ Late \in Int
      /\ Cardinality(ReducedByCode(c)) \in Nat
      /\ Cardinality(Holding(c)) \in Nat /\ Cardinality(Waiting(c)) \in Nat
      /\ Cardinality(Waiting(c)') <= Late + 1
      /\ Cardinality(Waiting(c)') \in Nat
  BY Numbers
<1>4. CodeCount(c)
  BY DEF CountInv
<1>5. Cardinality(Holding(c)') <= Cardinality(Holding(c))
        /\ Cardinality(Holding(c)') \in Int
  <2>1. Holds(req[s], c) \in BOOLEAN /\ Holds(r, c) \in BOOLEAN
    BY DEF Holds
  <2> QED
    BY <1>2, <1>3, <2>1 DEF Shifts
<1>6. \/ Cardinality(Waiting(c)') <= Cardinality(Waiting(c))
      \/ usedCount[c] < MaxUses[c]
  <2>1. Waits(req[s], c) \in BOOLEAN /\ Waits(r, c) \in BOOLEAN
    BY DEF Waits
  <2> QED
    BY <1>2, <1>3, <2>1 DEF Shifts, CodeLeft
<1>7. usedCount[c] + Cardinality(Waiting(c)') <= MaxUses[c] + Late
  BY <1>3, <1>4, <1>6 DEF CodeCount
<1>8. Cardinality(ReducedByCode(c)) + Cardinality(Holding(c)') <= usedCount[c]
  BY <1>3, <1>4, <1>5 DEF CodeCount
<1>9. IsFiniteSet(ReducedByCode(c))
  BY <1>4 DEF CodeCount
<1>10. Late' = Late
  BY DEF Late
<1> QED
  BY <1>1, <1>7, <1>8, <1>9, <1>10 DEF CodeCount

(* The step that counts a code.                                            *)
LEMMA CodeCounts ==
  ASSUME CountInv, NEW s \in Slot, NEW r, req' = [req EXCEPT ![s] = r],
         NEW c \in Code, UNCHANGED reduced, usedCount'[c] = usedCount[c] + 1,
         Waits(req[s], c), ~Waits(r, c)
  PROVE  CodeCount(c)'
<1>1. ReducedByCode(c)' = ReducedByCode(c) /\ Late' = Late
  BY DEF ReducedByCode, Late
<1>2. /\ Shifts(Cardinality(Holding(c)), Cardinality(Holding(c)'),
                Holds(req[s], c), Holds(r, c))
      /\ Shifts(Cardinality(Waiting(c)), Cardinality(Waiting(c)'),
                Waits(req[s], c), Waits(r, c))
  BY Moved DEF CountInv
<1>3. /\ usedCount[c] \in Nat /\ MaxUses[c] \in Nat \ {0} /\ Late \in Int
      /\ Cardinality(ReducedByCode(c)) \in Nat
      /\ Cardinality(Holding(c)) \in Nat /\ Cardinality(Waiting(c)) \in Nat
  BY Numbers
<1>4. CodeCount(c)
  BY DEF CountInv
<1>5. Cardinality(Holding(c)') <= Cardinality(Holding(c)) + 1
        /\ Cardinality(Holding(c)') \in Int
  BY <1>2, <1>3 DEF Shifts
<1>6. Cardinality(Waiting(c)') = Cardinality(Waiting(c)) - 1
  <2>1. Waits(req[s], c) \in BOOLEAN /\ Waits(r, c) \in BOOLEAN
    BY DEF Waits
  <2> QED
    BY <1>2, <1>3, <2>1 DEF Shifts
<1>7. Cardinality(ReducedByCode(c)) + Cardinality(Holding(c)')
        <= usedCount[c] + 1
  BY <1>3, <1>4, <1>5 DEF CodeCount
<1>8. usedCount[c] + 1 + Cardinality(Waiting(c)') <= MaxUses[c] + Late
  BY <1>3, <1>4, <1>6 DEF CodeCount
<1>9. IsFiniteSet(ReducedByCode(c))
  BY <1>4 DEF CodeCount
<1> QED
  BY <1>1, <1>7, <1>8, <1>9 DEF CodeCount

(* A discount whose cutters move, and whose uses do not.                   *)
LEMMA DiscountMoves ==
  ASSUME CountInv, NEW s \in Slot, NEW r, req' = [req EXCEPT ![s] = r],
         NEW d \in Discount, UNCHANGED <<reduced, uses>>,
         Cuts(r, d) => Cuts(req[s], d) \/ DiscountLeft(d)
  PROVE  DiscountCount(d)'
<1>1. ReducedByDiscount(d)' = ReducedByDiscount(d) /\ Late' = Late
  BY DEF ReducedByDiscount, Late
<1>2. Shifts(Cardinality(Cutting(d)), Cardinality(Cutting(d)'),
             Cuts(req[s], d), Cuts(r, d))
  BY Moved DEF CountInv
<1>3. /\ uses[d] \in Nat /\ UsageLimit[d] \in Nat \ {0} /\ Late \in Int
      /\ Cardinality(ReducedByDiscount(d)) \in Nat
      /\ Cardinality(Cutting(d)) \in Nat
      /\ Cardinality(Cutting(d)') <= Late + 1
      /\ Cardinality(Cutting(d)') \in Nat
  BY Numbers
<1>4. DiscountCount(d)
  BY DEF CountInv
<1>5. \/ Cardinality(Cutting(d)') <= Cardinality(Cutting(d))
      \/ uses[d] < UsageLimit[d]
  <2>1. Cuts(req[s], d) \in BOOLEAN /\ Cuts(r, d) \in BOOLEAN
    BY DEF Cuts
  <2> QED
    BY <1>2, <1>3, <2>1 DEF Shifts, DiscountLeft
<1>6. Cardinality(ReducedByDiscount(d)) + Cardinality(Cutting(d)')
        <= UsageLimit[d] + Late
  BY <1>3, <1>4, <1>5 DEF DiscountCount
<1>7. IsFiniteSet(ReducedByDiscount(d))
        /\ Cardinality(ReducedByDiscount(d)) <= uses[d]
  BY <1>4 DEF DiscountCount
<1> QED
  BY <1>1, <1>6, <1>7 DEF DiscountCount

(* The order is created: what the request held or cut is now reduced.      *)
LEMMA CreateCounts ==
  ASSUME CountInv, NEW s \in Slot, CheckoutCreate(s)
  PROVE  /\ Unreduced' /\ \A c \in Code : CodeCount(c)'
         /\ \A d \in Discount : DiscountCount(d)'
<1> DEFINE o == req[s].order
           cut == req[s].cut
           r == [pc |-> "pay", order |-> o]
<1>1. /\ TypeOK /\ req[s].pc = "create" /\ o \in Order /\ cut \in Reductions
      /\ reduced \in [Order -> Reductions]
      /\ status \in [Order -> OrderStatuses \cup {"NONE"}]
      /\ req \in [Slot -> CheckoutRequests] /\ uses \in [Discount -> Nat]
  BY RequestParts
  DEF CountInv, TypeOK, CheckoutTypeOK, CheckoutCreate, Continue, WithOrder
<1>2. /\ status[o] = "NONE" /\ status' = [status EXCEPT ![o] = "PENDING"]
      /\ reduced' = [reduced EXCEPT ![o] = cut]
      /\ req' = [req EXCEPT ![s] = r]
      /\ uses' = [e \in Discount |-> IF e = DiscountOf[o] THEN uses[e] + 1
                                     ELSE uses[e]]
      /\ usedCount' = usedCount
  BY DEF CheckoutCreate, Continue
<1>3. reduced[o] = "nothing"
  BY <1>1, <1>2 DEF CountInv, Unreduced
<1>4. Unreduced'
  BY <1>1, <1>2 DEF CountInv, Unreduced
<1>5. \A x : ~Holds(r, x) /\ ~Waits(r, x) /\ ~Cuts(r, x)
             /\ ~Waits(req[s], x)
  BY <1>1 DEF Holds, Waits, Cuts
<1>6. Late' = Late
  BY DEF Late
<1>7. ASSUME NEW c \in Code PROVE CodeCount(c)'
  <2>1. /\ Shifts(Cardinality(Holding(c)), Cardinality(Holding(c)'),
                  Holds(req[s], c), Holds(r, c))
        /\ Shifts(Cardinality(Waiting(c)), Cardinality(Waiting(c)'),
                  Waits(req[s], c), Waits(r, c))
    BY <1>1, <1>2, Moved
  <2>2. /\ usedCount[c] \in Nat /\ MaxUses[c] \in Nat \ {0} /\ Late \in Int
        /\ Cardinality(ReducedByCode(c)) \in Nat
        /\ Cardinality(Holding(c)) \in Nat /\ Cardinality(Waiting(c)) \in Nat
    BY Numbers
  <2>3. CodeCount(c)
    BY DEF CountInv
  <2>4. Cardinality(Waiting(c)') = Cardinality(Waiting(c))
    BY <1>5, <2>1, <2>2 DEF Shifts, Waits
  <2>5. CASE Holds(req[s], c)
    <3>1. /\ ReducedByCode(c)' = ReducedByCode(c) \cup {o}
          /\ o \notin ReducedByCode(c)
      BY <1>1, <1>2, <1>3, <2>5 DEF ReducedByCode, Holds
    <3>2. /\ IsFiniteSet(ReducedByCode(c)')
          /\ Cardinality(ReducedByCode(c)') = Cardinality(ReducedByCode(c)) + 1
      BY <2>3, <3>1, FS_AddElement DEF CodeCount
    <3>3. Cardinality(Holding(c)') = Cardinality(Holding(c)) - 1
      <4>1. Holds(req[s], c) = TRUE /\ Holds(r, c) = FALSE
        BY <1>5, <2>5 DEF Holds
      <4> QED
        BY <2>1, <4>1 DEF Shifts
    <3>4. Cardinality(ReducedByCode(c)') + Cardinality(Holding(c)')
            <= usedCount[c]
      BY <2>2, <2>3, <3>2, <3>3 DEF CodeCount
    <3> QED
      BY <1>2, <1>6, <2>3, <2>4, <3>2, <3>4 DEF CodeCount
  <2>6. CASE ~Holds(req[s], c)
    <3>1. ReducedByCode(c)' = ReducedByCode(c)
      BY <1>1, <1>2, <1>3, <2>6 DEF ReducedByCode, Holds
    <3>2. Cardinality(Holding(c)') = Cardinality(Holding(c))
      <4>1. Holds(req[s], c) = FALSE /\ Holds(r, c) = FALSE
        BY <1>5, <2>6 DEF Holds
      <4> QED
        BY <2>1, <4>1 DEF Shifts
    <3> QED
      BY <1>2, <1>6, <2>3, <2>4, <3>1, <3>2 DEF CodeCount
  <2> QED
    BY <2>5, <2>6
<1>8. ASSUME NEW d \in Discount PROVE DiscountCount(d)'
  <2>1. Shifts(Cardinality(Cutting(d)), Cardinality(Cutting(d)'),
               Cuts(req[s], d), Cuts(r, d))
    BY <1>1, <1>2, Moved
  <2>2. /\ uses[d] \in Nat /\ UsageLimit[d] \in Nat \ {0} /\ Late \in Int
        /\ Cardinality(ReducedByDiscount(d)) \in Nat
        /\ Cardinality(Cutting(d)) \in Nat
    BY Numbers
  <2>3. DiscountCount(d)
    BY DEF CountInv
  <2>4. uses'[d] = IF DiscountOf[o] = d THEN uses[d] + 1 ELSE uses[d]
    BY <1>2
  <2>5. CASE Cuts(req[s], d)
    <3>1. /\ ReducedByDiscount(d)' = ReducedByDiscount(d) \cup {o}
          /\ o \notin ReducedByDiscount(d) /\ DiscountOf[o] = d
      BY <1>1, <1>2, <1>3, <2>5 DEF ReducedByDiscount, Cuts
    <3>2. /\ IsFiniteSet(ReducedByDiscount(d)')
          /\ Cardinality(ReducedByDiscount(d)')
               = Cardinality(ReducedByDiscount(d)) + 1
      BY <2>3, <3>1, FS_AddElement DEF DiscountCount
    <3>3. Cardinality(Cutting(d)') = Cardinality(Cutting(d)) - 1
      <4>1. Cuts(req[s], d) = TRUE /\ Cuts(r, d) = FALSE
        BY <1>5, <2>5 DEF Cuts
      <4> QED
        BY <2>1, <4>1 DEF Shifts
    <3>4. /\ Cardinality(ReducedByDiscount(d)') <= uses'[d]
          /\ Cardinality(ReducedByDiscount(d)') + Cardinality(Cutting(d)')
               <= UsageLimit[d] + Late
      BY <2>2, <2>3, <2>4, <3>1, <3>2, <3>3 DEF DiscountCount
    <3> QED
      BY <1>6, <3>2, <3>4 DEF DiscountCount
  <2>6. CASE ~Cuts(req[s], d)
    <3>1. ReducedByDiscount(d)' = ReducedByDiscount(d)
      BY <1>1, <1>2, <1>3, <2>6 DEF ReducedByDiscount, Cuts
    <3>2. Cardinality(Cutting(d)') = Cardinality(Cutting(d))
      <4>1. Cuts(req[s], d) = FALSE /\ Cuts(r, d) = FALSE
        BY <1>5, <2>6 DEF Cuts
      <4> QED
        BY <2>1, <4>1 DEF Shifts
    <3>3. Cardinality(ReducedByDiscount(d)) <= uses'[d]
      BY <2>2, <2>3, <2>4 DEF DiscountCount
    <3> QED
      BY <1>6, <2>3, <3>1, <3>2, <3>3 DEF DiscountCount
  <2> QED
    BY <2>5, <2>6
<1> QED
  BY <1>4, <1>7, <1>8

(* Every step keeps the counts.                                            *)
LEMMA StepCountInv == CountInv /\ [CheckoutNext]_checkoutVars => CountInv'
<1> SUFFICES ASSUME CountInv, [CheckoutNext]_checkoutVars
             PROVE  /\ Unreduced' /\ \A c \in Code : CodeCount(c)'
                    /\ \A d \in Discount : DiscountCount(d)'
  BY StepTyped DEF CountInv
<1>1. TypeOK /\ Unreduced /\ req \in [Slot -> CheckoutRequests]
        /\ usedCount \in [Code -> Nat]
  BY DEF CountInv, TypeOK, CheckoutTypeOK
<1>2. CASE UNCHANGED checkoutVars
  BY <1>2
  DEF checkoutVars, CountInv, Unreduced, CodeCount, DiscountCount,
      ReducedByCode, ReducedByDiscount, Holding, Waiting, Cutting, Late, Holds,
      Waits, Cuts
<1>3. CASE CheckoutCrash
  <2>1. UNCHANGED <<status, reduced, uses, usedCount>>
          /\ req' = [s \in Slot |-> Idle]
    BY <1>3 DEF CheckoutCrash, database
  <2>2. \A x : Holding(x)' = {} /\ Waiting(x)' = {} /\ Cutting(x)' = {}
    BY <2>1 DEF Holding, Waiting, Cutting, Holds, Waits, Cuts, Idle
  <2>3. Cardinality({}) = 0
    BY FS_EmptySet
  <2>4. /\ \A c : ReducedByCode(c)' = ReducedByCode(c)
        /\ \A d : ReducedByDiscount(d)' = ReducedByDiscount(d)
        /\ Late' = Late
    BY <2>1 DEF ReducedByCode, ReducedByDiscount, Late
  <2>5. ASSUME NEW c \in Code PROVE CodeCount(c)'
    <3>1. CodeCount(c) /\ usedCount[c] \in Nat
            /\ MaxUses[c] \in Nat \ {0} /\ Late \in Int
            /\ Cardinality(ReducedByCode(c)) \in Nat
            /\ Cardinality(Holding(c)) \in Nat
            /\ Cardinality(Waiting(c)) \in Nat
      BY Numbers DEF CountInv
    <3>2. /\ Cardinality(ReducedByCode(c)) + 0 <= usedCount[c]
          /\ usedCount[c] + 0 <= MaxUses[c] + Late
      BY <3>1 DEF CodeCount
    <3> QED
      BY <2>1, <2>2, <2>3, <2>4, <3>1, <3>2 DEF CodeCount
  <2>6. ASSUME NEW d \in Discount PROVE DiscountCount(d)'
    <3>1. DiscountCount(d) /\ uses[d] \in Nat /\ UsageLimit[d] \in Nat \ {0}
            /\ Late \in Int /\ Cardinality(ReducedByDiscount(d)) \in Nat
            /\ Cardinality(Cutting(d)) \in Nat
      BY Numbers DEF CountInv
    <3>2. Cardinality(ReducedByDiscount(d)) + 0 <= UsageLimit[d] + Late
      BY <3>1 DEF DiscountCount
    <3> QED
      BY <2>1, <2>2, <2>3, <2>4, <3>1, <3>2 DEF DiscountCount
  <2> QED
    BY <1>1, <2>1, <2>5, <2>6 DEF Unreduced
<1>4. ASSUME NEW s \in Slot, NEW r, Reads(s, r), ReadTo(r)
      PROVE  /\ Unreduced' /\ \A c \in Code : CodeCount(c)'
             /\ \A d \in Discount : DiscountCount(d)'
  <2>1. /\ req' = [req EXCEPT ![s] = r]
        /\ UNCHANGED <<status, reduced, uses, usedCount>>
    BY <1>4 DEF Reads, Puts, rows
  <2>2. /\ \A c : ~Holds(r, c)
        /\ \A c \in Code : Waits(r, c) => CodeLeft(c)
        /\ \A d \in Discount : Cuts(r, d) => DiscountLeft(d)
    BY <1>4 DEF ReadTo, Holds, Waits, Cuts, Idle
  <2> QED
    BY <1>1, <2>1, <2>2, CodeMoves, DiscountMoves DEF Unreduced
<1>5. ASSUME NEW s \in Slot, CheckoutUseCode(s) \/ ApplyUse(s)
      PROVE  /\ Unreduced' /\ \A c \in Code : CodeCount(c)'
             /\ \A d \in Discount : DiscountCount(d)'
  <2>1. PICK r, k :
          /\ req' = [req EXCEPT ![s] = r]
          /\ usedCount' = [usedCount EXCEPT ![k] = @ + 1]
          /\ \A c : Waits(req[s], c) <=> c = k
          /\ \A c : ~Waits(r, c) /\ ~Cuts(r, c)
          /\ \A c : Holds(r, c) => c = k
    <3>1. CASE CheckoutUseCode(s)
      <4> DEFINE r == [pc |-> "create", order |-> req[s].order, cut |-> "code"]
                 k == CodeOf[req[s].order]
      <4>1. /\ req' = [req EXCEPT ![s] = r]
            /\ usedCount' = [usedCount EXCEPT ![k] = @ + 1]
        BY <3>1 DEF CheckoutUseCode, Continue, UseCode
      <4>2. /\ \A c : Waits(req[s], c) <=> c = k
            /\ \A c : ~Waits(r, c) /\ ~Cuts(r, c)
            /\ \A c : Holds(r, c) => c = k
        BY <3>1 DEF CheckoutUseCode, Continue, Waits, Cuts, Holds
      <4> QED
        BY <4>1, <4>2
    <3>2. CASE ApplyUse(s)
      <4>1. /\ req' = [req EXCEPT ![s] = Idle]
            /\ usedCount' = [usedCount EXCEPT ![req[s].code] = @ + 1]
        BY <3>2 DEF ApplyUse, Continue, UseCode
      <4>2. /\ \A c : Waits(req[s], c) <=> c = req[s].code
            /\ \A c : ~Waits(Idle, c) /\ ~Cuts(Idle, c) /\ ~Holds(Idle, c)
        BY <3>2 DEF ApplyUse, Continue, Waits, Cuts, Holds, Idle
      <4> QED
        BY <4>1, <4>2
    <3> QED
      BY <1>5, <3>1, <3>2
  <2>2. UNCHANGED <<status, reduced, uses>>
    BY <1>5 DEF CheckoutUseCode, ApplyUse
  <2>3. ASSUME NEW c \in Code PROVE CodeCount(c)'
    <3>1. CASE c = k
      <4>1. usedCount'[c] = usedCount[c] + 1
        BY <1>1, <2>1, <3>1
      <4> QED
        BY <2>1, <2>2, <3>1, <4>1, CodeCounts
    <3>2. CASE c # k
      <4>1. usedCount'[c] = usedCount[c]
        BY <1>1, <2>1, <3>2
      <4> QED
        BY <2>1, <2>2, <3>2, <4>1, CodeMoves
    <3> QED
      BY <3>1, <3>2
  <2>4. \A d \in Discount : DiscountCount(d)'
    BY <2>1, <2>2, DiscountMoves
  <2> QED
    BY <1>1, <2>2, <2>3, <2>4 DEF Unreduced
<1>6. ASSUME NEW s \in Slot, CheckoutPay(s) \/ CheckoutStore(s)
      PROVE  /\ Unreduced' /\ \A c \in Code : CodeCount(c)'
             /\ \A d \in Discount : DiscountCount(d)'
  <2>1. PICK r : /\ req' = [req EXCEPT ![s] = r]
                 /\ r.pc \in {"store", "idle"}
    <3>1. CASE CheckoutPay(s)
      <4> DEFINE r == [pc |-> "store", order |-> req[s].order]
      <4>1. req' = [req EXCEPT ![s] = r] /\ r.pc = "store"
        BY <3>1 DEF CheckoutPay, Continue
      <4> HIDE DEF r
      <4> QED
        BY <4>1
    <3>2. CASE CheckoutStore(s)
      <4>1. req' = [req EXCEPT ![s] = Idle] /\ Idle.pc = "idle"
        BY <3>2 DEF CheckoutStore, Continue, Idle
      <4> QED
        BY <4>1
    <3> QED
      BY <1>6, <3>1, <3>2
  <2>2. UNCHANGED <<status, reduced, uses, usedCount>>
    BY <1>6 DEF CheckoutPay, CheckoutStore, database
  <2>3. \A c : ~Holds(r, c) /\ ~Waits(r, c) /\ ~Cuts(r, c)
    BY <2>1 DEF Holds, Waits, Cuts
  <2> QED
    BY <1>1, <2>1, <2>2, <2>3, CodeMoves, DiscountMoves DEF Unreduced
<1> QED
  BY <1>1, <1>2, <1>3, <1>4, <1>5, <1>6, CreateCounts, Steps

(* At first nothing is counted.                                            *)
LEMMA InitCountInv == CheckoutInit => CountInv
<1> SUFFICES ASSUME CheckoutInit PROVE CountInv
  OBVIOUS
<1>1. /\ \A x : Holding(x) = {} /\ Waiting(x) = {} /\ Cutting(x) = {}
      /\ \A x : ReducedByCode(x) = {} /\ ReducedByDiscount(x) = {}
  BY DEF CheckoutInit, Holding, Waiting, Cutting, Holds, Waits, Cuts, Idle,
         ReducedByCode, ReducedByDiscount
<1>2. IsFiniteSet({}) /\ Cardinality({}) = 0
  BY FS_EmptySet
<1>3. Late \in Int /\ Late >= -1
  BY SlotsAssumption, FS_CardinalityType DEF Late
<1>4. ASSUME NEW c \in Code PROVE CodeCount(c)
  <2>1. usedCount[c] = 0 /\ MaxUses[c] \in Nat \ {0}
    BY CheckoutAssumption DEF CheckoutInit
  <2>2. Cardinality(ReducedByCode(c)) = 0 /\ Cardinality(Holding(c)) = 0
          /\ Cardinality(Waiting(c)) = 0 /\ IsFiniteSet(ReducedByCode(c))
    BY <1>1, <1>2
  <2> QED
    BY <1>3, <2>1, <2>2 DEF CodeCount
<1>5. ASSUME NEW d \in Discount PROVE DiscountCount(d)
  <2>1. uses[d] = 0 /\ UsageLimit[d] \in Nat \ {0}
    BY CheckoutAssumption DEF CheckoutInit
  <2>2. Cardinality(ReducedByDiscount(d)) = 0 /\ Cardinality(Cutting(d)) = 0
          /\ IsFiniteSet(ReducedByDiscount(d))
    BY <1>1, <1>2
  <2> QED
    BY <1>3, <2>1, <2>2 DEF DiscountCount
<1>6. Unreduced
  BY DEF CheckoutInit, Unreduced
<1> QED
  BY <1>4, <1>5, <1>6, InitTyped DEF CountInv

(* The counts hold in every state.                                         *)
LEMMA Counted == CheckoutSpec => []CountInv
  BY InitCountInv, StepCountInv, PTL DEF CheckoutSpec

(* Whatever fails or crashes between the count and the order, no order is  *)
(* reduced that was not counted (discount-code.service.ts applyCode,       *)
(* storefront.service.ts checkout).                                        *)
THEOREM ReductionsAreCounted == CheckoutSpec => []EveryReductionIsCounted
<1>1. CountInv => EveryReductionIsCounted
  <2>1. \A c : InFlight("create",
                 LAMBDA r : r.cut = "code" /\ CodeOf[r.order] = c)
               = Holding(c)
    BY DEF InFlight, Holding, Holds
  <2> QED
    BY <2>1 DEF CountInv, CodeCount, DiscountCount, EveryReductionIsCounted
<1> QED
  BY <1>1, Counted, PTL

(* The limits are read before they are counted, and are overrun by no more *)
(* than the other requests in flight.                                      *)
THEOREM OverrunIsBounded == CheckoutSpec => []OverrunBounded
<1>1. CountInv => OverrunBounded
  <2> SUFFICES ASSUME CountInv PROVE OverrunBounded
    OBVIOUS
  <2>1. ASSUME NEW c \in Code PROVE usedCount[c] <= MaxUses[c] + Late
    BY Numbers DEF CountInv, CodeCount
  <2>2. ASSUME NEW d \in Discount
        PROVE  Cardinality(ReducedByDiscount(d)) <= UsageLimit[d] + Late
    BY Numbers DEF CountInv, DiscountCount
  <2> QED
    BY <2>1, <2>2 DEF OverrunBounded, Late
<1> QED
  BY <1>1, Counted, PTL
-----------------------------------------------------------------------------
(* The contract.                                                           *)

(* A request that is to count a code, or that reduces a price, names the   *)
(* code or the discount it does so by.                                     *)
Own ==
  \A s \in Slot : LET r == req[s] IN
    /\ r.pc = "useCode" => CodeOf[r.order] \in Code
    /\ r.pc = "create" /\ r.cut = "code" => CodeOf[r.order] \in Code
    /\ r.pc = "create" /\ r.cut = "discount"
         => DiscountOf[r.order] \in Discount

KeptInv == CountInv /\ PayInv /\ Own

(* A request keeps naming what it reduces by.                              *)
LEMMA StepOwn ==
  ASSUME TypeOK, Own, [CheckoutNext]_checkoutVars PROVE Own'
<1>1. req \in [Slot -> CheckoutRequests]
  BY DEF TypeOK
<1>2. CASE UNCHANGED checkoutVars
  BY <1>2 DEF checkoutVars, Own
<1>3. CASE CheckoutCrash
  BY <1>3 DEF CheckoutCrash, Own, Idle
<1>4. ASSUME NEW s \in Slot, NEW r, Reads(s, r), ReadTo(r) PROVE Own'
  <2>1. /\ r.pc = "useCode" => CodeOf[r.order] \in Code
        /\ r.pc = "create" => r.cut # "code"
        /\ r.pc = "create" /\ r.cut = "discount"
             => DiscountOf[r.order] \in Discount
    BY <1>4 DEF ReadTo, Idle
  <2> QED
    BY <1>1, <1>4, <2>1 DEF Reads, Puts, Own
<1>5. ASSUME NEW s \in Slot, CheckoutUseCode(s) PROVE Own'
  BY <1>1, <1>5 DEF CheckoutUseCode, Continue, Own
<1>6. ASSUME NEW s \in Slot,
             ApplyUse(s) \/ CheckoutCreate(s) \/ CheckoutPay(s)
               \/ CheckoutStore(s)
      PROVE  Own'
  BY <1>1, <1>6
  DEF ApplyUse, CheckoutCreate, CheckoutPay, CheckoutStore, Continue, Own,
      Idle
<1> QED
  BY <1>2, <1>3, <1>4, <1>5, <1>6, Steps

(* What the refinement needs of every state.                               *)
LEMMA KeptInvHolds == CheckoutSpec => []KeptInv
<1>1. CheckoutInit => KeptInv
  <2> SUFFICES ASSUME CheckoutInit PROVE PayInv /\ Own
    BY InitCountInv DEF KeptInv
  <2> QED
    BY InitTyped
    DEF CheckoutInit, PayInv, PaymentFollowsOrder, Paying, Idle, Own
<1>2. KeptInv /\ [CheckoutNext]_checkoutVars => KeptInv'
  BY StepCountInv, StepPayInv, StepOwn DEF KeptInv, CountInv
<1> QED
  BY <1>1, <1>2, PTL DEF CheckoutSpec

(* A set of slots with s in it counts at least one.                        *)
LEMMA AtLeastOne ==
  ASSUME NEW S \in SUBSET Slot, NEW s \in S
  PROVE  Cardinality(S) \in Nat /\ Cardinality(S) >= 1
<1>1. IsFiniteSet(S) /\ Cardinality(S) \in Nat
  BY SlotSets
<1>2. Cardinality(S) # 0
  BY <1>1, FS_EmptySet
<1> QED
  BY <1>1, <1>2

(* A code is counted, by a checkout or by /apply-discount.                 *)
LEMMA UseCounts ==
  ASSUME KeptInv, NEW s \in Slot, CheckoutUseCode(s) \/ ApplyUse(s)
  PROVE  \E c \in Code : Purchase!Count(c)
<1>1. req[s] \in CheckoutRequests /\ CountInv
  BY DEF KeptInv, CountInv, TypeOK
<1>2. PICK c \in Code :
        Waits(req[s], c) /\ usedCount' = [usedCount EXCEPT ![c] = @ + 1]
  <2>1. CASE CheckoutUseCode(s)
    BY <2>1 DEF CheckoutUseCode, Continue, UseCode, Waits, KeptInv, Own
  <2>2. CASE ApplyUse(s)
    <3>1. req[s].code \in Code
      BY <1>1, <2>2, RequestParts DEF ApplyUse, Continue
    <3> QED
      BY <2>2, <3>1 DEF ApplyUse, Continue, UseCode, Waits
  <2> QED
    BY <2>1, <2>2
<1>3. Cardinality(Waiting(c)) \in Nat /\ Cardinality(Waiting(c)) >= 1
  <2>1. Waiting(c) \in SUBSET Slot /\ s \in Waiting(c)
    BY <1>2 DEF Waiting
  <2> QED
    BY <2>1, AtLeastOne
<1>4. usedCount[c] < MaxUses[c] + Late
  <2>1. /\ usedCount[c] \in Nat /\ MaxUses[c] \in Nat /\ Late \in Int
        /\ usedCount[c] + Cardinality(Waiting(c)) <= MaxUses[c] + Late
    BY <1>1, Numbers DEF CountInv, CodeCount
  <2> QED
    BY <1>3, <2>1
<1>5. UNCHANGED <<status, reduced, provider, paymentId>>
  BY DEF CheckoutUseCode, ApplyUse
<1> QED
  BY <1>2, <1>4, <1>5 DEF Purchase!Count, Prices, Late

(* The contract counts as this module does.                                *)
LEMMA SameSize ==
  ASSUME NEW S PROVE Purchase!Cardinality(S) = Cardinality(S)
  BY DEF Purchase!Cardinality, Cardinality

(* The order's price is settled in the transaction that creates it.        *)
LEMMA CreatePlaces ==
  ASSUME KeptInv, NEW s \in Slot, CheckoutCreate(s)
  PROVE  \E o \in Order : \/ Purchase!Place(o, "nothing")
                          \/ Purchase!PlaceWithCode(o)
                          \/ Purchase!PlaceWithDiscount(o)
<1> DEFINE o == req[s].order
           cut == req[s].cut
<1>1. /\ CountInv /\ req[s].pc = "create" /\ o \in Order
      /\ cut \in Reductions
      /\ reduced \in [Order -> Reductions]
      /\ status \in [Order -> OrderStatuses \cup {"NONE"}]
  BY RequestParts
  DEF KeptInv, CountInv, TypeOK, CheckoutTypeOK, CheckoutCreate, Continue,
      WithOrder
<1>2. /\ status[o] = "NONE" /\ status' = [status EXCEPT ![o] = "PENDING"]
      /\ reduced' = [reduced EXCEPT ![o] = cut]
      /\ UNCHANGED <<usedCount, provider, paymentId>>
  BY DEF CheckoutCreate, Continue
<1>3. Prices[o] = "unplaced" /\ Prices' = [Prices EXCEPT ![o] = cut]
  BY <1>1, <1>2 DEF Prices
<1>4. Purchase!Place(o, cut)
  BY <1>2, <1>3 DEF Purchase!Place
<1>5. CASE cut = "nothing"
  BY <1>1, <1>4, <1>5
<1>6. CASE cut = "code"
  <2> DEFINE c == CodeOf[o]
  <2>1. c \in Code /\ s \in Holding(c) /\ Holding(c) \in SUBSET Slot
    BY <1>1, <1>6 DEF KeptInv, Own, Holding, Holds
  <2>2. Purchase!By("code", CodeOf, c) = ReducedByCode(c)
    BY <1>1 DEF Purchase!By, Prices, ReducedByCode, CountInv, Unreduced
  <2>3. /\ Cardinality(ReducedByCode(c)) \in Nat /\ usedCount[c] \in Nat
        /\ Cardinality(ReducedByCode(c)) + Cardinality(Holding(c))
             <= usedCount[c]
    BY <1>1, <2>1, Numbers DEF CountInv, CodeCount
  <2>4. Cardinality(Holding(c)) \in Nat /\ Cardinality(Holding(c)) >= 1
    BY <2>1, AtLeastOne
  <2>5. Purchase!Cardinality(Purchase!By("code", CodeOf, c)) < usedCount[c]
    BY <2>2, <2>3, <2>4, SameSize
  <2> QED
    BY <1>1, <1>4, <1>6, <2>1, <2>5 DEF Purchase!PlaceWithCode
<1>7. CASE cut = "discount"
  <2> DEFINE d == DiscountOf[o]
  <2>1. d \in Discount /\ s \in Cutting(d) /\ Cutting(d) \in SUBSET Slot
    BY <1>1, <1>7 DEF KeptInv, Own, Cutting, Cuts
  <2>2. Purchase!By("discount", DiscountOf, d) = ReducedByDiscount(d)
    BY <1>1 DEF Purchase!By, Prices, ReducedByDiscount, CountInv, Unreduced
  <2>3. /\ Cardinality(ReducedByDiscount(d)) \in Nat
        /\ UsageLimit[d] \in Nat /\ Late \in Int
        /\ Cardinality(ReducedByDiscount(d)) + Cardinality(Cutting(d))
             <= UsageLimit[d] + Late
    BY <1>1, <2>1, Numbers DEF CountInv, DiscountCount
  <2>4. Cardinality(Cutting(d)) \in Nat /\ Cardinality(Cutting(d)) >= 1
    BY <2>1, AtLeastOne
  <2>5. Purchase!Cardinality(Purchase!By("discount", DiscountOf, d))
          < UsageLimit[d] + (Cardinality(Slot) - 1)
    BY <2>2, <2>3, <2>4, SameSize DEF Late
  <2> QED
    BY <1>1, <1>4, <1>7, <2>1, <2>5 DEF Purchase!PlaceWithDiscount
<1> QED
  BY <1>1, <1>5, <1>6, <1>7 DEF Reductions

(* The payment, and its id in the row.                                     *)
LEMMA PayCharges ==
  ASSUME KeptInv, NEW s \in Slot, CheckoutPay(s)
  PROVE  \/ \E o \in Order : Purchase!Charge(o)
         \/ UNCHANGED Purchase!checkoutContractVars
<1> DEFINE o == req[s].order
<1>1. /\ req[s].pc = "pay" /\ o \in Order /\ status[o] # "NONE"
      /\ provider \in [Order -> PaymentStates]
      /\ reduced \in [Order -> Reductions]
  BY RequestParts
  DEF KeptInv, PayInv, Paying, TypeOK, CheckoutTypeOK, CheckoutPay, Continue,
      WithOrder
<1>2. /\ provider' = [provider EXCEPT ![o] = "created"]
      /\ UNCHANGED <<status, reduced, usedCount, paymentId>>
  BY DEF CheckoutPay, Continue, database
<1>3. {p \in Order : provider'[p] # "none"}
        = {p \in Order : provider[p] # "none"} \cup {o}
  BY <1>1, <1>2
<1>4. Prices[o] # "unplaced" /\ Prices' = Prices
  BY <1>1, <1>2 DEF Prices, Reductions
<1>5. CASE provider[o] = "none"
  BY <1>1, <1>2, <1>3, <1>4, <1>5 DEF Purchase!Charge
<1>6. CASE provider[o] # "none"
  BY <1>1, <1>2, <1>3, <1>4, <1>6 DEF Purchase!checkoutContractVars
<1> QED
  BY <1>5, <1>6

(* Storing the payment's id is the contract's naming.                      *)
LEMMA StoreNames ==
  ASSUME KeptInv, NEW s \in Slot, CheckoutStore(s)
  PROVE  \/ \E o \in Order : Purchase!Name(o)
         \/ UNCHANGED Purchase!checkoutContractVars
<1> DEFINE o == req[s].order
<1>1. /\ req[s].pc = "store" /\ o \in Order /\ provider[o] # "none"
      /\ paymentId \in [Order -> BOOLEAN]
  BY RequestParts
  DEF KeptInv, PayInv, Paying, TypeOK, CheckoutTypeOK, CheckoutStore,
      Continue, WithOrder
<1>2. /\ paymentId' = [paymentId EXCEPT ![o] = TRUE]
      /\ UNCHANGED <<status, reduced, usedCount, provider>>
  BY DEF CheckoutStore, Continue
<1>3. {p \in Order : paymentId'[p]} = {p \in Order : paymentId[p]} \cup {o}
  BY <1>1, <1>2
<1>4. Prices' = Prices
  BY <1>2 DEF Prices
<1>5. CASE ~paymentId[o]
  BY <1>1, <1>2, <1>3, <1>4, <1>5 DEF Purchase!Name
<1>6. CASE paymentId[o]
  BY <1>1, <1>2, <1>3, <1>4, <1>6 DEF Purchase!checkoutContractVars
<1> QED
  BY <1>5, <1>6

(* The first states are the contract's.                                    *)
LEMMA InitIsContractInit == CheckoutInit => Purchase!Init
  BY DEF CheckoutInit, Purchase!Init, Prices

(* Every step is one of the contract's, or none.                           *)
LEMMA StepIsContractStep ==
  ASSUME KeptInv, [CheckoutNext]_checkoutVars
  PROVE  Purchase!Next \/ UNCHANGED Purchase!checkoutContractVars
<1>1. TypeOK
  BY DEF KeptInv, CountInv
<1>2. CASE UNCHANGED <<status, reduced, usedCount, provider, paymentId>>
  BY <1>2 DEF Prices, Purchase!checkoutContractVars
<1>3. CASE UNCHANGED checkoutVars \/ CheckoutCrash
  BY <1>2, <1>3 DEF checkoutVars, CheckoutCrash, database
<1>4. ASSUME NEW s \in Slot, NEW r, Reads(s, r)
      PROVE  UNCHANGED Purchase!checkoutContractVars
  BY <1>4 DEF Reads, rows, Prices, Purchase!checkoutContractVars
<1>5. ASSUME NEW s \in Slot, CheckoutUseCode(s) \/ ApplyUse(s)
      PROVE  Purchase!Next
  BY <1>5, UseCounts DEF Purchase!Next
<1>6. ASSUME NEW s \in Slot, CheckoutCreate(s) PROVE Purchase!Next
  BY <1>6, CreatePlaces DEF Purchase!Next
<1>7. ASSUME NEW s \in Slot, CheckoutPay(s)
      PROVE  Purchase!Next \/ UNCHANGED Purchase!checkoutContractVars
  BY <1>7, PayCharges DEF Purchase!Next
<1>8. ASSUME NEW s \in Slot, CheckoutStore(s)
      PROVE  Purchase!Next \/ UNCHANGED Purchase!checkoutContractVars
  BY <1>8, StoreNames DEF Purchase!Next
<1> QED
  BY <1>1, <1>3, <1>4, <1>5, <1>6, <1>7, <1>8, Steps

(* Through every overlap, failure and crash, codes, prices and payments    *)
(* change only as if each checkout were atomic: Checkout implements        *)
(* CheckoutContract.                                                       *)
THEOREM CheckoutIsKept == CheckoutSpec => CheckoutKept
<1>1. KeptInv /\ [CheckoutNext]_checkoutVars
        => [Purchase!Next]_(Purchase!checkoutContractVars)
  BY StepIsContractStep
<1> QED
  BY <1>1, InitIsContractInit, KeptInvHolds, PTL
  DEF CheckoutSpec, CheckoutKept, Purchase!Spec
=============================================================================
