-------------------------- MODULE CheckoutContract --------------------------
(***************************************************************************)
(* What the checkout promises of prices and payments, with no requests,    *)
(* failures or crashes in it:                                              *)
(*                                                                         *)
(*   - a code reduces no more orders than it was counted for, and is never *)
(*     counted back;                                                       *)
(*   - codes and discounts pass their limits by Late at the most;          *)
(*   - the price of an order is settled with the order, for ever;          *)
(*   - a payment is of an order that exists, and an order that names one   *)
(*     has it.                                                             *)
(*                                                                         *)
(* Checkout implements it (CheckoutKept).  That a limit is kept to the     *)
(* letter, or that a code counted for an order that failed is free again,  *)
(* is not promised: Checkout shows that neither holds.                     *)
(***************************************************************************)
EXTENDS Integers, FiniteSets

CONSTANTS
  Order, Code, Discount, CodeOf, DiscountOf, MaxUses, UsageLimit,
  Late  \* how far a limit may be passed

VARIABLES
  counted, \* how often each code was counted
  price,   \* what reduced each order: "code", "discount", "nothing",
           \* or "unplaced"
  charged, \* the orders the provider has a payment of
  named    \* the orders that name theirs

checkoutContractVars == <<counted, price, charged, named>>

By(cut, of, x) == {o \in Order : price[o] = cut /\ of[o] = x}

Init ==
  /\ counted = [c \in Code |-> 0]
  /\ price = [o \in Order |-> "unplaced"]
  /\ charged = {}
  /\ named = {}

Count(c) ==
  /\ counted[c] < MaxUses[c] + Late
  /\ counted' = [counted EXCEPT ![c] = @ + 1]
  /\ UNCHANGED <<price, charged, named>>

Place(o, cut) ==
  /\ price[o] = "unplaced"
  /\ price' = [price EXCEPT ![o] = cut]
  /\ UNCHANGED <<counted, charged, named>>

PlaceWithCode(o) ==
  /\ CodeOf[o] \in Code
  /\ Cardinality(By("code", CodeOf, CodeOf[o])) < counted[CodeOf[o]]
  /\ Place(o, "code")

PlaceWithDiscount(o) ==
  LET d == DiscountOf[o] IN
  /\ d \in Discount
  /\ Cardinality(By("discount", DiscountOf, d)) < UsageLimit[d] + Late
  /\ Place(o, "discount")

Charge(o) ==
  /\ price[o] # "unplaced" /\ o \notin charged
  /\ charged' = charged \cup {o}
  /\ UNCHANGED <<counted, price, named>>

Name(o) ==
  /\ o \in charged \ named
  /\ named' = named \cup {o}
  /\ UNCHANGED <<counted, price, charged>>

Next ==
  \/ \E c \in Code : Count(c)
  \/ \E o \in Order : \/ Place(o, "nothing")
                      \/ PlaceWithCode(o) \/ PlaceWithDiscount(o)
                      \/ Charge(o) \/ Name(o)

Spec == Init /\ [][Next]_checkoutContractVars
=============================================================================
