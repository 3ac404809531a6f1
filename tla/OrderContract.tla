--------------------------- MODULE OrderContract ----------------------------
(***************************************************************************)
(* What the API promises about orders, money and stock, with no requests,  *)
(* retries or crashes in it: every operation is one atomic step.           *)
(*                                                                         *)
(*   - the stock of an order leaves with the step from PENDING to          *)
(*     CONFIRMED that names its transaction, a payment of the order's      *)
(*     method that the provider has collected;                             *)
(*   - stock comes back only with the step that makes a refundable order   *)
(*     REFUNDED;                                                           *)
(*   - any other change of status moves no stock, never makes an order     *)
(*     PENDING, and happens only to an order that exists;                  *)
(*   - otherwise stock changes only when an admin sets it.                 *)
(*                                                                         *)
(* OrderLifecycle implements it (ContractKept).  Two things one might      *)
(* expect are not promised, for the code does not keep them: that a status *)
(* follows the transition table, and that the payment an order is          *)
(* confirmed with is the one made for it.                                  *)
(***************************************************************************)
EXTENDS Integers

CONSTANTS Order, Variant, Cart, InitStock, StripeOrder, StockLevels

VARIABLES
  status,      \* the status of each order, or "NONE"
  paid,        \* the orders whose money was collected
  transaction, \* the payment each order was confirmed with, if any
  stock        \* the stock of each variant

contractVars == <<status, paid, transaction, stock>>

Refundable == {"CONFIRMED", "PROCESSING", "SHIPPED", "DELIVERED"}

Later == Refundable \cup {"CANCELLED", "REFUNDED"}

SetTo(o, s) == status' = [status EXCEPT ![o] = s]

Move(o, sign) ==
  stock' = [v \in Variant |-> stock[v] + sign * Cart[o][v]]

Init ==
  /\ status = [o \in Order |-> "NONE"]
  /\ paid = {}
  /\ transaction = [o \in Order |-> {}]
  /\ stock = InitStock

Place(o) ==
  /\ status[o] = "NONE" /\ SetTo(o, "PENDING")
  /\ UNCHANGED <<paid, transaction, stock>>

Collect(o) ==
  /\ status[o] # "NONE" /\ o \notin paid
  /\ paid' = paid \cup {o}
  /\ UNCHANGED <<status, transaction, stock>>

Confirm(o) ==
  /\ status[o] = "PENDING"
  /\ \E p \in paid :
       /\ o \in StripeOrder <=> p \in StripeOrder
       /\ transaction' = [transaction EXCEPT ![o] = {p}]
  /\ SetTo(o, "CONFIRMED") /\ Move(o, -1)
  /\ UNCHANGED paid

Write(o) ==
  /\ status[o] # "NONE"
  /\ \E s \in Later : SetTo(o, s)
  /\ UNCHANGED <<paid, transaction, stock>>

Refund(o) ==
  /\ status[o] \in Refundable /\ SetTo(o, "REFUNDED") /\ Move(o, 1)
  /\ UNCHANGED <<paid, transaction>>

Adjust(v) ==
  /\ \E quantity \in StockLevels : stock' = [stock EXCEPT ![v] = quantity]
  /\ UNCHANGED <<status, paid, transaction>>

Next ==
  \/ \E o \in Order :
       Place(o) \/ Collect(o) \/ Confirm(o) \/ Write(o) \/ Refund(o)
  \/ \E v \in Variant : Adjust(v)

Spec == Init /\ [][Next]_contractVars
=============================================================================
