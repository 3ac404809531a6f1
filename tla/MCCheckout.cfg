SPECIFICATION CheckoutSpec
CONSTANTS
  o1 = o1
  o2 = o2
  o3 = o3
  o4 = o4
  v1 = v1
  d1 = d1
  c1 = c1
  s1 = s1
  s2 = s2
  none = none
  Order <- MCOrder
  Variant = {v1}
  Slot = {s1, s2}
  StripeOrder = {o3, o4}
  Cart <- MCCart
  LargestLine <- MCLargestLine
  InitStock <- MCInitStock
  Backorder = {}
  Discount = {d1}
  Code = {c1}
  NoDiscount = none
  DiscountOf <- MCDiscountOf
  CodeOf <- MCCodeOf
  UsageLimit <- MCUsageLimit
  MaxUses <- MCMaxUses
  MaxCrashes = 1
SYMMETRY SlotSymmetry
CHECK_DEADLOCK FALSE
INVARIANTS
  TypeOK
  EveryReductionIsCounted
  OverrunBounded
  PaymentFollowsOrder
PROPERTY CheckoutKept
