SPECIFICATION Spec
CONSTANTS
  v1 = v1
  s1 = s1
  s2 = s2
  s3 = s3
  none = none
  o1 = o1
  o2 = o2
  o3 = o3
  Order = {o1, o2, o3}
  Variant = {v1}
  Slot = {s1, s2}
  StripeOrder = {}
  Cart <- MCCart
  LargestLine <- MCLargestLine
  InitStock <- MCInitStock
  Backorder = {}
  Discount = {}
  Code = {}
  NoDiscount = none
  DiscountOf <- MCDiscountOf
  CodeOf <- MCDiscountOf
  UsageLimit <- MCLimits
  MaxUses <- MCLimits
  MaxCrashes = 1
  SellerTargets = {}
  CarrierReports = {}
  DelayedOrders = {}
  StockLevels = {}
  DatabaseErrors = FALSE
  MaxRefundMails = 0
SYMMETRY AllSymmetry
CHECK_DEADLOCK FALSE
INVARIANTS
  StockTakenOnlyIfCollected
  CaptureConfirmsOnce
