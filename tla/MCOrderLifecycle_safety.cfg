SPECIFICATION Spec
CONSTANTS
  MaxOrders = 3
  tea = tea
  milk = milk
  noon = noon
  voucher = voucher
  ann = ann
  Product = {tea, milk}
  Slot = {noon}
  Coupon = {voucher}
  User = {ann}
  Key = {k1, k2, k3}
  MaxQty = 2
  Requests <- MCRequests
  Owner <- MCOwner
  InitialStock <- MCStock
  SlotCapacity = 1
  BatchLimit = 2
  Guest = Guest
  NoSlot = NoSlot
  NoCoupon = NoCoupon
  NoRequest = NoRequest
INVARIANTS
  StockConserved
  SlotAccounting
  CouponSpentOnce
  OneOrderPerKey
  PaymentsBacked
  RowsAgree
PROPERTY PaidSticks
SYMMETRY KeySymmetry
