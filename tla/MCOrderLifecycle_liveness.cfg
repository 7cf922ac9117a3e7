SPECIFICATION FairSpec
CONSTANTS
  MaxOrders = 2
  tea = tea
  milk = milk
  noon = noon
  voucher = voucher
  ann = ann
  Product = {tea, milk}
  Slot = {noon}
  Coupon = {voucher}
  User = {ann}
  Key = {k1, k2}
  MaxQty = 2
  Requests <- MCFewRequests
  Owner <- MCOwner
  InitialStock <- MCStock
  SlotCapacity = 1
  BatchLimit = 1
  Guest = Guest
  NoSlot = NoSlot
  NoCoupon = NoCoupon
  NoRequest = NoRequest
PROPERTIES
  PendingResolved
  ReservationProduced
  MoneyHonoured
