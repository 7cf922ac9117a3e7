SPECIFICATION TxFairSpec
CONSTANTS
  MaxOrders = 2
  tea = tea
  milk = milk
  noon = noon
  voucher = voucher
  ann = ann
  Product = {tea}
  Slot = {noon}
  Coupon = {}
  User = {ann}
  Key = {k1, k2}
  MaxQty = 2
  Requests <- MCReservations
  Owner <- MCOwner
  InitialStock <- MCStock
  SlotCapacity = 1
  BatchLimit = 1
  Guest = Guest
  NoSlot = NoSlot
  NoCoupon = NoCoupon
  NoRequest = NoRequest
  Client = {c1, c2}
  Sweeper = {w1}
  Callback = {}
  Batcher = {}
  Nobody = Nobody
PROPERTIES
  TransactionsEnd
  ImplementsLifecycle
