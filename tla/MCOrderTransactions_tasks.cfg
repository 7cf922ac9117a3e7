SPECIFICATION TxSpec
CONSTANTS
  MaxOrders = 2
  tea = tea
  milk = milk
  noon = noon
  voucher = voucher
  ann = ann
  Product = {tea}
  Slot = {noon}
  Coupon = {voucher}
  User = {ann}
  Key = {k1, k2}
  MaxQty = 2
  Requests <- MCReservations
  Owner <- MCOwner
  InitialStock <- MCStock
  SlotCapacity = 2
  BatchLimit = 1
  Guest = Guest
  NoSlot = NoSlot
  NoCoupon = NoCoupon
  NoRequest = NoRequest
  Client = {c1}
  Sweeper = {w1}
  Callback = {n1}
  Batcher = {b1, b2}
  Nobody = Nobody
PROPERTY ImplementsLifecycle
SYMMETRY TaskSymmetry
