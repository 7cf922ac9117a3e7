SPECIFICATION TxSpec
CONSTANTS
  MaxOrders = 2
  tea = tea
  milk = milk
  noon = noon
  voucher = voucher
  ann = ann
  Product = {tea, milk}
  Slot = {}
  Coupon = {voucher}
  User = {ann}
  Key = {k1, k2}
  MaxQty = 2
  Requests <- MCRequests
  Owner <- MCOwner
  InitialStock <- MCStock
  SlotCapacity = 1
  BatchLimit = 2
  Guest = Guest
  NoSlot = NoSlot
  NoCoupon = NoCoupon
  NoRequest = NoRequest
  Client = {c1, c2}
  Sweeper = {w1}
  Callback = {n1}
  Batcher = {}
  Nobody = Nobody
INVARIANTS
  ReadsAreCurrent
PROPERTY ImplementsLifecycle
SYMMETRY SessionSymmetry
