SPECIFICATION ServicesSpec
CONSTANTS
  Process = {api1, celery1}
  Api = {api1}
  Payer = {api1, celery1}
  Screen = {screen1}
  Message = {m1, m2}
  BufferSize = 1
  Faults = TRUE
  worker1 = worker1
  worker2 = worker2
  reader1 = reader1
  reader2 = reader2
  Worker = {worker1, worker2}
  Reader = {reader1, reader2}
  Home <- MCHome
  Editor = {worker1}
  TTL = 1
  BuildTime = 0
  MaxNow = 3
  MaxEdits = 1
  NoEntry = NoEntry
  Ad = {a1}
  Client = {phone}
  Server = {worker1, worker2}
  Schedules <- MCSchedules
  Commits = {TRUE, FALSE}
  Second = 2
  AdTTL = 3
  MaxClock = 8
  MaxAdEdits = 1
  Never = 20
  NoAd = NoAd
  NoAnswer = NoAnswer
  AddressRequest = {u1, u2}
  MaxAddresses = 3
  tea = tea
  milk = milk
  CartProduct = {tea, milk}
  pearls = pearls
  SpecOption = {pearls}
  Extra <- MCExtra
  OptionsOf <- MCOptionsOf
  UnitPrices = {990, 1501}
  Stocks = {1, Unlimited}
  Carts <- MCCarts
  Coupons <- MCCoupons
  PointValues = {0, 2000}
  Unlimited = Unlimited
  NoCoupon = NoCoupon
  NoQuote = NoQuote
  Refused = Refused
  ConfigReader = {u1, u2}
  FlagEditor = {worker1}
  ConfigTTL = 1
  AnswerTime = 1
  MaxConfigTime = 4
  MaxFlags = 1
  MaxDeploys = 1
  NoConfig = NoConfig
  Bill = {b1, b2}
  Receipt = {r1, r2}
  MaxDay = 2
  NoBill = NoBill
  NoReport = NoReport
  OpenId = {wx1}
  GuestToken = {g1}
  GuestRequest = {u1, u2}
  SessionTTL = 2
  RequestTime = 1
  MaxMinute = 5
  MaxUserId = 3
  Session = {u1, u2}
  green = green
  black = black
  Order = {green, black}
  t1 = t1
  q1 = q1
  Price <- MCPrice
  CreatedAt <- MCCreatedAt
  Asks <- MCAsks
  Imported <- MCImported
  MaxPay = 2
  Window = 1
  Entries = {FALSE}
  NoTxn = NoTxn
  NoQr = NoQr
  NoOrder = NoOrder
  NoRecord = NoRecord
  Nobody = Nobody
  Gone = Gone
  large = large
  small = small
  empty = empty
  Purchase = {large, small, empty}
  PointsOf <- MCPoints
  ByStaticCode = {small}
  Awarder = {u1, u2}
  MaxDispatches = 2
  NoAwarder = NoAwarder
  NoPurchase = NoPurchase
  Sale = {green}
  Manager = {u1, u2}
  Sections = 2
  DayLength = 3
  Days = 1
  BoardTTL = 3
  ReadTime = 1
  CommitTime = 1
  FirstTick = 4
  LastTick = 9
  NoBoard = NoBoard
  Hour = 4
  Day = 12
  SlotLength = 2
  SlotSeats = 1
  LeadTime = 1
  Hours <- MCHours
  AskedTimes = {0, 3, 7, 10, 11, 14, 19, 22}
  MaxLocalTime = 9
  MaxPlans = 2
  NoHours = NoHours
  NoTime = NoTime
  NoPlan = NoPlan
VIEW InFocus
SYMMETRY Actors
INVARIANTS
  BoardIsTrue
  ServicesTypeOK
  NoGap
  ChangeIsServed
  QuoteIsKept
  ConfigIsCurrent
  GapsAreReported
  GuestKeepsSession
  
  LedgerBalances
  AwardPerDispatch
  LocksExclude
  PlansFit
PROPERTIES
  ShownIsActive
  AloneRepairs
  ImplementsLedger
CHECK_DEADLOCK FALSE
