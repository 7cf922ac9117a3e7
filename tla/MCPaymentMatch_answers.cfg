SPECIFICATION MatchSpec
CONSTANTS
  Session = {s1, s2}
  green = green
  black = black
  oolong = oolong
  Order = {green, black}
  t1 = t1
  q1 = q1
  Price <- MCPrice
  CreatedAt <- MCCreatedAt
  Asks <- MCAsks
  Imported <- MCImported
  MaxPay = 3
  Window = 1
  Entries = {TRUE}
  NoTxn = NoTxn
  NoQr = NoQr
  NoOrder = NoOrder
  NoRecord = NoRecord
  Nobody = Nobody
  Gone = Gone
PROPERTY AnswerIsStored
