SPECIFICATION NotifierFairSpec
CONSTANTS
  Process = {api1, api2, worker}
  Api = {api1, api2}
  Payer = {worker}
  Screen = {s1}
  Message = {m1}
  BufferSize = 2
  Faults = FALSE
PROPERTY PaidIsShown
CHECK_DEADLOCK FALSE
