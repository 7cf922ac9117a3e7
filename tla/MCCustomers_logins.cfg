SPECIFICATION CustomersSpec
CONSTANTS
  OpenId = {wx1, wx2}
  GuestToken = {}
  GuestRequest = {}
  SessionTTL = 2
  RequestTime = 1
  MaxMinute = 1
  MaxUserId = 4
INVARIANT TokenIsAccepted
CHECK_DEADLOCK FALSE
