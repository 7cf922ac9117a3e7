\* A settled job with all its callbacks behind it is the end: nothing more happens.
CHECK_DEADLOCK FALSE
SPECIFICATION FairSpec
CONSTANTS
  Worker = {w1, w2, w3}
  WithPrinter = {w1, w2}
  RetryMax = 2
  Notifications = 2
  MaxMessages = 1
  MaxCrashes = 1
INVARIANTS
  CallsBounded
  DoneMeansPrinted
  AbandonedIsReported
PROPERTIES
  WaitingIsTakenUp
  SettlesUnlessCrashed
