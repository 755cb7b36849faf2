SPECIFICATION PagesSpec
CONSTANTS
  c1 = c1
  None = None
  Court = {c1}
  Booking = {b1}
  Ref = {p1}
  Refund = {}
  Request = {r1}
  Slot <- OneSlot
  Closure <- NoClosure
  HoldDuration = 0
  RefundWindow = 1
  MaxTime = 2
  QueueRows = 2
  PlayerRows = 1
  MaxReviewers = 1
INVARIANT PaidInventoryIsKept
CHECK_DEADLOCK FALSE
