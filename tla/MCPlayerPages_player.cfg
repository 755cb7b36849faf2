SPECIFICATION PlayerSpec
CONSTANTS
  c = c
  b1 = b1
  b2 = b2
  b3 = b3
  thisVenue = thisVenue
  other = other
  Court = {c}
  ThisCourt = c
  None = None
  Handler = {h1, h2}
  DayLength = 6
  SlotIncrement = 2
  MinimumDuration = 2
  MaximumDuration = 4
  PricingRules <- Rules
  Schedule <- Schedules
  Closure <- OneClosure
  Asked <- OneInterval
  Date = {0, 1}
  MaxSaves = 2
  MaxCalls = 3
  Event = {e1, e2}
  ListRows = 1
  Completed = {b1, b2, b3}
  Reviewed <- Subjects
  WithForm = {b1}
  Stars = {2, 5}
  Reviewer = {r1, r2}
  Subject = thisVenue
  LatestRows = 1
INVARIANTS
  ListingIsAuthoritative
  PageHoldsWhatItShows
  OneHoldPerPage
  PartsShowTheirRows
  PageCountsReviews
SYMMETRY Symmetry
CHECK_DEADLOCK FALSE
