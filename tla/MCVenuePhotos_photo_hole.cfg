SPECIFICATION ManageSpec
CONSTANTS
  Photo = {p1, p2, p3}
  Handler = {h1}
  None = None
  MaxPhotos = 3
  MaxRefreshes = 1
  MaxRequests = 4
  Day = {1}
  EndOfDay = 2
  DefaultOpens = 0
  DefaultCloses = 1
  Closure = {c1}
  Promotion = {q1, q2}
  Amenity = {a1, a2}
  MaxEdits = 1
  MaxAsks = 1
INVARIANT UploadsBelowLimitSucceed
CHECK_DEADLOCK FALSE
