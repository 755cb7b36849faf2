SPECIFICATION ManageSpec
CONSTANTS
  Photo = {p1, p2, p3}
  Handler = {h1, h2}
  None = None
  MaxPhotos = 3
  MaxRefreshes = 1
  MaxRequests = 4
  Day = {1}
  EndOfDay = 2
  DefaultOpens = 0
  DefaultCloses = 1
  Closure = {c1}
  Promotion = {q1, q2}
  Amenity = {a1, a2}
  MaxEdits = 4
  MaxAsks = 2
INVARIANTS
  PhotosInOrder
  PageShowsPhotos
  WorkspaceShowsTheVenue
PROPERTIES
  NothingLeavesUnasked
SYMMETRY Symmetry
CHECK_DEADLOCK FALSE
