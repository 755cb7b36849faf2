SPECIFICATION SearchSpec
CONSTANTS
  v1 = v1
  v2 = v2
  v3 = v3
  v4 = v4
  c1 = c1
  c2 = c2
  c3 = c3
  cebu = cebu
  manila = manila
  word = word
  lights = lights
  parking = parking
  Court = {c1, c2, c3}
  DayLength = 6
  SlotIncrement = 1
  MinimumDuration = 1
  MaximumDuration = 3
  PricingRules <- Rules
  Venue = {v1, v2, v3, v4}
  Absent = Absent
  Details <- DetailsOf
  ByName <- Places
  CourtsOf <- Courts
  HoursOf <- Hours
  Amenity = {lights, parking}
  Word = {word}
  City = {cebu}
  SearchDate = {0}
  Price = {1}
  FormDuration = {2, 4}
  HeroDuration = {2, 4}
  DefaultDuration = 2
  Bookable <- Taken
  Moderated = {v2}
  PageLimit = 3
  CandidateCap = 4
INVARIANTS
  RemovingAFilterWidens
  PageTellsTheSearch
CHECK_DEADLOCK FALSE
