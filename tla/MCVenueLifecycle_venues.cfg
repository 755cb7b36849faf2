SPECIFICATION Spec
CONSTANTS
  Venue = {v1}
  Coach = {c1}
  Case = {k1}
  Handler = {h1, h2}
  None = None
  MaxModerations = 3
INVARIANTS
  PublicVenuesWereSubmitted
  SuspendedStaysHidden
  AuditsFollowDecisions
SYMMETRY Symmetry
CHECK_DEADLOCK FALSE
