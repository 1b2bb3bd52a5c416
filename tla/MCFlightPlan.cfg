SPECIFICATION Spec
CONSTANTS
  None = None
  Infinity = 500000000
  Halvings = 20
  Routes <- MCRoutes
  Profiles <- MCProfiles
  WindChoices <- MCWindChoices
  Elevations <- MCElevations
  MaxLegs = 2
INVARIANTS
    FuelIsOfTheFlight
    TopsAreFlown
CHECK_DEADLOCK FALSE
