SPECIFICATION Spec
CONSTANTS
  None = None
  Infinity = 500000000
  Halvings = 20
  Routes <- MCRoutes
  Profiles <- MCHighCruise
  WindChoices <- MCWindChoices
  Elevations <- MCElevations
  MaxLegs = 2
INVARIANT TripFuelIsOfTheRoute
CHECK_DEADLOCK FALSE
