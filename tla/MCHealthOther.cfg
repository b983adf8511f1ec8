CONSTANTS
  Slots = {p1}
  None = None
SPECIFICATION Spec
PROPERTY HealthyMeansServing
