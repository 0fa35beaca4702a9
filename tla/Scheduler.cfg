\* Two keys of different tiers; cadences 2 < 3 < 4 for 24 < 72 < 168 hours.
SPECIFICATION Spec
CONSTANTS
  lic = lic
  self = self
  Domains = {d1, d2}
  Keys = {lic, self}
  Tier <- MCTier
  LicensingCadence = 2
  SelfServeCadence = 3
  DefaultCadence = 4
  Invocations = {i1, i2}
  MaxStarts = 2
  MaxLag = 1
  MaxHour = 5
SYMMETRY MCSymmetry
CHECK_DEADLOCK FALSE
INVARIANTS
  TypeOK
  BacklogBounded
PROPERTY AskedEveryHour
