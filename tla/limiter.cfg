\* One device, two ticks.
SPECIFICATION Spec
CONSTANTS
  Devices = {d1}
  Tenth = 2
  Limits <- MCLimits
  EnablePriorityBoost = TRUE
  MaxTime = 2
INVARIANTS TokensBounded RateHolds
PROPERTIES OrdinaryWithinRate
CHECK_DEADLOCK FALSE
