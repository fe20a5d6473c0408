SPECIFICATION FairTicksSpec
CONSTANTS
  Schedules = {b1, b2, h1, h2}
  Broken = {b1, b2}
  Period = 3
  PollsPerHour = 2
  MaxLate = 5
INVARIANTS
  LatenessBounded
  NoRetryStorm
PROPERTIES
  HealthySchedulesCatchUp
