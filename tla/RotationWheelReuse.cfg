CONSTANTS
  i1 = i1
  i2 = i2
  Items <- MCItems
  MaxTime = 2
  MaxGen = 2
SPECIFICATION CallsSpec
PROPERTIES
  ImplementsSchedule
