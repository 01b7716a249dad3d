SPECIFICATION Spec
CONSTANTS
  None = None
  Unit = 100
  Midnights <- MCMidnights
  FirstWeekday = 3
  MinObservation = 2
  MaxPoints = 7
  DayScale = 60
  Setups <- MCSetups
  Policy <- MCPolicy
  Shapes <- MCShapes
  Tasks <- MCTasks
  TicksPerDay = 4
  Start = 1
  End = 5
  MaxSnapshots = 2
  MaxWait = 1
INVARIANTS
  ReportsAlwaysValidate
  AllocationKeepsItsPlan
  ForecastIsContinuous
  EnrichmentHonoursPrecedence
  EscalationClimbs
PROPERTY WaitingNeverCheapens
