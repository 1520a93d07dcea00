SPECIFICATION EvalSpec
CONSTANTS
  Feed <- Edited
  Incident <- OneIncident
  Questions <- SomeQuestions
  Floor = 4
  CenteredFloor = 4
  ArmK = 3
  RrfK = 3
  K = 1
  MaxFaults = 1
  None = None
INVARIANT ReadyMeansIndexed
INVARIANT NearestIsHeard
INVARIANT AgreementWins
