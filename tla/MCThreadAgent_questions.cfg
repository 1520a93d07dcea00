SPECIFICATION FairSpec
CONSTANTS
  w1 = w1
  w2 = w2
  i1 = i1
  i2 = i2
  Worker <- TwoWorkers
  Incident <- OneIncident
  Limit = 1
  MaxWritten = 2
  MaxOthers = 1
  MaxFaults = 1
  HourlyCap = 2
  DailyCap = 2
  DayHours = 2
INVARIANT TypeOK
INVARIANT NoQuestionIsSkipped
INVARIANT RepeatsAreExcused
INVARIANT HourlyCapHolds
INVARIANT DailyCapHolds
PROPERTY QuestionsAreAnswered
