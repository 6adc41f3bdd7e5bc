SPECIFICATION Spec
CONSTANTS
  MaxAttempts = 3
  InvalidRetries = 1
  StatusCodes = {200, 400, 401, 429, 500}
  Responses <- MCResponses
  NoResponse <- MCNoResponse
  MaxCost = 1
  MaxPlanRows = 1
  Tables = {"orders", "products"}
  MaxSelected = 2
  MaxRepairs = 2
  Cases <- MCCases
  Dangerous <- MCDangerous
INVARIANTS
  TypeOK
  ResultsAreAudited
  ExecutedWithinSelection
  ModelCallsExact
  HealthyReplayPasses
  ReportAddsUp
PROPERTIES
  EvaluationEnds
CHECK_DEADLOCK FALSE
