SPECIFICATION NodeSpec
CONSTANTS
  Callers = {c1, c2, c3}
  FailureThreshold = 2
  MaxFailures = 4
  Burst = 2
  ResultBuffer = 3
  Places = 3
  MaxLost = 2
INVARIANTS NodeTypeOK OpenMeansFailures HalfOpenHasTrial NoResultDropped
PROPERTIES NeverStuck EveryJobAnswered
