SPECIFICATION ServerSpec
CONSTANTS
  Requested <- SmallRings
  Events <- FourEvents
  Lower <- Spelt
  Unset = "none"
  MaxRecorded = 4
  None = None
INVARIANTS
  TypeOK
  QueriesExact
  AnswerAddsUp
  AnswerOfItsMoments
PROPERTIES
  EveryRequestAnswered
