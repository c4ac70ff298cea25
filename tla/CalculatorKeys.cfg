SPECIFICATION Spec
CONSTANTS
  Digits <- TwoDigits
  MaxLength <- ThreePlaces
  MaxNumber <- TenThousand
  MaxKeys <- NineKeys
INVARIANTS
  StopsOnlyWithoutOperator
  TextIsOneNumber
  SumIsRight
CHECK_DEADLOCK FALSE
