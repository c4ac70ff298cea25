SPECIFICATION Spec
CONSTANTS
  aud = aud
  eur = eur
  usd = usd
  Question <- Currencies3
  MaxRequests = 4
INVARIANTS
  NeverGoesBack
  LabelFollowsPicker
CHECK_DEADLOCK FALSE
