SPECIFICATION Spec
CONSTANTS
  Methods = {"GET", "POST"}
  Limits <- MCLimits
  Statuses = {200, 404, 501, 502, 503}
INVARIANTS
  AnswerInv
  OutcomeInv
PROPERTIES
  NoUnsafeRetry
