SPECIFICATION Spec
CONSTANTS
  Inputs = {0, 6, 9}
  MaxIterations = 3
  IntModulus = 10
  MailboxBound = 2
CHECK_DEADLOCK FALSE
INVARIANTS SingleContinuation WorksOnCurrent FactorSound
PROPERTY HandlerIsFunction
