SPECIFICATION Spec
CONSTANTS
  n1 = n1
  n2 = n2
  n3 = n3
  None = None
  Dead = Dead
  Stop = Stop
  Nonces <- MixedNonces
  ModeOf <- MixedModes
  ApplyDelay = 1
  ConfirmTimeout = 2
  AckWindow = 1
  Budget <- FlipBudget
INVARIANT ConfirmedNeverPlaintext
