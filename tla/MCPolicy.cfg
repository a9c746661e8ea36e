SPECIFICATION Spec
CONSTANTS
  Top <- mcTop
  Report <- mcReport
  DefaultThresholds <- mcDefault
  FittedThresholds <- mcFitted
INVARIANTS NeverWidens FailureIsNeverAPass DenialIsJustified
PROPERTIES WorseEvidenceNeverRelaxes TroubleNeverLifts
CHECK_DEADLOCK FALSE
