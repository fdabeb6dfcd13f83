SPECIFICATION Spec
CONSTANTS
  Letters = {"x", "y"}
  Denied <- MCDenied
  Skipped <- MCSkipped
  Wrappers <- MCWrappers
  Protected <- MCProtected
  GuardLimit = 4
  InspectLimit = 5
  MaxFrame = 2
INVARIANTS
  JudgedByLine
  NoForbiddenLine
