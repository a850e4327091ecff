CONSTANTS
  MaxID <- MCMaxID
  Words <- MCWords
  Inputs <- UnknownInputs
SPECIFICATION Spec
CHECK_DEADLOCK FALSE
INVARIANTS
  UnknownTypesAreSkipped
