CONSTANTS
  MaxID <- MCMaxID
  Words <- MCWords
  Inputs <- MCInputs
SPECIFICATION Spec
CHECK_DEADLOCK FALSE
INVARIANTS
  TypeOK
  BodiesAreUnfolded
  CyclesAreRefused
  TypesComeFromTheirFile
  AllOrNothing
  CodeIsClosed
  MapsMatchStatements
