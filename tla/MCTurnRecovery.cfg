SPECIFICATION Spec
CONSTANTS
  module = module
  notes = notes
  Turns = 4
  TurnOf <- EditTurnOf
  FilesOf <- EditFilesOf
  Parallel = {3}
  File = {module, notes}
  MaxEdits = 1
  MaxCrashes = 1
SYMMETRY FileSymmetry
CONSTRAINT
  Apart
INVARIANTS
  RecoveryTypeOK
  OriginalKept
  AnswersHonest
  RestoreRetriable
  InterruptedAnswered
PROPERTIES
  CompletedWorkRetained
CHECK_DEADLOCK FALSE
