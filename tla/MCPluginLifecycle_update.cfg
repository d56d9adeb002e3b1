\* One installed plugin in a coordinated update, and a call that is cut short.
SPECIFICATION Spec
CONSTANT MaxTrees = 2
INVARIANTS
  UpdateResumes
CHECK_DEADLOCK FALSE
