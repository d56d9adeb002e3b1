\* Four trees: a plugin is installed, replaced and replaced again, or removed
\* and installed again, with a crash anywhere and a coordinated update beside.
\* The calls end when every tree is used.
SPECIFICATION Spec
CONSTANT MaxTrees = 4
INVARIANTS
  CohortQuiesced
PROPERTIES
  SlotImplemented
CHECK_DEADLOCK FALSE
