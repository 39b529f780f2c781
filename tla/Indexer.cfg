SPECIFICATION Spec
CONSTANTS
  MaxSlot = 2
INVARIANTS
  LabelsNotAhead
  StaleOnlyIfMissed
  GenerationsMatchEvents
PROPERTIES
  StopKeepsHeard
  StopEnds
