SPECIFICATION Spec
CONSTANTS
  Worlds <- AllWorlds
  Families <- AllFamilies
INVARIANTS AcceptedIsSound RejectionsJustified
CHECK_DEADLOCK FALSE
