SPECIFICATION Spec
CONSTANTS
  N = 4
  Writers <- MCWriters
INVARIANTS
  TypeOK
  EventsHeldInUse
  QueuesReadyInUse
  AllOrNothing
  NoWaitInVain
PROPERTIES
  CallAdvances
  CallsReturn
CHECK_DEADLOCK FALSE
