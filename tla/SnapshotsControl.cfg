CONSTANTS
  Number = {1}
  Unreadable = unreadable
  MaxLevels = 2
SPECIFICATION Spec
INVARIANTS
  ControlEventsAreRecognized
