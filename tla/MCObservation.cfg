SPECIFICATION Spec
CONSTANTS
  Sessions = {s1, s2}
  Readers = {r1, r2}
  Attempts = 2
  MaxChanges = 1
  MaxSequence = 2
SYMMETRY Symmetric
INVARIANTS
  EntriesAreGivenBack
  OnlyItsOwnEventsDisturb
PROPERTIES
  ImplementsSnapshots
CHECK_DEADLOCK FALSE
