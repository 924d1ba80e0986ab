CONSTANTS
  MaxPathLength = 2
  PayloadLengths = {0}
  AlteredValues = {0, 39, 40}
SPECIFICATION Spec
INVARIANT GarbageNotCrash
