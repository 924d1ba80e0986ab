CONSTANTS
  MaxPathLength = 2
  PayloadLengths = {3}
  ReplyLengths = {2}
  OddWidths = {}
SPECIFICATION Spec
INVARIANT TagIsTheOneReceived
