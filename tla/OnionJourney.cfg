CONSTANTS
  MaxPathLength = 5
  PayloadLengths = {0, 3}
  ReplyLengths = {0, 2}
  OddWidths = {1, 3, 4, 6}
SPECIFICATION Spec
INVARIANTS HeaderIsRight VisitsThePath OddWidthEndsIt SizeIndependentOfPath
