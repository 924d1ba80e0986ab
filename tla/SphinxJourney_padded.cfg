CONSTANTS
  MAX_PATH_LENGTH = 5
  MessageLengths = {0, 7, 60}
  PayloadSizes = {10, 20, 50}
  CutLengths = {10, 20, 40}
  MaxPackets = 1
SPECIFICATION Spec
INVARIANT PaddedLengthAsCommented
