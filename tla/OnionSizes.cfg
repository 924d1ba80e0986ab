CONSTANTS
  MaxPathLength = 3
  PayloadLengths = {0, 2}
  AlteredValues = {0, 1, 39, 40, 255}
  PathLengths = {1, 2, 3, 4, 5, 6, 7, 8, 9, 10}
  RowPayloads = {0, 128, 256, 512, 1024, 2048, 4096}
SPECIFICATION SpecWithRows
INVARIANTS ProcessedAsSent RefusalsExplained AcceptedIsCanonical CutIsNoticed HopReadsItsOwn
  SizesAsPublished
