CONSTANTS
  MAX_PATH_LENGTH = 5
  MessageLengths = {0, 7, 60}
  PayloadSizes = {10, 20, 32, 33, 50}
  CutLengths = {10, 20, 40}
  MaxPackets = 2
SPECIFICATION Spec
INVARIANTS TypeOK HonestPacketArrives AlteredHeaderStops OnlyTheMessage LinksUnrelated CachedAgrees
PROPERTY ImplementsMixPacket
