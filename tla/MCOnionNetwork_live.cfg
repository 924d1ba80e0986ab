CONSTANTS
  Nodes = {"a", "b", "c"}
  Sessions = {"s1"}
  Orders <- MCShort
  Replies <- MCReplies
  NoReply = NoReply
  MaxPathLength = 2
  Listed = {"a", "b", "c"}
  Bound <- MCLiveFaults
SPECIFICATION FairSpec
PROPERTIES EveryOnionSettles ImplementsRelays
CHECK_DEADLOCK FALSE
