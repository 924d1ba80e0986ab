CONSTANTS
  Nodes = {"a", "b", "c"}
  Sessions = {"s1"}
  Orders <- MCOrders
  Replies <- MCReplies
  NoReply = NoReply
  MaxPathLength = 3
  Listed = {"a", "b", "c"}
  Bound <- MCFaults
SPECIFICATION Spec
INVARIANTS TypeOK UniformSize ArrivesAsPredicted
PROPERTY ImplementsRelays
CHECK_DEADLOCK FALSE
