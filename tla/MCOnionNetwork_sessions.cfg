CONSTANTS
  Nodes = {"a", "b", "c"}
  Sessions = {"s1", "s2"}
  Orders <- MCMixedOrders
  Replies <- MCTwoReplies
  NoReply = NoReply
  MaxPathLength = 3
  Listed = {"a", "b"}
  Bound <- MCTwoFaults
SPECIFICATION Spec
INVARIANTS NothingRecurs
PROPERTY ImplementsRelays
CHECK_DEADLOCK FALSE
