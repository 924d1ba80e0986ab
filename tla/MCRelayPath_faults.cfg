CONSTANTS
  Nodes = {"a", "b", "c"}
  Sessions = {"s1"}
  Orders <- MCOrders
  Replies = {"r1", "r2"}
  NoReply = NoReply
  MaxPathLength = 2
  Listed = {"a", "b", "c"}
  Bound <- MCFaults
SPECIFICATION FairSpec
INVARIANTS TypeOK FailuresExplained AnswersGenuine
PROPERTIES ImplementsChannel EveryOnionSettles
CHECK_DEADLOCK FALSE
