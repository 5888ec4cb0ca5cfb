CONSTANTS
  a = a
  b = b
  broadcast = broadcast
  onA = onA
  NoChannel = NoChannel
  Flows = {f1, f2}
  Channels <- MCChannels
  Posts <- MCPosts
  ChannelOf <- MCChannelOf
  Posters = {p1, p2}
  MaxRefs = 3
  MaxDebt = 1
SPECIFICATION HubSpec
SYMMETRY Symmetry
INVARIANTS
  SubscribersAttached
  DeliveredExactly
  SubscriptionKept
