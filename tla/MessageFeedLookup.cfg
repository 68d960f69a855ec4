SPECIFICATION MessageSpec
CHECK_DEADLOCK FALSE
CONSTANTS
  MessageChains = {eth, pol}
  FirstChain = eth
  Emitters = {e}
  Messages = {m1, m2}
  NoMessage = NoMessage
  MaxTime = 1
  MaxBlocks = 3
  MaxLostBlocks = 1
INVARIANTS
  LoggedMessagesAreReadable
