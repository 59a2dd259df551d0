SPECIFICATION MCFairSpec
CONSTANTS
  Proc = {p1, p2, p3}
  NUM = 8
  IdxMod = 8
  Shared = FALSE
  Killable = {}
INVARIANTS
  DescriptorsAccounted
  EachRequestOnce
  ReturnsWhenDone
PROPERTIES
  RequestReturns
  DescWaiterWoken
