SPECIFICATION FairSpec
CONSTANTS
  ama = ama
  ring = ring
  t1 = t1
  o1 = o1
  None = None
  Customer = {ama}
  Product = {ring}
  Simple = {ring}
  Price = {1, 2}
  MaxQuantity = 3
  Token = {t1}
  OrderId = {o1}
  MaxRequests = 2
  FailureThreshold = 1
  InjectionThreshold = 2
  MaxTotal = 3
  MaxOrderQuantity = 2
  Faults = {"lost_reply", "no_id", "no_total", "lookup_fails"}
INVARIANT TypeOK
INVARIANT NothingOverTheLimit
INVARIANT MismatchesReachAPerson
PROPERTY FlaggedMessagesNeverWrite
PROPERTY ImplementsContract
PROPERTY TurnsEnd
