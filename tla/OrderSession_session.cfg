SPECIFICATION Spec
CONSTANTS
  ama = ama
  ring = ring
  t1 = t1
  t2 = t2
  o1 = o1
  o2 = o2
  None = None
  Customer = {ama}
  Product = {ring}
  Simple = {}
  Price = {2, 3}
  MaxQuantity = 1
  Token = {t1, t2}
  OrderId = {o1, o2}
  MaxRequests = 1
  FailureThreshold = 2
  InjectionThreshold = 0
  MaxTotal = 3
  MaxOrderQuantity = 1
  Faults = {"lost_reply", "lookup_fails"}
INVARIANT OrdersMatchTheLastReply
INVARIANT OnePostPerProposal
INVARIANT BareYesReachesItsProposal
INVARIANT SubmittingMeansInFlight
PROPERTY ImplementsContract
PROPERTY EscalatedSessionsAreLeftAlone
SYMMETRY Symmetry
CONSTRAINT StaffOnlyCancel
