SPECIFICATION Spec
CONSTANTS
  ama = ama
  kofi = kofi
  ring = ring
  t1 = t1
  t2 = t2
  o1 = o1
  o2 = o2
  None = None
  Customer = {ama, kofi}
  Product = {ring}
  Simple = {}
  Price = {2}
  MaxQuantity = 1
  Token = {t1, t2}
  OrderId = {o1, o2}
  MaxRequests = 1
  FailureThreshold = 0
  InjectionThreshold = 0
  MaxTotal = 3
  MaxOrderQuantity = 1
  Faults = {}
INVARIANT ConfirmedOrdersExist
SYMMETRY Symmetry
CONSTRAINT NoSync
