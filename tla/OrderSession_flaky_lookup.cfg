SPECIFICATION Spec
CONSTANTS
  ama = ama
  ring = ring
  t1 = t1
  o1 = o1
  None = None
  Customer = {ama}
  Product = {ring}
  Simple = {}
  Price = {2}
  MaxQuantity = 1
  Token = {t1}
  OrderId = {o1}
  MaxRequests = 1
  FailureThreshold = 2
  InjectionThreshold = 2
  MaxTotal = 3
  MaxOrderQuantity = 1
  Faults = {"lookup_fails"}
PROPERTY AFlakyLookupIsNotAnAbsence
SYMMETRY Symmetry
