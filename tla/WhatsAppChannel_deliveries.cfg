SPECIFICATION Spec
CONSTANTS
  None = None
  Payload = {"p1", "p2"}
  Message = {"text", "voice", "photo", "unread", "sticker", "broken", "behind"}
  Customer = {"ama", "kofi"}
  Changes <- MCChanges
  From <- MCFrom
  Type <- MCType
  MaxDeliveries <- MCMaxDeliveries
  MaxRetries = 1
  Product = {"ring", "chain"}
  Browses <- MCBrowses
  HasPhoto = {"ring"}
INVARIANT TypeOK
INVARIANT OneTurnAtATime
INVARIANT TurnsMatchDeliveries
INVARIANT RepliesReachTheCustomer
INVARIANT RepliesFallBackToWords
PROPERTY ImplementsTurns
PROPERTY PayloadsAreWorkedOff
CHECK_DEADLOCK FALSE
