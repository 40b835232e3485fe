SPECIFICATION Spec
CONSTANTS
  None = None
  Product = {"ring", "band", "cuff"}
  Variations <- MCVariations
  NoPrice <- MCNoPrice
  PerPage = 2
  MaxChanges = 1
  MaxSyncs = 2
  Thread = {"warmup", "search"}
  WarmUp = "warmup"
  MaxSearches = 2
  MaxRestarts = 1
INVARIANT TypeOK
INVARIANT CatalogueIsComplete
INVARIANT AnswersScoreTheirOwnRows
INVARIANT MissingEmbeddingsAreExplained
CHECK_DEADLOCK FALSE
