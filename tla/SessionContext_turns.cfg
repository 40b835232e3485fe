SPECIFICATION Spec
CONSTANTS
  None = None
  Unknown = Unknown
  Name = {"crown 14g", "gold leaf 9g", "crown"}
  Karat = {"14k", "18k"}
  Material = {"14k", "18k", "gold"}
  Rows <- MCRows
  Prefixes <- MCPrefixes
  Overlaps <- MCOverlaps
  Address = {"Accra", "Kumasi", "Pokuase"}
  NamesAccra <- MCNamesAccra
  NamesKumasi <- MCNamesKumasi
  NamesGhana <- MCNamesGhana
  Located <- MCLocated
  Accra = "Accra"
  Kumasi = "Kumasi"
  Quantity = {"two"}
  StatedName = {"crown 14g", "gold leaf 9g", "crown"}
  StatedMaterial = {"18k", "gold"}
  StatedAddress = {"Pokuase"}
  StatedOption = {"kumasi_rider"}
  MaxDetails = 1
  Lists = {{"crown 14g", "gold leaf 9g"}}
  MaxGroups = 2
  MaxLists = 1
  Geocoder = {TRUE, FALSE}
INVARIANT TypeOK
INVARIANT DetailsBelongToTheirProduct
INVARIANT OptionFitsItsAddress
PROPERTY ProposalsAreForWhatWasNamed
