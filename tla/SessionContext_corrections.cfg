SPECIFICATION Spec
CONSTANTS
  None = None
  Unknown = Unknown
  Name = {"crown 14g", "gold leaf 9g", "crown"}
  Karat = {"14k", "18k"}
  Material = {"14k", "18k", "gold"}
  Rows <- MCRows
  Prefixes <- MCPrefixes
  Overlaps <- MCOverlaps
  Address = {"Accra", "Kumasi", "Pokuase"}
  NamesAccra <- MCNamesAccra
  NamesKumasi <- MCNamesKumasi
  NamesGhana <- MCNamesGhana
  Located <- MCLocated
  Accra = "Accra"
  Kumasi = "Kumasi"
  Quantity = {"two"}
  StatedName = {"crown 14g", "gold leaf 9g", "crown"}
  StatedMaterial = {"14k", "gold"}
  StatedAddress = {"Pokuase"}
  StatedOption = {"accra_rider"}
  MaxDetails = 4
  Lists = {}
  MaxGroups = 2
  MaxLists = 0
  Geocoder = {FALSE}
INVARIANT OnlyAnExplicitOptionReplacesAnAddress
