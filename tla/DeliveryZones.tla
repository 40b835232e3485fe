--------------------------- MODULE DeliveryZones ---------------------------
(***************************************************************************)
(* Which delivery arrangement an address maps to:                          *)
(* services/geocoding_tool.py and the curated lists of                     *)
(* services/delivery_tool.py it falls back to.  An address is told apart   *)
(* by the places its text names and by what the geocoder knows of it.  The *)
(* geocoder is external: each call finds it answering or failing, and a    *)
(* missing API key is a geocoder that never answers.                       *)
(***************************************************************************)
EXTENDS FiniteSets

CONSTANTS
  Address,
  NamesAccra, NamesKumasi,   \* addresses naming a listed Accra, Kumasi place
  NamesGhana,                \* addresses naming one of _GHANA_PLACE_NAMES
  Located,                   \* address -> the geocoder's zone, or "unknown"
  Accra, Kumasi              \* the two zone cities, as addresses

DeliveryOptions == {"accra_rider", "kumasi_rider", "international"}
Zones == DeliveryOptions \cup {"ghana_other"}

ASSUME AddressesAssumption ==
  /\ NamesAccra \subseteq Address /\ NamesKumasi \subseteq Address
  /\ NamesGhana \subseteq Address /\ {Accra, Kumasi} \subseteq Address
  /\ Located \in [Address -> Zones \cup {"unknown"}]

RiderZoneCity == [accra_rider |-> Accra, kumasi_rider |-> Kumasi]

\* delivery_tool.py: the curated lists, and whether an address names a place of
\* one.  The lists overlap: the country's holds the two cities, but none of
\* their neighbourhoods.
ContainsPlace(address, list) ==
  address \in [accra |-> NamesAccra, kumasi |-> NamesKumasi, ghana |-> NamesGhana][list]

ClassifyZoneOffline(address) ==
  IF ContainsPlace(address, "accra") THEN "accra_rider"
  ELSE IF ContainsPlace(address, "kumasi") THEN "kumasi_rider"
  ELSE IF ContainsPlace(address, "ghana") THEN "ghana_other"
  ELSE "unclear"

OptionMatchesOffline(option, address) ==
  CASE option = "accra_rider" -> ContainsPlace(address, "accra")
    [] option = "kumasi_rider" -> ContainsPlace(address, "kumasi")
    [] option = "international" -> ~ContainsPlace(address, "ghana")

\* geocoding_tool.py: the geocoder when it answers and knows the address.
Resolved(address, answers) == answers /\ Located[address] # "unknown"

\* No address, no option.
InferDeliveryOption(address, answers) ==
  IF address \notin Address THEN "unclear"
  ELSE IF Resolved(address, answers) THEN Located[address] ELSE ClassifyZoneOffline(address)

ResolveDeliveryMatch(option, address, answers) ==
  IF Resolved(address, answers) THEN option = Located[address]
  ELSE OptionMatchesOffline(option, address)
=============================================================================
