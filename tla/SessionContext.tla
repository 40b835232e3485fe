--------------------------- MODULE SessionContext ---------------------------
(***************************************************************************)
(* What one session remembers between turns, and what it fills in from it: *)
(* fill_missing_context() and remember_context() of services/memory.py,    *)
(* the ambiguous-reference guard of services/router.py with its stash, and *)
(* the part of order_tool.propose_order() that turns the arguments into a  *)
(* proposal, on top of the lookups of ProductLookup and DeliveryZones.     *)
(*                                                                         *)
(* The session's turns are atomic here: route_customer() holds the         *)
(* session's lock for all of a turn.  The language model is external and   *)
(* may answer with any tool and arguments.  An answer of several requests  *)
(* is a sequence of steps with whole = FALSE, since neither the guard nor  *)
(* the stash applies to one; so is a bare answer that bypasses the model.  *)
(*                                                                         *)
(* Every detail carries its provenance: "of" is the set of things it may   *)
(* have been said about (products for a karat or a quantity, addresses for *)
(* a delivery option), which the code does not keep.                       *)
(***************************************************************************)
EXTENDS ProductLookup, DeliveryZones

CONSTANTS
  Quantity,
  StatedName, StatedMaterial, StatedAddress, StatedOption,  \* what messages say
  MaxDetails,                               \* details in one message
  Lists,                                    \* the categories, as sets of products
  MaxGroups,                                \* max_groups: products a browse shows
  MaxLists,                                 \* bound on lists shown
  Geocoder,                                 \* how the geocoder's calls may go
  Unknown                                   \* the model's "unknown"

ASSUME ContextAssumption ==
  /\ StatedName \subseteq Name /\ StatedMaterial \subseteq Material
  /\ StatedAddress \subseteq Address
  /\ StatedOption \subseteq DeliveryOptions /\ Lists \subseteq SUBSET Name
  /\ MaxDetails \in Nat /\ MaxLists \in Nat /\ MaxGroups \in Nat /\ Geocoder \subseteq BOOLEAN

VARIABLES
  mem,        \* the remembered keys
  pending,    \* the proposal, as far as a later propose_order() reads it
  presented,  \* last_presented_products
  stash       \* pending_clarification_details

vars == <<mem, pending, presented, stash>>

-----------------------------------------------------------------------------
(* Values.                                                                 *)

Key == {"product_name", "material", "quantity", "delivery_address", "delivery_option"}
ProductSpecificKeys == {"material", "quantity"}

Values == [product_name |-> Name, material |-> Material, quantity |-> Quantity,
           delivery_address |-> Address,
           delivery_option |-> DeliveryOptions \cup {"team_confirm"}]

\* The keys each tool takes.  A key a tool does not take is not in the domain
\* of its arguments.
Takes == [get_product_price |-> {"product_name", "material"},
          generate_quote |-> {"product_name", "material"},
          get_product_karat_options |-> {"product_name"},
          get_product_weight |-> {"product_name"},
          recommend_products |-> {"material"},
          propose_order |-> Key]
ProductSpecificTools == DOMAIN Takes \ {"recommend_products"}

Detail == [value: UNION {Values[k] : k \in Key}, of: SUBSET (Name \cup Address \cup {None})]
Proposal == [product: Name, id: Nat, address: Address]

ASSUME AbsenceAssumption ==
  /\ None # Unknown
  /\ {None, Unknown} \cap (Name \cup Material \cup Address \cup DeliveryOptions) = {}
  /\ None \notin Detail /\ Unknown \notin Detail
  /\ None \notin Proposal
Remembered(key) == IF mem[key] = None THEN None ELSE mem[key].value

-----------------------------------------------------------------------------
(* services/memory.py.                                                     *)

Gives(args, key) == key \in DOMAIN args /\ args[key] # Unknown
Given(args, key) == IF Gives(args, key) THEN args[key].value ELSE Unknown

NamesADifferentProduct(args) ==
  /\ mem["product_name"] # None
  /\ Gives(args, "product_name")
  /\ args["product_name"].value # mem["product_name"].value

NamesADifferentAddress(args) ==
  /\ Gives(args, "delivery_address")
  /\ IF mem["delivery_address"] = None THEN mem["delivery_option"] # None
     ELSE args["delivery_address"].value # mem["delivery_address"].value

\* mutant: a change of product is not noticed
FillMissingContextAnyProduct(args) ==
  LET addressChanged == NamesADifferentAddress(args)
      fills(key) == /\ args[key] = Unknown /\ mem[key] # None
                    /\ ~(addressChanged /\ key = "delivery_option")
  IN [key \in DOMAIN args |-> IF fills(key) THEN mem[key] ELSE args[key]]

FillMissingContext(args) ==
  LET productChanged == NamesADifferentProduct(args)
      addressChanged == NamesADifferentAddress(args)
      fills(key) ==
        /\ args[key] = Unknown /\ mem[key] # None
        /\ ~(productChanged /\ key \in ProductSpecificKeys)
        /\ ~(addressChanged /\ key = "delivery_option")
  IN [key \in DOMAIN args |-> IF fills(key) THEN mem[key] ELSE args[key]]

\* mutant: the option outlives the address
RememberContextKeepsOption(args) ==
  LET cleared == IF NamesADifferentProduct(args) THEN ProductSpecificKeys ELSE {}
  IN [key \in Key |-> IF Gives(args, key) THEN args[key]
                      ELSE IF key \in cleared THEN None ELSE mem[key]]

\* mutant: the "unknown" sentinel is remembered like a value
RememberContextAll(args) ==
  [key \in Key |-> IF key \in DOMAIN args THEN args[key] ELSE mem[key]]

RememberContext(args) ==
  LET cleared == (IF NamesADifferentProduct(args) THEN ProductSpecificKeys ELSE {})
            \cup (IF NamesADifferentAddress(args) THEN {"delivery_option"} ELSE {})
  IN [key \in Key |-> IF Gives(args, key) THEN args[key]
                      ELSE IF key \in cleared THEN None ELSE mem[key]]

Forgotten == [key \in Key |-> None]

-----------------------------------------------------------------------------
(* Requests: what the model read out of a message.                         *)

\* What a message may mean its details to be about: the product or address it
\* names, the one the session is on, or whatever is decided later.
AboutProduct(tool, name) ==
  IF tool = "recommend_products" THEN Name
  ELSE IF name # Unknown THEN {name}
  ELSE IF mem["product_name"] # None THEN {mem["product_name"].value} ELSE Name
AboutAddress(address) ==
  IF address # Unknown THEN {address}
  ELSE {Remembered("delivery_address")} \cup
       {stash.details[k].value : k \in IF stash = None THEN {}
                                       ELSE {"delivery_address"} \cap DOMAIN stash.details}

Stated == [product_name |-> StatedName, material |-> StatedMaterial, quantity |-> Quantity,
           delivery_address |-> StatedAddress, delivery_option |-> StatedOption]

\* The details of one message: at most MaxDetails keys beside the product.
Messages ==
  [tool \in DOMAIN Takes |->
     LET details == Takes[tool] \ {"product_name"}
         giving(K) == {f \in [K -> UNION {Stated[k] : k \in K}] : \A k \in K : f[k] \in Stated[k]}
     IN UNION {giving(K) : K \in {K \in SUBSET details : Cardinality(K) <= MaxDetails}}]

\* The arguments a message about a product becomes; "about" is what its karat
\* and its quantity are about.
Arguments(tool, name, message, about) ==
  LET address == IF "delivery_address" \in DOMAIN message
                 THEN message["delivery_address"] ELSE Unknown
      of == [product_name |-> {}, material |-> about, quantity |-> about,
             delivery_address |-> {}, delivery_option |-> AboutAddress(address)]
  IN [key \in Takes[tool] |->
        IF key = "product_name"
        THEN IF name = Unknown THEN Unknown ELSE [value |-> name, of |-> {}]
        ELSE IF key \in DOMAIN message THEN [value |-> message[key], of |-> of[key]]
        ELSE Unknown]

-----------------------------------------------------------------------------
(* The ambiguous-reference guard of services/router.py and its stash.      *)

\* _override_unresolved_ambiguous_reference() may take the request over: the
\* list has several items, and the product is one of them or unknown.  Whether
\* the wording of the message lets it is a free choice.
MayBeAmbiguous(tool, args) ==
  /\ tool \in ProductSpecificTools
  /\ Cardinality(presented.items) >= 2
  /\ Given(args, "product_name") \in presented.items \cup {Unknown}

AcceptedDetailFields(tool) == Takes[tool] \ {"product_name"}

\* _apply_pending_clarification_details().  An option it brings back is taken to
\* be meant for whatever address the answer gives.
Recovered(tool, args) ==
  IF /\ stash # None /\ presented.items # {}
     /\ stash.generation = presented.generation
     /\ Given(args, "product_name") \in presented.items
  THEN [key \in DOMAIN args |->
          IF /\ args[key] = Unknown
             /\ key \in DOMAIN stash.details \cap AcceptedDetailFields(tool)
          THEN stash.details[key] ELSE args[key]]
  ELSE args

-----------------------------------------------------------------------------
Init ==
  /\ mem = Forgotten
  /\ pending = None
  /\ presented = [generation |-> 0, items |-> {}]
  /\ stash = None

\* The arguments of a request as they reach _execute_single().
Heard(tool, name, message, whole) ==
  LET args == Arguments(tool, name, message, AboutProduct(tool, name))
  IN IF whole /\ tool \in ProductSpecificTools THEN Recovered(tool, args) ELSE args

\* The requests for the tool that may reach _execute_single().  Without a stash
\* it is all one whether a request is a whole answer.
Requests(tool) ==
  {Heard(tool, r.name, r.message, r.whole) :
     r \in [name: StatedName \cup {Unknown}, message: Messages[tool],
            whole: IF stash = None THEN {FALSE} ELSE BOOLEAN]}

Lookup(args, near) ==
  GetProductPrice(Given(args, "product_name"), Given(args, "material"), near)
NearestTo(args) == Nearest(Given(args, "product_name"), Given(args, "material"))

-----------------------------------------------------------------------------
(* The read-only tools: what they found is remembered, the rest is not.    *)

Remembers(args, found) ==
  /\ mem' = IF found THEN RememberContext(args) ELSE mem
  /\ stash' = None

PriceProduct ==
  \E heard \in Requests("get_product_price") :
    LET args == FillMissingContext(heard) IN
    \E near \in NearestTo(args) :
      /\ Remembers(args, Lookup(args, near) # NoMatch)
      /\ UNCHANGED <<pending, presented>>

\* quote_service.generate_quote() reads a material and a price off whatever
\* get_product_price() returned: a choice of karats has neither, the tool
\* raises, and nothing is remembered.
QuoteProduct ==
  \E heard \in Requests("generate_quote") :
    LET args == FillMissingContext(heard) IN
    \E near \in NearestTo(args) :
      /\ Remembers(args, Lookup(args, near).kind = "row")
      /\ UNCHANGED <<pending, presented>>

\* get_product_karat_options and get_product_weight take the same arguments: an
\* exact name or nothing.
DescribeProduct ==
  \E heard \in Requests("get_product_weight") :
    LET args == FillMissingContext(heard) IN
    /\ Remembers(args, RowsNamed(Given(args, "product_name")) # {})
    /\ UNCHANGED <<pending, presented>>

\* The products of a category that come in the asked karat.
Shows(category, material) ==
  {n \in category : IF material \in Karat THEN WithKarat(RowsNamed(n), material) # {}
                    ELSE RowsNamed(n) # {}}

\* response_formatter.select_presented_groups(): all of them, or MaxGroups, in
\* turn from each category; which ones that leaves is a free choice.
SelectPresentedGroups(found) ==
  {items \in SUBSET found :
     Cardinality(items) = IF Cardinality(found) <= MaxGroups THEN Cardinality(found)
                          ELSE MaxGroups}

Browse ==
  /\ presented.generation < MaxLists
  /\ \E message \in Messages["recommend_products"], category \in Lists :
       LET args == FillMissingContext(
                     Arguments("recommend_products", Unknown, message, Name))
           found == Shows(category, Given(args, "material"))
       IN /\ Remembers(args, found # {})
          /\ \E items \in SelectPresentedGroups(found) :
               presented' = IF found = {} THEN presented
                            ELSE [generation |-> presented.generation + 1, items |-> items]
          /\ UNCHANGED pending

\* A reply of the assistant's own, and every tool that touches no slot here.
Converse ==
  /\ stash' = None
  /\ UNCHANGED <<mem, pending, presented>>

\* photo_match_tool.identify_product_from_photo(): the image search and the
\* vision model may pick any photo, but what they pick is a row's product.
IdentifiedProducts == {At(i).product : i \in DOMAIN Rows}

\* mutant: the karat of another product is left in place
PhotoMatchedKeepsKarat(name) ==
  mem' = [mem EXCEPT !["product_name"] = [value |-> name, of |-> {}]]

\* A photo the demo page recognised is answered without a turn: the product is
\* remembered and the karat is forgotten, whether it is another product or not.
PhotoMatched(name) ==
  mem' = RememberContext([product_name |-> [value |-> name, of |-> {}], material |-> None])

\* demo_routes.demo_message() with a photo.  None of a turn's resets happens.
PhotoMatch ==
  /\ \E name \in IdentifiedProducts : PhotoMatched(name)
  /\ UNCHANGED <<pending, presented, stash>>

\* The guard asks which item is meant, and keeps what else the message said
\* for the answer.
AskWhich ==
  \E tool \in ProductSpecificTools :
    \E name \in StatedName \cup {Unknown}, message \in Messages[tool] :
      LET args == Arguments(tool, name, message, presented.items)
          detail(k) == IF k = "delivery_option"
                       THEN [args[k] EXCEPT !.of = Address \cup {None}] ELSE args[k]
      IN /\ MayBeAmbiguous(tool, args)
         /\ stash' = IF DOMAIN message = {} THEN None
                     ELSE [generation |-> presented.generation,
                           details |-> [k \in DOMAIN message |-> detail(k)]]
         /\ UNCHANGED <<mem, pending, presented>>

-----------------------------------------------------------------------------
(* order_tool.propose_order().                                             *)

\* What is left of a proposal once a request names its product: that of
\* another product is dropped.
Surviving(name) ==
  IF pending # None /\ ~IsPrefix(name, pending.product) THEN None ELSE pending

HasOption(args) == Given(args, "delivery_option") \in DeliveryOptions
Arrangement(args, answers) ==
  IF HasOption(args) THEN Given(args, "delivery_option")
  ELSE InferDeliveryOption(Given(args, "delivery_address"), answers)

Complete(args) ==
  \A key \in Key \ {"delivery_option"} : Gives(args, key)

\* A detail is missing, or the address leaves the arrangement open.
ProposeAsks ==
  \E heard \in Requests("propose_order") :
    LET args == FillMissingContext(heard)
        name == Given(args, "product_name")
    IN /\ \/ ~Complete(args)
          \/ \E answers \in Geocoder : Arrangement(args, answers) = "unclear"
       /\ pending' = IF name = Unknown THEN pending ELSE Surviving(name)
       /\ Remembers(args, TRUE)
       /\ UNCHANGED presented

\* mutant: any unknown name falls back to the active product
LookupToOrderByActive(args, near) ==
  LET direct == Lookup(args, near)
  IN IF direct = NoMatch /\ pending # None
     THEN GetProductPriceById(pending.id, Given(args, "material"))
     ELSE direct

\* A name the catalogue does not know is tried as a truncation of the product
\* the session already has a proposal for.
LookupToOrder(args, near) ==
  LET direct == Lookup(args, near)
  IN IF /\ direct = NoMatch /\ pending # None
        /\ IsPrefix(Given(args, "product_name"), pending.product)
     THEN GetProductPriceById(pending.id, Given(args, "material"))
     ELSE direct

\* The row's karat is checked once more; a choice of karats has no id.
Orderable(found, material) ==
  found.kind = "row" /\ (material \in Karat => At(found.row).karat = material)

ProposeRefuses ==
  \E heard \in Requests("propose_order") :
    LET args == FillMissingContext(heard) IN
    /\ Complete(args)
    /\ \E answers \in Geocoder : Arrangement(args, answers) # "unclear"
    /\ \E near \in NearestTo(args) :
         ~Orderable(LookupToOrder(args, near), Given(args, "material"))
    /\ pending' = Surviving(Given(args, "product_name"))
    /\ Remembers(args, TRUE)
    /\ UNCHANGED presented

\* A rider option that does not match the very address the product's last
\* proposal had: the address is taken for a stale one and the zone's city is
\* used.
Overrides(row, option, address, answers) ==
  /\ option \in DOMAIN RiderZoneCity
  /\ ~ResolveDeliveryMatch(option, address, answers)
  /\ pending # None /\ pending.id = At(row).id /\ pending.address = address

\* The option as it is remembered: asked for in this message for wherever the
\* proposal goes, inferred from the address, or filled in from memory.
ProposedOption(heard, args, option, address) ==
  [value |-> IF option = "ghana_other" THEN "team_confirm" ELSE option,
   of |-> IF HasOption(args) /\ ~Gives(heard, "delivery_option")
          THEN args["delivery_option"].of ELSE {address}]

\* The proposal a request becomes.
Offers(heard) ==
  LET args == FillMissingContext(heard)
  IN /\ Complete(args)
     /\ \E option \in {Arrangement(args, answers) : answers \in Geocoder} \ {"unclear"},
          matchAnswers \in Geocoder,
          found \in {LookupToOrder(args, near) : near \in NearestTo(args)} :
          LET given == Given(args, "delivery_address")
              address == IF Overrides(found.row, option, given, matchAnswers)
                         THEN RiderZoneCity[option] ELSE given
          IN /\ Orderable(found, Given(args, "material"))
             /\ pending' = [product |-> At(found.row).product,
                            id |-> At(found.row).id, address |-> address]
             /\ Remembers([args EXCEPT
                   !["material"].value = At(found.row).karat,
                   !["delivery_address"].value = address,
                   !["delivery_option"] = ProposedOption(heard, args, option, address)],
                  TRUE)
     /\ UNCHANGED presented

ProposeOffers == \E heard \in Requests("propose_order") : Offers(heard)

-----------------------------------------------------------------------------
\* order_tool._finalize_confirmation(): the order is placed, its details go.
Confirm ==
  /\ pending # None
  /\ pending' = None /\ mem' = Forgotten /\ stash' = None
  /\ UNCHANGED presented

\* The session lapses, or the process restarts.
Expire ==
  /\ mem' = Forgotten /\ pending' = None /\ stash' = None
  /\ presented' = [generation |-> 0, items |-> {}]

Next ==
  \/ PriceProduct \/ QuoteProduct \/ DescribeProduct \/ Browse \/ Converse
  \/ PhotoMatch \/ AskWhich \/ ProposeAsks \/ ProposeRefuses \/ ProposeOffers
  \/ Confirm \/ Expire

Spec == Init /\ [][Next]_vars

-----------------------------------------------------------------------------
(* Properties.                                                             *)

TypeOK ==
  /\ \A k \in Key : mem[k] \in {None} \cup Detail
                    /\ (mem[k] # None => mem[k].value \in Values[k])
  /\ pending \in {None} \cup Proposal
  /\ presented \in [generation: 0 .. MaxLists, items: SUBSET Name]
  /\ stash # None => /\ stash.generation \in 1 .. MaxLists
                     /\ \A k \in DOMAIN stash.details :
                          k \in Key \ {"product_name"} /\ stash.details[k] \in Detail

\* A remembered karat or quantity was said about the remembered product, about
\* a list it was on, or about no product in particular: no order is built with
\* the details of another item (fill_missing_context, remember_context and the
\* clarification stash together).
DetailsBelongToTheirProduct ==
  \A k \in ProductSpecificKeys :
    mem[k] # None /\ mem["product_name"] # None => mem["product_name"].value \in mem[k].of

\* A remembered delivery option was said for the remembered address, or that
\* address is the city of the option's own zone: an option outlives no change
\* of address.
OptionFitsItsAddress ==
  LET option == Remembered("delivery_option")
      address == Remembered("delivery_address")
  IN option # None =>
       \/ address \in mem["delivery_option"].of
       \/ option \in DOMAIN RiderZoneCity /\ address = RiderZoneCity[option]

\* The request has neither the product's name, in part or whole, nor a word of
\* it in its name or its material, as "gold" is one of any gold ring.
IsForAnother(heard, product) ==
  LET args == FillMissingContext(heard)
      named == Given(args, "product_name")
  IN /\ ~IsPrefix(named, product)
     /\ \A word \in {named, Given(args, "material")} : <<word, product>> \notin Overlaps

\* Only a request makes a proposal, and never one for another product, such as
\* whatever was active before (propose_order's recovery by product id,
\* get_product_price's search).
ProposalsAreForWhatWasNamed ==
  [][pending' \notin {None, pending} =>
       /\ ProposeOffers
       /\ \A heard \in Requests("propose_order") :
            IsForAnother(heard, pending'.product) => ~Offers(heard)]_vars

\* order_tool.py on a stale address: "Trust the explicit delivery_option over
\* the stale text".  The option of a proposal was said, or inferred, for the
\* address the proposal is sent to; an address is replaced only in a message
\* that asks for the option.
OnlyAnExplicitOptionReplacesAnAddress ==
  mem["delivery_option"] # None =>
    Remembered("delivery_address") \in mem["delivery_option"].of
=============================================================================
