------------------------ MODULE SessionContextProofs ------------------------
(***************************************************************************)
(* What a session remembers belongs together, for every catalogue, every   *)
(* set of addresses and every length of a message.                         *)
(***************************************************************************)
EXTENDS SessionContext, TLAPS, FiniteSetTheorems

-----------------------------------------------------------------------------
(* The lookups.                                                            *)

LEMMA RowsAreTyped ==
  ASSUME NEW i \in DOMAIN Rows
  PROVE  At(i).product \in Name /\ At(i).karat \in Karat /\ At(i).id \in Nat
<1> DEFINE R == [product: Name, karat: Karat, id: Nat]
<1>1. Rows \in Seq(R)
      BY CatalogueAssumption
<1> HIDE DEF R
<1>2. Rows[i] \in R
      BY <1>1
<1>   QED
      BY <1>2 DEF R, At

LEMMA FirstIsOne ==
  ASSUME NEW S \in SUBSET DOMAIN Rows, S # {}
  PROVE  First(S) \in S
<1> DEFINE R == {ss \in Nat \X Nat : ss[1] < ss[2]}
<1>1. IsWellFoundedOn(R, Nat)
      BY NatLessThanWellFounded DEF OpToRel
<1>2. S \subseteq Nat
      BY CatalogueAssumption
<1> HIDE DEF R
<1>3. S # {}
      OBVIOUS
<1>4. \E x \in S : \A y \in S : ~(<<y, x>> \in R)
      BY <1>1, <1>2, <1>3, WFMin, Zenon
<1>5. PICK x \in S : \A y \in S : ~(<<y, x>> \in R)
      BY <1>4
<1>6. \A y \in S : x <= y
  <2> TAKE y \in S
  <2>1. x \in Nat /\ y \in Nat
        BY <1>2
  <2>2. ~(y < x)
        BY <1>5, <2>1 DEF R
  <2>   QED
        BY <2>1, <2>2
<1>   QED
      BY <1>6 DEF First

-----------------------------------------------------------------------------
(* Values, details and messages.                                           *)

LEMMA ValuesAreTyped ==
  ASSUME NEW k \in Key, NEW v \in Values[k]
  PROVE  v \in UNION {Values[l] : l \in Key}
BY Zenon

LEMMA ADetail ==
  ASSUME NEW k \in Key, NEW v \in Values[k], NEW of \in SUBSET (Name \cup Address \cup {None})
  PROVE  [value |-> v, of |-> of] \in Detail
<1>1. v \in UNION {Values[l] : l \in Key}
      BY ValuesAreTyped, Zenon
<1> DEFINE V == UNION {Values[l] : l \in Key}
<1> HIDE DEF V
<1>2. Detail = [value: V, of: SUBSET (Name \cup Address \cup {None})]
      BY DEF Detail, V
<1>3. v \in V
      BY <1>1 DEF V
<1>   QED
      BY <1>2, <1>3

LEMMA DetailIsARecord ==
  ASSUME NEW d \in Detail
  PROVE  /\ d = [value |-> d.value, of |-> d.of]
         /\ d.of \in SUBSET (Name \cup Address \cup {None})
         /\ d # None /\ d # Unknown
<1> DEFINE V == UNION {Values[l] : l \in Key}
<1> HIDE DEF V
<1>1. Detail = [value: V, of: SUBSET (Name \cup Address \cup {None})]
      BY DEF Detail, V
<1>2. d # None /\ d # Unknown
      BY AbsenceAssumption
<1>   QED
      BY <1>1, <1>2

LEMMA ToolsTakeKeys ==
  ASSUME NEW tool \in DOMAIN Takes
  PROVE  Takes[tool] \subseteq Key
BY DEF Takes, Key

\* A message gives values of the right kind, for keys its tool takes.
LEMMA MessagesAreTyped ==
  ASSUME NEW tool \in DOMAIN Takes, NEW message \in Messages[tool]
  PROVE  /\ DOMAIN message \subseteq Takes[tool] \ {"product_name"}
         /\ \A k \in DOMAIN message : message[k] \in Values[k] /\ message[k] \in Stated[k]
<1> DEFINE details == Takes[tool] \ {"product_name"}
           giving(K) == {f \in [K -> UNION {Stated[k] : k \in K}] :
                           \A k \in K : f[k] \in Stated[k]}
<1>1. message \in UNION {giving(K) : K \in {K \in SUBSET details :
                                             Cardinality(K) <= MaxDetails}}
      BY DEF Messages
<1>2. PICK K \in SUBSET details : message \in giving(K)
      BY <1>1
<1>3. DOMAIN message = K /\ \A k \in K : message[k] \in Stated[k]
      BY <1>2
<1>4. \A k \in Key : Stated[k] \subseteq Values[k]
      BY ContextAssumption DEF Stated, Values, Key
<1>5. K \subseteq Key
      BY ToolsTakeKeys
<1>   QED
      BY <1>3, <1>4, <1>5

-----------------------------------------------------------------------------
(* The inductive invariant.                                                *)

\* The memory m holds details, those of a product fit the product of m, or
\* every product while m has none, and its option fits its address.
DetailsAreTyped(m) ==
  \A k \in Key : m[k] # None => m[k] \in Detail /\ m[k].value \in Values[k]
ProductDetailsFit(m) ==
  \A k \in ProductSpecificKeys : m[k] # None =>
    IF m["product_name"] # None THEN m["product_name"].value \in m[k].of
    ELSE Name \subseteq m[k].of
FitsAddress(option, address) ==
  \/ address \in option.of
  \/ option.value \in DOMAIN RiderZoneCity /\ address = RiderZoneCity[option.value]
OptionFits(m) ==
  m["delivery_option"] # None =>
    FitsAddress(m["delivery_option"],
                IF m["delivery_address"] = None THEN None ELSE m["delivery_address"].value)
MemoryFits(m) == DetailsAreTyped(m) /\ ProductDetailsFit(m) /\ OptionFits(m)

\* The stash is of the list on display, and fits every item of it.
StashFits ==
  stash # None =>
    /\ stash.generation = presented.generation
    /\ presented.generation >= 1
    /\ \A k \in DOMAIN stash.details :
         /\ k \in Key \ {"product_name"}
         /\ stash.details[k] \in Detail /\ stash.details[k].value \in Values[k]
         /\ k \in ProductSpecificKeys => presented.items \subseteq stash.details[k].of
         /\ k = "delivery_option" => stash.details[k].of = Address \cup {None}

\* The proposal is for a product of the catalogue, under its id.
PendingIsARow ==
  pending # None =>
    /\ pending \in Proposal
    /\ \E i \in DOMAIN Rows : At(i).product = pending.product /\ At(i).id = pending.id

PresentedIsTyped ==
  /\ presented \in [generation: 0 .. MaxLists, items: SUBSET Name]
  /\ presented.items # {} => presented.generation >= 1

IInv == MemoryFits(mem) /\ PresentedIsTyped /\ StashFits /\ PendingIsARow

\* What the arguments of a request must be for the memory to stay so.
ArgsAreTyped(args) ==
  \A k \in DOMAIN args : k \in Key /\ (args[k] # Unknown =>
                           args[k] \in Detail /\ args[k].value \in Values[k])
ArgsFitProduct(args) ==
  \A k \in ProductSpecificKeys : Gives(args, k) =>
    IF Gives(args, "product_name") THEN args["product_name"].value \in args[k].of
    ELSE IF mem["product_name"] # None THEN mem["product_name"].value \in args[k].of
    ELSE Name \subseteq args[k].of
ArgsFitAddress(args) ==
  Gives(args, "delivery_option") =>
    FitsAddress(args["delivery_option"],
                IF Gives(args, "delivery_address") THEN args["delivery_address"].value
                ELSE Remembered("delivery_address"))
ArgsFit(args) == ArgsAreTyped(args) /\ ArgsFitProduct(args) /\ ArgsFitAddress(args)

-----------------------------------------------------------------------------
(* services/memory.py.                                                     *)

LEMMA FilledArgsFit ==
  ASSUME IInv, NEW args, ArgsFit(args)
  PROVE  ArgsFit(FillMissingContext(args)) /\ DOMAIN FillMissingContext(args) = DOMAIN args
<1> DEFINE f == FillMissingContext(args)
           pc == NamesADifferentProduct(args)
           ac == NamesADifferentAddress(args)
<1>1. DOMAIN f = DOMAIN args
      BY DEF FillMissingContext
<1>2. ASSUME NEW k \in DOMAIN args
      PROVE  \/ f[k] = args[k]
             \/ /\ args[k] = Unknown /\ mem[k] # None /\ f[k] = mem[k]
                /\ k \in ProductSpecificKeys => ~pc
                /\ k = "delivery_option" => ~ac
      BY DEF FillMissingContext
<1>3. ASSUME NEW k \in DOMAIN args
      PROVE  args[k] # Unknown => f[k] = args[k]
      BY DEF FillMissingContext
<1>4. ASSUME NEW k \in DOMAIN args, args[k] = Unknown, mem[k] # None,
             k \notin ProductSpecificKeys, k # "delivery_option"
      PROVE  f[k] = mem[k]
      BY <1>4 DEF FillMissingContext
<1> HIDE DEF f
<1>5. \A k \in Key : mem[k] # None => mem[k] \in Detail /\ mem[k].value \in Values[k]
      BY DEF IInv, MemoryFits, DetailsAreTyped
<1>6. ArgsAreTyped(f)
  <2> SUFFICES ASSUME NEW k \in DOMAIN args, f[k] # Unknown
               PROVE  k \in Key /\ f[k] \in Detail /\ f[k].value \in Values[k]
      BY <1>1, <1>2 DEF ArgsAreTyped, ArgsFit
  <2>   QED
        BY <1>2, <1>5 DEF ArgsAreTyped, ArgsFit
<1>7. \A k \in Key : mem[k] # None => mem[k] # Unknown
      BY <1>5, DetailIsARecord
<1>8. ArgsFitProduct(f)
  <2> SUFFICES ASSUME NEW k \in ProductSpecificKeys, Gives(f, k)
               PROVE  IF Gives(f, "product_name") THEN f["product_name"].value \in f[k].of
                      ELSE IF mem["product_name"] # None
                           THEN mem["product_name"].value \in f[k].of
                           ELSE Name \subseteq f[k].of
      BY DEF ArgsFitProduct
  <2>1. k \in DOMAIN args /\ f[k] # Unknown /\ k \in Key
        BY <1>1 DEF Gives, ProductSpecificKeys, Key
  <2>2. "product_name" \in Key /\ "product_name" \notin ProductSpecificKeys
        BY DEF Key, ProductSpecificKeys
  <2>3. CASE f[k] = args[k]
    <3>1. IF Gives(args, "product_name") THEN args["product_name"].value \in args[k].of
          ELSE IF mem["product_name"] # None THEN mem["product_name"].value \in args[k].of
          ELSE Name \subseteq args[k].of
          BY <2>1, <2>3 DEF ArgsFit, ArgsFitProduct, Gives
    <3>2. Gives(args, "product_name") =>
            Gives(f, "product_name") /\ f["product_name"] = args["product_name"]
          BY <1>1, <1>3 DEF Gives
    <3>3. ~Gives(args, "product_name") /\ Gives(f, "product_name") =>
            mem["product_name"] # None /\ f["product_name"] = mem["product_name"]
          BY <1>1, <1>2 DEF Gives
    <3>   QED
          BY <3>1, <3>2, <3>3, <2>3
  <2>4. CASE args[k] = Unknown /\ mem[k] # None /\ f[k] = mem[k] /\ ~pc
    <3>1. IF mem["product_name"] # None THEN mem["product_name"].value \in mem[k].of
          ELSE Name \subseteq mem[k].of
          BY <2>4 DEF IInv, MemoryFits, ProductDetailsFit
    <3>2. Gives(args, "product_name") => f["product_name"] = args["product_name"]
          BY <1>3 DEF Gives
    <3>3. Gives(args, "product_name") =>
            \/ mem["product_name"] = None /\ args["product_name"].value \in Name
            \/ mem["product_name"] # None
               /\ args["product_name"].value = mem["product_name"].value
      <4>1. Gives(args, "product_name") => args["product_name"].value \in Values["product_name"]
            BY DEF Gives, ArgsFit, ArgsAreTyped
      <4>   QED
            BY <4>1, <2>4 DEF NamesADifferentProduct, Values
    <3>4. ~Gives(args, "product_name") /\ Gives(f, "product_name") =>
            mem["product_name"] # None /\ f["product_name"] = mem["product_name"]
          BY <1>1, <1>2 DEF Gives
    <3>   QED
          BY <3>1, <3>2, <3>3, <3>4, <2>4
  <2>   QED
        BY <2>1, <2>3, <2>4, <1>2
<1>9. ArgsFitAddress(f)
  <2> SUFFICES ASSUME Gives(f, "delivery_option")
               PROVE  FitsAddress(f["delivery_option"],
                        IF Gives(f, "delivery_address") THEN f["delivery_address"].value
                        ELSE Remembered("delivery_address"))
      BY DEF ArgsFitAddress
  <2> DEFINE a == IF Gives(args, "delivery_address") THEN args["delivery_address"].value
                  ELSE Remembered("delivery_address")
             b == IF Gives(f, "delivery_address") THEN f["delivery_address"].value
                  ELSE Remembered("delivery_address")
  <2>1. a = b
    <3>1. Gives(args, "delivery_address") =>
            Gives(f, "delivery_address") /\ f["delivery_address"] = args["delivery_address"]
          BY <1>1, <1>3 DEF Gives
    <3>2. ~Gives(args, "delivery_address") /\ Gives(f, "delivery_address") =>
            mem["delivery_address"] # None /\ f["delivery_address"] = mem["delivery_address"]
          BY <1>1, <1>2 DEF Gives
    <3>   QED
          BY <3>1, <3>2 DEF Remembered
  <2>2. "delivery_option" \in DOMAIN args
        BY <1>1 DEF Gives
  <2>3. CASE f["delivery_option"] = args["delivery_option"]
    <3>1. Gives(args, "delivery_option")
          BY <2>2, <2>3 DEF Gives
    <3>2. FitsAddress(args["delivery_option"], a)
          BY <3>1 DEF ArgsFit, ArgsFitAddress
    <3>   QED
          BY <3>2, <2>1, <2>3
  <2>4. CASE mem["delivery_option"] # None /\ f["delivery_option"] = mem["delivery_option"] /\ ~ac
    <3>1. FitsAddress(mem["delivery_option"], Remembered("delivery_address"))
          BY <2>4 DEF IInv, MemoryFits, OptionFits, Remembered
    <3>2. a = Remembered("delivery_address")
          BY <2>4 DEF NamesADifferentAddress, Remembered
    <3>   QED
          BY <3>1, <3>2, <2>1, <2>4
  <2>   QED
        BY <2>2, <2>3, <2>4, <1>2
<1>   QED
      BY <1>1, <1>6, <1>8, <1>9 DEF ArgsFit, f

LEMMA RememberedFits ==
  ASSUME IInv, NEW args, ArgsFit(args)
  PROVE  MemoryFits(RememberContext(args))
<1> DEFINE m == RememberContext(args)
           pc == NamesADifferentProduct(args)
           ac == NamesADifferentAddress(args)
<1>1. ASSUME NEW k \in Key
      PROVE  /\ Gives(args, k) => m[k] = args[k]
             /\ ~Gives(args, k) /\ m[k] # None =>
                  /\ m[k] = mem[k]
                  /\ k \in ProductSpecificKeys => ~pc
                  /\ k = "delivery_option" => ~ac
             /\ ~Gives(args, k) /\ k \notin ProductSpecificKeys /\ k # "delivery_option"
                  => m[k] = mem[k]
      BY DEF RememberContext
<1> HIDE DEF m
<1>2. \A k \in Key : Gives(args, k) => args[k] \in Detail /\ args[k].value \in Values[k]
                                       /\ args[k] # None
      BY DetailIsARecord DEF ArgsFit, ArgsAreTyped, Gives
<1>3. DetailsAreTyped(m)
      BY <1>1, <1>2 DEF DetailsAreTyped, IInv, MemoryFits
<1>4. "product_name" \in Key /\ "product_name" \notin ProductSpecificKeys
      /\ "delivery_address" \in Key /\ "delivery_address" \notin ProductSpecificKeys
      /\ "delivery_option" \in Key /\ ProductSpecificKeys \subseteq Key
      BY DEF Key, ProductSpecificKeys
<1>5. m["product_name"] = IF Gives(args, "product_name") THEN args["product_name"]
                          ELSE mem["product_name"]
      BY <1>1, <1>4
<1>6. m["delivery_address"] = IF Gives(args, "delivery_address") THEN args["delivery_address"]
                              ELSE mem["delivery_address"]
      BY <1>1, <1>4
<1>7. ProductDetailsFit(m)
  <2> SUFFICES ASSUME NEW k \in ProductSpecificKeys, m[k] # None
               PROVE  IF m["product_name"] # None THEN m["product_name"].value \in m[k].of
                      ELSE Name \subseteq m[k].of
      BY DEF ProductDetailsFit
  <2>1. CASE Gives(args, k)
    <3>1. IF Gives(args, "product_name") THEN args["product_name"].value \in args[k].of
          ELSE IF mem["product_name"] # None THEN mem["product_name"].value \in args[k].of
          ELSE Name \subseteq args[k].of
          BY <2>1 DEF ArgsFit, ArgsFitProduct
    <3>2. m[k] = args[k]
          BY <2>1, <1>1, <1>4
    <3>   QED
          BY <3>1, <3>2, <1>2, <1>4, <1>5
  <2>2. CASE ~Gives(args, k)
    <3>1. m[k] = mem[k] /\ ~pc
          BY <2>2, <1>1, <1>4
    <3>2. IF mem["product_name"] # None THEN mem["product_name"].value \in mem[k].of
          ELSE Name \subseteq mem[k].of
          BY <3>1 DEF IInv, MemoryFits, ProductDetailsFit
    <3>3. Gives(args, "product_name") => args["product_name"].value \in Name
          BY <1>2, <1>4 DEF Values
    <3>4. Gives(args, "product_name") /\ mem["product_name"] # None =>
            args["product_name"].value = mem["product_name"].value
          BY <3>1 DEF NamesADifferentProduct
    <3>   QED
          BY <3>1, <3>2, <3>3, <3>4, <1>2, <1>4, <1>5
  <2>   QED
        BY <2>1, <2>2
<1>8. OptionFits(m)
  <2> DEFINE a == IF Gives(args, "delivery_address") THEN args["delivery_address"].value
                  ELSE Remembered("delivery_address")
             b == IF m["delivery_address"] = None THEN None ELSE m["delivery_address"].value
  <2> SUFFICES ASSUME m["delivery_option"] # None
               PROVE  FitsAddress(m["delivery_option"], b)
      BY DEF OptionFits
  <2>1. a = b
        BY <1>2, <1>4, <1>6 DEF Remembered
  <2>2. CASE Gives(args, "delivery_option")
    <3>1. FitsAddress(args["delivery_option"], a)
          BY <2>2 DEF ArgsFit, ArgsFitAddress
    <3>2. m["delivery_option"] = args["delivery_option"]
          BY <2>2, <1>1, <1>4
    <3>   QED
          BY <3>1, <3>2, <2>1
  <2>3. CASE ~Gives(args, "delivery_option")
    <3>1. m["delivery_option"] = mem["delivery_option"] /\ ~ac
          BY <2>3, <1>1, <1>4
    <3>2. FitsAddress(mem["delivery_option"], Remembered("delivery_address"))
          BY <3>1 DEF IInv, MemoryFits, OptionFits, Remembered
    <3>3. a = Remembered("delivery_address")
          BY <3>1 DEF NamesADifferentAddress, Remembered
    <3>   QED
          BY <3>1, <3>2, <3>3, <2>1
  <2>   QED
        BY <2>2, <2>3
<1>   QED
      BY <1>3, <1>7, <1>8 DEF MemoryFits, m

-----------------------------------------------------------------------------
(* Requests.                                                               *)

LEMMA RememberedAddress ==
  ASSUME IInv
  PROVE  /\ Remembered("delivery_address") \in Address \cup {None}
         /\ mem["product_name"] # None => mem["product_name"].value \in Name
<1>1. \A k \in Key : mem[k] # None => mem[k].value \in Values[k]
      BY DEF IInv, MemoryFits, DetailsAreTyped
<1>   QED
      BY <1>1 DEF Key, Values, Remembered

LEMMA AboutAddressIsTyped ==
  ASSUME IInv, NEW address \in Address \cup {Unknown}
  PROVE  AboutAddress(address) \in SUBSET (Name \cup Address \cup {None})
<1>1. CASE address # Unknown
      BY <1>1 DEF AboutAddress
<1>2. CASE address = Unknown
  <2>1. stash # None =>
          \A k \in {"delivery_address"} \cap DOMAIN stash.details :
            stash.details[k].value \in Address
        BY DEF IInv, StashFits, Values
  <2>   QED
        BY <1>2, <2>1, RememberedAddress DEF AboutAddress
<1>   QED
      BY <1>1, <1>2

\* The arguments a message becomes.
SaidAddress(message) ==
  IF "delivery_address" \in DOMAIN message THEN message["delivery_address"] ELSE Unknown
ReadAs(args, tool, name, message, about) ==
  /\ DOMAIN args = Takes[tool]
  /\ ArgsAreTyped(args)
  /\ \A k \in ProductSpecificKeys : Gives(args, k) => args[k].of = about
  /\ Gives(args, "product_name") => args["product_name"].value = name
  /\ "product_name" \in Takes[tool] /\ name # Unknown => Gives(args, "product_name")
  /\ Gives(args, "delivery_option") =>
       args["delivery_option"].of = AboutAddress(SaidAddress(message))
  /\ Gives(args, "delivery_address") =>
       /\ SaidAddress(message) # Unknown
       /\ args["delivery_address"].value = SaidAddress(message)
  /\ \A k \in DOMAIN message : Gives(args, k) /\ args[k].value = message[k]

LEMMA ArgumentsAre ==
  ASSUME IInv, NEW tool \in DOMAIN Takes, NEW name \in StatedName \cup {Unknown},
         NEW message \in Messages[tool], NEW about \in SUBSET Name
  PROVE  ReadAs(Arguments(tool, name, message, about), tool, name, message, about)
<1> DEFINE args == Arguments(tool, name, message, about)
           address == SaidAddress(message)
           of == [product_name |-> {}, material |-> about, quantity |-> about,
                  delivery_address |-> {}, delivery_option |-> AboutAddress(address)]
<1>1. args = [key \in Takes[tool] |->
                IF key = "product_name"
                THEN IF name = Unknown THEN Unknown ELSE [value |-> name, of |-> {}]
                ELSE IF key \in DOMAIN message THEN [value |-> message[key], of |-> of[key]]
                ELSE Unknown]
      BY DEF Arguments, SaidAddress
<1> HIDE DEF args
<1>2. /\ DOMAIN message \subseteq Takes[tool] \ {"product_name"}
      /\ \A k \in DOMAIN message : message[k] \in Values[k] /\ message[k] \in Stated[k]
      BY MessagesAreTyped
<1>3. Takes[tool] \subseteq Key
      BY ToolsTakeKeys
<1>4. address \in Address \cup {Unknown}
      BY <1>2 DEF Values, SaidAddress
<1>5. /\ of["material"] = about /\ of["quantity"] = about
      /\ of["delivery_option"] = AboutAddress(address)
      /\ of["delivery_address"] = {}
      OBVIOUS
<1> HIDE DEF address, of
<1>6. \A k \in Key \ {"product_name"} : of[k] \in SUBSET (Name \cup Address \cup {None})
      BY <1>4, <1>5, AboutAddressIsTyped DEF Key
<1>7. \A k \in DOMAIN message :
        /\ args[k] = [value |-> message[k], of |-> of[k]]
        /\ args[k] \in Detail /\ args[k] # Unknown /\ args[k].value \in Values[k]
        /\ args[k].of = of[k]
  <2> TAKE k \in DOMAIN message
  <2>1. k \in Key \ {"product_name"} /\ k \in Takes[tool]
        BY <1>2, <1>3
  <2>2. args[k] = [value |-> message[k], of |-> of[k]]
        BY <1>1, <2>1
  <2>3. args[k] \in Detail
        BY <1>2, <1>6, <2>1, <2>2, ADetail
  <2>4. args[k] # Unknown
        BY <2>3, AbsenceAssumption
  <2>5. args[k].value = message[k] /\ args[k].of = of[k]
        BY <2>2
  <2>   QED
        BY <2>2, <2>3, <2>4, <2>5, <1>2
<1>8. \A k \in Takes[tool] \ {"product_name"} : args[k] # Unknown => k \in DOMAIN message
      BY <1>1
<1>9. "product_name" \in Takes[tool] /\ name # Unknown =>
        /\ args["product_name"] = [value |-> name, of |-> {}]
        /\ args["product_name"] \in Detail /\ args["product_name"] # Unknown
        /\ args["product_name"].value = name /\ name \in Values["product_name"]
  <2> SUFFICES ASSUME "product_name" \in Takes[tool], name # Unknown
               PROVE  /\ args["product_name"] = [value |-> name, of |-> {}]
                      /\ args["product_name"] \in Detail /\ args["product_name"] # Unknown
                      /\ args["product_name"].value = name
                      /\ name \in Values["product_name"]
      OBVIOUS
  <2>1. args["product_name"] = [value |-> name, of |-> {}]
        BY <1>1
  <2>2. name \in Values["product_name"] /\ "product_name" \in Key
        BY ContextAssumption DEF Values, Key
  <2>3. args["product_name"] \in Detail
        BY <2>1, <2>2, ADetail
  <2>4. args["product_name"] # Unknown
        BY <2>3, AbsenceAssumption
  <2>   QED
        BY <2>1, <2>2, <2>3, <2>4
<1>10. "product_name" \in Takes[tool] /\ name = Unknown => args["product_name"] = Unknown
       BY <1>1
<1>11. DOMAIN args = Takes[tool]
       BY <1>1
<1>12. ArgsAreTyped(args)
       BY <1>3, <1>7, <1>8, <1>9, <1>10, <1>11 DEF ArgsAreTyped
<1>13. \A k \in DOMAIN message : Gives(args, k) /\ args[k].value = message[k]
  <2> TAKE k \in DOMAIN message
  <2>1. args[k] # Unknown /\ args[k].value = message[k]
    <3>1. args[k] = [value |-> message[k], of |-> of[k]] /\ args[k] # Unknown
          BY <1>7
    <3>   QED
          BY <3>1
  <2>2. k \in DOMAIN args
        BY <1>2, <1>11
  <2>   QED
        BY <2>1, <2>2 DEF Gives
<1>14. \A k \in Key \ {"product_name"} : Gives(args, k) => k \in DOMAIN message
       BY <1>8, <1>11 DEF Gives
<1>15. \A k \in ProductSpecificKeys : Gives(args, k) => args[k].of = about
       BY <1>5, <1>7, <1>14 DEF ProductSpecificKeys, Key
<1>16. Gives(args, "delivery_option") => args["delivery_option"].of = AboutAddress(address)
       BY <1>5, <1>7, <1>14 DEF Key
<1>17. Gives(args, "delivery_address") =>
         address # Unknown /\ args["delivery_address"].value = address
  <2>1. Gives(args, "delivery_address") => "delivery_address" \in DOMAIN message
        BY <1>14 DEF Key
  <2>2. "delivery_address" \in DOMAIN message =>
          message["delivery_address"] \in Address /\ address = message["delivery_address"]
        BY <1>2 DEF Values, address, SaidAddress
  <2>   QED
        BY <2>1, <2>2, <1>13, AbsenceAssumption
<1>18. /\ Gives(args, "product_name") => args["product_name"].value = name
       /\ "product_name" \in Takes[tool] /\ name # Unknown => Gives(args, "product_name")
       BY <1>9, <1>10, <1>11 DEF Gives
<1>   QED
      BY <1>11, <1>12, <1>13, <1>15, <1>16, <1>17, <1>18 DEF args, address, ReadAs

\* An option said without an address is about the one the session has.
LEMMA AboutTheAddress ==
  ASSUME NEW address
  PROVE  /\ address # Unknown => AboutAddress(address) = {address}
         /\ address = Unknown => Remembered("delivery_address") \in AboutAddress(address)
         /\ address = Unknown /\ stash # None /\ "delivery_address" \in DOMAIN stash.details
              => stash.details["delivery_address"].value \in AboutAddress(address)
BY DEF AboutAddress

\* Arguments about the product they name, or the session is on.
LEMMA ArgumentsFit ==
  ASSUME IInv, NEW tool \in DOMAIN Takes, NEW name \in StatedName \cup {Unknown},
         NEW message \in Messages[tool]
  PROVE  LET args == Arguments(tool, name, message, AboutProduct(tool, name))
         IN /\ ArgsFit(args) /\ DOMAIN args = Takes[tool]
            /\ Gives(args, "delivery_option") /\ ~Gives(args, "delivery_address")
               /\ stash # None /\ "delivery_address" \in DOMAIN stash.details
               => stash.details["delivery_address"].value \in args["delivery_option"].of
<1> DEFINE about == AboutProduct(tool, name)
           args == Arguments(tool, name, message, about)
           address == SaidAddress(message)
<1>1. about \in SUBSET Name
      BY RememberedAddress, ContextAssumption DEF AboutProduct
<1> HIDE DEF about
<1>2. ReadAs(args, tool, name, message, about)
      BY <1>1, ArgumentsAre
<1> HIDE DEF args
<1> USE <1>2 DEF ReadAs
<1>3. ArgsFitProduct(args)
  <2>1. ASSUME Gives(args, "product_name")
        PROVE  name \in about
    <3>1. args["product_name"].value \in Name /\ name = args["product_name"].value
      <4>1. args["product_name"].value \in Values["product_name"]
            BY <2>1 DEF ArgsAreTyped, Gives
      <4>   QED
            BY <4>1, <2>1 DEF Values
    <3>2. name # Unknown
          BY <3>1, AbsenceAssumption
    <3>   QED
          BY <3>1, <3>2 DEF about, AboutProduct
  <2>2. ASSUME ~Gives(args, "product_name")
        PROVE  IF mem["product_name"] # None THEN mem["product_name"].value \in about
               ELSE Name \subseteq about
    <3>1. CASE tool = "recommend_products"
          BY <3>1, RememberedAddress DEF about, AboutProduct
    <3>2. CASE tool # "recommend_products"
      <4>1. "product_name" \in Takes[tool]
            BY <3>2 DEF Takes, Key
      <4>2. name = Unknown
            BY <4>1, <2>2
      <4>   QED
            BY <4>2, <3>2 DEF about, AboutProduct
    <3>   QED
          BY <3>1, <3>2
  <2>   QED
        BY <2>1, <2>2 DEF ArgsFitProduct
<1>4. address # Unknown => Gives(args, "delivery_address")
      BY DEF SaidAddress
<1>5. ArgsFitAddress(args)
      BY <1>4, AboutTheAddress DEF ArgsFitAddress, FitsAddress
<1>6. Gives(args, "delivery_option") /\ ~Gives(args, "delivery_address")
        /\ stash # None /\ "delivery_address" \in DOMAIN stash.details
        => stash.details["delivery_address"].value \in args["delivery_option"].of
      BY <1>4, AboutTheAddress
<1>   QED
      BY <1>3, <1>5, <1>6 DEF ArgsFit, args, about

\* A whole answer takes back what the stash kept, if it names a listed item.
LEMMA HeardFits ==
  ASSUME IInv, NEW tool \in DOMAIN Takes, NEW name \in StatedName \cup {Unknown},
         NEW message \in Messages[tool], NEW whole \in BOOLEAN
  PROVE  /\ ArgsFit(Heard(tool, name, message, whole))
         /\ DOMAIN Heard(tool, name, message, whole) = Takes[tool]
<1> DEFINE args == Arguments(tool, name, message, AboutProduct(tool, name))
           r == Recovered(tool, args)
<1>1. /\ ArgsFit(args) /\ DOMAIN args = Takes[tool]
      /\ Gives(args, "delivery_option") /\ ~Gives(args, "delivery_address")
         /\ stash # None /\ "delivery_address" \in DOMAIN stash.details
         => stash.details["delivery_address"].value \in args["delivery_option"].of
      BY ArgumentsFit
<1>2. Heard(tool, name, message, whole) \in {args, r}
      BY DEF Heard
<1> HIDE DEF args
<1>3. CASE r = args
      BY <1>1, <1>2, <1>3
<1>4. CASE r # args
  <2>1. /\ stash # None
        /\ Given(args, "product_name") \in presented.items
        /\ r = [key \in DOMAIN args |->
                  IF /\ args[key] = Unknown
                     /\ key \in DOMAIN stash.details \cap AcceptedDetailFields(tool)
                  THEN stash.details[key] ELSE args[key]]
        BY <1>4 DEF Recovered
  <2> HIDE DEF r
  <2>2. /\ \A k \in DOMAIN stash.details :
             /\ k \in Key \ {"product_name"}
             /\ stash.details[k] \in Detail /\ stash.details[k].value \in Values[k]
             /\ k \in ProductSpecificKeys => presented.items \subseteq stash.details[k].of
             /\ k = "delivery_option" => stash.details[k].of = Address \cup {None}
        BY <2>1 DEF IInv, StashFits
  <2>3. \A k \in DOMAIN args :
          \/ r[k] = args[k]
          \/ args[k] = Unknown /\ k \in DOMAIN stash.details /\ r[k] = stash.details[k]
        BY <2>1
  <2>4. \A k \in DOMAIN args : args[k] # Unknown => r[k] = args[k]
        BY <2>1
  <2>5. DOMAIN r = Takes[tool] /\ DOMAIN args = Takes[tool]
        BY <1>1, <2>1
  <2>6. ArgsAreTyped(r)
    <3> SUFFICES ASSUME NEW k \in DOMAIN args, r[k] # Unknown
                 PROVE  k \in Key /\ r[k] \in Detail /\ r[k].value \in Values[k]
        BY <1>1, <2>5, ToolsTakeKeys DEF ArgsAreTyped
    <3>   QED
          BY <1>1, <2>2, <2>3 DEF ArgsFit, ArgsAreTyped
  <2>7. /\ Gives(args, "product_name") /\ Gives(r, "product_name")
        /\ r["product_name"] = args["product_name"]
        /\ args["product_name"].value \in presented.items
    <3>1. Given(args, "product_name") # Unknown
          BY <2>1, AbsenceAssumption DEF IInv, PresentedIsTyped
    <3>2. Gives(args, "product_name")
          BY <3>1 DEF Given
    <3>   QED
          BY <3>2, <2>1, <2>4, <2>5 DEF Gives, Given
  <2>8. ArgsFitProduct(r)
    <3> SUFFICES ASSUME NEW k \in ProductSpecificKeys, Gives(r, k)
                 PROVE  r["product_name"].value \in r[k].of
        BY <2>7 DEF ArgsFitProduct
    <3>1. k \in DOMAIN args
          BY <2>5 DEF Gives
    <3>2. CASE r[k] = args[k]
      <4>1. Gives(args, k)
            BY <3>1, <3>2 DEF Gives
      <4>   QED
            BY <4>1, <3>2, <1>1, <2>7 DEF ArgsFit, ArgsFitProduct
    <3>3. CASE k \in DOMAIN stash.details /\ r[k] = stash.details[k]
          BY <3>3, <2>2, <2>7
    <3>   QED
          BY <3>1, <3>2, <3>3, <2>3
  <2>9. ArgsFitAddress(r)
    <3> DEFINE a == IF Gives(args, "delivery_address") THEN args["delivery_address"].value
                    ELSE Remembered("delivery_address")
               b == IF Gives(r, "delivery_address") THEN r["delivery_address"].value
                    ELSE Remembered("delivery_address")
    <3> SUFFICES ASSUME Gives(r, "delivery_option")
                 PROVE  FitsAddress(r["delivery_option"], b)
        BY DEF ArgsFitAddress
    <3>1. b \in Address \cup {None}
      <4>1. Gives(r, "delivery_address") => r["delivery_address"].value \in Values["delivery_address"]
            BY <2>6 DEF ArgsAreTyped, Gives
      <4>   QED
            BY <4>1, RememberedAddress DEF Values
    <3>2. "delivery_option" \in DOMAIN args
          BY <2>5 DEF Gives
    <3>3. CASE /\ "delivery_option" \in DOMAIN stash.details
               /\ r["delivery_option"] = stash.details["delivery_option"]
          BY <3>1, <3>3, <2>2 DEF FitsAddress
    <3>4. CASE r["delivery_option"] = args["delivery_option"]
      <4>1. Gives(args, "delivery_option")
            BY <3>2, <3>4 DEF Gives
      <4>2. FitsAddress(args["delivery_option"], a)
            BY <4>1, <1>1 DEF ArgsFit, ArgsFitAddress
      <4>3. CASE Gives(args, "delivery_address")
        <5>1. Gives(r, "delivery_address") /\ r["delivery_address"] = args["delivery_address"]
              BY <4>3, <2>4, <2>5 DEF Gives
        <5>   QED
              BY <5>1, <4>2, <4>3, <3>4
      <4>4. CASE ~Gives(args, "delivery_address") /\ ~Gives(r, "delivery_address")
            BY <4>4, <4>2, <3>4
      <4>5. CASE ~Gives(args, "delivery_address") /\ Gives(r, "delivery_address")
        <5>1. /\ "delivery_address" \in DOMAIN stash.details
              /\ r["delivery_address"] = stash.details["delivery_address"]
              BY <4>5, <2>3, <2>5 DEF Gives
        <5>2. stash.details["delivery_address"].value \in args["delivery_option"].of
              BY <5>1, <4>1, <4>5, <1>1, <2>1
        <5>   QED
              BY <5>1, <5>2, <4>5, <3>4 DEF FitsAddress
      <4>   QED
            BY <4>3, <4>4, <4>5
    <3>   QED
          BY <3>2, <3>3, <3>4, <2>3
  <2>10. ArgsFit(r) /\ DOMAIN r = Takes[tool]
         BY <2>5, <2>6, <2>8, <2>9 DEF ArgsFit
  <2>   QED
        BY <2>10, <1>1, <1>2
<1>   QED
      BY <1>3, <1>4

LEMMA RequestsFit ==
  ASSUME IInv, NEW tool \in DOMAIN Takes, NEW heard \in Requests(tool)
  PROVE  ArgsFit(heard) /\ DOMAIN heard = Takes[tool]
<1>1. PICK name \in StatedName \cup {Unknown}, message \in Messages[tool], whole \in BOOLEAN :
        heard = Heard(tool, name, message, whole)
      BY DEF Requests
<1>   QED
      BY <1>1, HeardFits

-----------------------------------------------------------------------------
(* The lookups, continued.                                                 *)

\* The row's name has a word of the name or of the material asked for.
SharesAWord(name, material, row) ==
  \E word \in {name, material} : <<word, At(row).product>> \in Overlaps

\* A row that is found is of the name that was asked for, or shares a word with
\* it or with the material.
LEMMA FoundIsNear ==
  ASSUME NEW name, NEW material, NEW near \in Nearest(name, material),
         GetProductPrice(name, material, near).kind = "row"
  PROVE  LET row == GetProductPrice(name, material, near).row
         IN /\ row \in DOMAIN Rows
            /\ At(row).product = name \/ SharesAWord(name, material, row)
<1> DEFINE same == WithKarat(RowsNamed(name), material)
           options == KaratOptions(name)
           f == GetProductPrice(name, material, near)
<1>1. same \subseteq RowsNamed(name) /\ options \subseteq RowsNamed(name)
      BY DEF WithKarat, KaratOptions
<1>2. \A i \in RowsNamed(name) : i \in DOMAIN Rows /\ At(i).product = name
      BY DEF RowsNamed
<1>3. same \subseteq DOMAIN Rows /\ options \subseteq DOMAIN Rows
      BY <1>1, <1>2
<1>4. Cardinality(options) = 1 => options # {}
      BY FS_EmptySet
<1>5. \/ same # {} /\ f = Row(First(same))
      \/ Cardinality(options) = 1 /\ f = Row(First(options))
      \/ f = Options(name)
      \/ f = SemanticMatch(material, near)
      BY DEF GetProductPrice
<1> HIDE DEF same, options, f
<1>6. f.kind = "row"
      BY DEF f
<1>7. CASE same # {} /\ f = Row(First(same))
  <2>1. First(same) \in same
        BY <1>3, <1>7, FirstIsOne
  <2>2. f.row = First(same)
        BY <1>7 DEF Row
  <2>   QED
        BY <2>1, <2>2, <1>1, <1>2 DEF f
<1>8. CASE Cardinality(options) = 1 /\ f = Row(First(options))
  <2>1. First(options) \in options
        BY <1>3, <1>4, <1>8, FirstIsOne
  <2>2. f.row = First(options)
        BY <1>8 DEF Row
  <2>   QED
        BY <2>1, <2>2, <1>1, <1>2 DEF f
<1>9. CASE f = SemanticMatch(material, near)
  <2>1. near # 0 /\ f = Row(near)
        BY <1>6, <1>9 DEF SemanticMatch, NoMatch
  <2>2. f.row = near
        BY <2>1 DEF Row
  <2>   QED
        BY <2>1, <2>2 DEF Nearest, SharesAWord, f
<1>10. f # Options(name)
       BY <1>6 DEF Options
<1>   QED
      BY <1>5, <1>7, <1>8, <1>9, <1>10

LEMMA FoundById ==
  ASSUME NEW id, NEW material, GetProductPriceById(id, material).kind = "row"
  PROVE  LET row == GetProductPriceById(id, material).row
         IN row \in DOMAIN Rows /\ At(row).id = id
<1> DEFINE same == WithKarat({i \in DOMAIN Rows : At(i).id = id}, material)
           f == GetProductPriceById(id, material)
<1>1. \A i \in same : i \in DOMAIN Rows /\ At(i).id = id
      BY DEF WithKarat
<1>2. f = IF same = {} THEN NoMatch ELSE Row(First(same))
      BY DEF GetProductPriceById
<1> HIDE DEF same, f
<1>3. same # {} /\ f = Row(First(same))
      BY <1>2 DEF NoMatch, f
<1>4. First(same) \in same
      BY <1>1, <1>3, FirstIsOne
<1>5. f.row = First(same)
      BY <1>3 DEF Row
<1>   QED
      BY <1>1, <1>4, <1>5 DEF f

\* order_tool's recovery by id adds the product the name is a truncation of.
LEMMA OrderedIsNamed ==
  ASSUME IInv, NEW args, NEW near \in NearestTo(args),
         LookupToOrder(args, near).kind = "row"
  PROVE  LET row == LookupToOrder(args, near).row
             name == Given(args, "product_name")
         IN /\ row \in DOMAIN Rows
            /\ \/ IsPrefix(name, At(row).product)
               \/ SharesAWord(name, Given(args, "material"), row)
<1> DEFINE name == Given(args, "product_name")
           material == Given(args, "material")
           f == LookupToOrder(args, near)
           direct == GetProductPrice(name, material, near)
           byId == GetProductPriceById(pending.id, material)
<1>1. \/ f = direct
      \/ pending # None /\ IsPrefix(name, pending.product) /\ f = byId
      BY DEF LookupToOrder, Lookup
<1>2. near \in Nearest(name, material) /\ f.kind = "row"
      BY DEF NearestTo
<1> HIDE DEF f, name, material
<1>3. CASE f = direct
  <2>1. direct.kind = "row"
        BY <1>2, <1>3
  <2>2. /\ direct.row \in DOMAIN Rows
        /\ \/ At(direct.row).product = name
           \/ SharesAWord(name, material, direct.row)
        BY <1>2, <2>1, FoundIsNear
  <2>   QED
        BY <2>2, <1>3 DEF IsPrefix, f, name, material
<1>4. CASE pending # None /\ IsPrefix(name, pending.product) /\ f = byId
  <2>1. byId.kind = "row"
        BY <1>2, <1>4
  <2>2. byId.row \in DOMAIN Rows /\ At(byId.row).id = pending.id
        BY <2>1, FoundById
  <2>3. \E i \in DOMAIN Rows : At(i).product = pending.product /\ At(i).id = pending.id
        BY <1>4 DEF IInv, PendingIsARow
  <2>4. At(byId.row).product = pending.product
        BY <2>2, <2>3, CatalogueAssumption DEF At
  <2>   QED
        BY <2>2, <2>4, <1>4 DEF f, name
<1>   QED
      BY <1>1, <1>3, <1>4

-----------------------------------------------------------------------------
(* The handlers.                                                           *)

LEMMA AHandlerRemembersWhatFits ==
  ASSUME IInv, NEW args, ArgsFit(args), NEW found, Remembers(args, found)
  PROVE  MemoryFits(mem') /\ stash' = None
<1>1. MemoryFits(mem) /\ MemoryFits(RememberContext(args))
      BY RememberedFits DEF IInv
<1>2. mem' = RememberContext(args) \/ mem' = mem
      BY DEF Remembers
<1>   QED
      BY <1>1, <1>2 DEF Remembers

LEMMA AHeardHandlerRemembersWhatFits ==
  ASSUME IInv, NEW tool \in DOMAIN Takes, NEW heard \in Requests(tool), NEW found,
         Remembers(FillMissingContext(heard), found)
  PROVE  MemoryFits(mem') /\ stash' = None
<1>1. ArgsFit(FillMissingContext(heard))
      BY RequestsFit, FilledArgsFit
<1>   QED
      BY <1>1, AHandlerRemembersWhatFits

LEMMA ArrangementsAreZones ==
  ASSUME NEW args, NEW answers, Arrangement(args, answers) # "unclear"
  PROVE  /\ Arrangement(args, answers) \in Zones
         /\ HasOption(args) => Arrangement(args, answers) = Given(args, "delivery_option")
                               /\ Arrangement(args, answers) \in DeliveryOptions
<1>1. CASE HasOption(args)
      BY <1>1 DEF HasOption, Arrangement, Zones
<1>2. CASE ~HasOption(args)
  <2> DEFINE a == Given(args, "delivery_address")
  <2>1. Arrangement(args, answers) = InferDeliveryOption(a, answers)
        BY <1>2 DEF Arrangement
  <2> HIDE DEF a
  <2>2. a \in Address /\ Located[a] # "unknown" => Located[a] \in Zones
        BY AddressesAssumption
  <2>3. ClassifyZoneOffline(a) \in Zones \cup {"unclear"}
        BY DEF ClassifyZoneOffline, Zones, DeliveryOptions
  <2>   QED
        BY <1>2, <2>1, <2>2, <2>3 DEF InferDeliveryOption, Resolved
<1>   QED
      BY <1>1, <1>2

LEMMA RiderCities ==
  ASSUME NEW option \in DOMAIN RiderZoneCity
  PROVE  RiderZoneCity[option] \in Address
BY AddressesAssumption DEF RiderZoneCity

\* An offered proposal's details are remembered with the row's karat, the
\* address it goes to and the arrangement.
Offered(heard, args, found, option, address) ==
  [args EXCEPT !["material"].value = At(found.row).karat,
               !["delivery_address"].value = address,
               !["delivery_option"] = ProposedOption(heard, args, option, address)]

LEMMA OfferedFits ==
  ASSUME IInv, NEW heard \in Requests("propose_order"),
         NEW args, args = FillMissingContext(heard), Complete(args),
         NEW answers, NEW option, option = Arrangement(args, answers), option # "unclear",
         NEW found, found.row \in DOMAIN Rows, NEW matchAnswers,
         NEW address,
         address = IF Overrides(found.row, option, Given(args, "delivery_address"), matchAnswers)
                   THEN RiderZoneCity[option] ELSE Given(args, "delivery_address")
  PROVE  /\ ArgsFit(Offered(heard, args, found, option, address))
         /\ Gives(Offered(heard, args, found, option, address), "product_name")
         /\ Offered(heard, args, found, option, address)["product_name"] = args["product_name"]
         /\ address \in Address
<1> DEFINE o == Offered(heard, args, found, option, address)
           p == ProposedOption(heard, args, option, address)
<1>1. "propose_order" \in DOMAIN Takes /\ Takes["propose_order"] = Key
      BY DEF Takes
<1>2. ArgsFit(heard) /\ DOMAIN heard = Key
      BY <1>1, RequestsFit
<1>3. ArgsFit(args) /\ DOMAIN args = Key
      BY <1>2, FilledArgsFit
<1>4. args = [key \in Key |-> args[key]]
      BY <1>2 DEF FillMissingContext
<1>5. \A k \in Key : args[k] # Unknown =>
        /\ args[k] \in Detail /\ args[k].value \in Values[k]
        /\ args[k] = [value |-> args[k].value, of |-> args[k].of]
        /\ args[k].of \in SUBSET (Name \cup Address \cup {None})
      BY <1>3, DetailIsARecord DEF ArgsFit, ArgsAreTyped
<1>6. \A k \in Key \ {"delivery_option"} : Gives(args, k) /\ args[k] # Unknown
      BY DEF Complete, Gives
<1>7. address \in Address
  <2>1. Given(args, "delivery_address") \in Address
    <3>1. args["delivery_address"].value \in Values["delivery_address"]
          BY <1>5, <1>6 DEF Key
    <3>   QED
          BY <3>1, <1>6 DEF Key, Values, Given
  <2>   QED
        BY <2>1, RiderCities DEF Overrides
<1>8. /\ option \in Zones
      /\ HasOption(args) => option = Given(args, "delivery_option") /\ option \in DeliveryOptions
      BY ArrangementsAreZones
<1>9. HasOption(args) => Gives(args, "delivery_option") /\ args["delivery_option"].value = option
  <2> SUFFICES ASSUME HasOption(args)
               PROVE  Gives(args, "delivery_option") /\ args["delivery_option"].value = option
      OBVIOUS
  <2>1. Given(args, "delivery_option") = option /\ option # Unknown
        BY <1>8, AbsenceAssumption
  <2>   QED
        BY <2>1 DEF Given
<1>10. \A k \in Key \ {"material", "delivery_address", "delivery_option"} : o[k] = args[k]
       BY <1>4 DEF Offered
<1>11. /\ DOMAIN o = Key
       /\ o["delivery_option"] = p
       /\ o["material"] = [args["material"] EXCEPT !.value = At(found.row).karat]
       /\ o["delivery_address"] = [args["delivery_address"] EXCEPT !.value = address]
       BY <1>4 DEF Offered, Key
<1> HIDE DEF o, p
<1>12. "material" \in Key /\ "delivery_address" \in Key /\ "delivery_option" \in Key
       /\ "product_name" \in Key /\ "quantity" \in Key
       BY DEF Key
<1>13. /\ o["material"] = [value |-> At(found.row).karat, of |-> args["material"].of]
       /\ o["delivery_address"] = [value |-> address, of |-> args["delivery_address"].of]
  <2>1. /\ args["material"] = [value |-> args["material"].value, of |-> args["material"].of]
        /\ args["delivery_address"] = [value |-> args["delivery_address"].value,
                                       of |-> args["delivery_address"].of]
        BY <1>5, <1>6, <1>12
  <2>   QED
        BY <2>1, <1>11
<1>14. o["material"] \in Detail /\ o["material"].value \in Values["material"]
       /\ o["material"].of = args["material"].of
  <2>1. At(found.row).karat \in Values["material"]
        BY RowsAreTyped, CatalogueAssumption DEF Values
  <2>2. args["material"].of \in SUBSET (Name \cup Address \cup {None})
        BY <1>5, <1>6, <1>12
  <2>3. o["material"] \in Detail
        BY <2>1, <2>2, <1>12, <1>13, ADetail
  <2>   QED
        BY <2>1, <2>3, <1>13
<1>15. /\ o["delivery_address"] \in Detail
       /\ o["delivery_address"].value \in Values["delivery_address"]
       /\ o["delivery_address"].value = address
  <2>1. address \in Values["delivery_address"]
        BY <1>7 DEF Values
  <2>2. args["delivery_address"].of \in SUBSET (Name \cup Address \cup {None})
        BY <1>5, <1>6, <1>12
  <2>3. o["delivery_address"] \in Detail
        BY <2>1, <2>2, <1>12, <1>13, ADetail
  <2>   QED
        BY <2>1, <2>3, <1>13
<1>16. /\ p.value = IF option = "ghana_other" THEN "team_confirm" ELSE option
       /\ p.of = IF HasOption(args) /\ ~Gives(heard, "delivery_option")
                 THEN args["delivery_option"].of ELSE {address}
       /\ p = [value |-> p.value, of |-> p.of]
       BY DEF p, ProposedOption
<1>17. p \in Detail /\ p.value \in Values["delivery_option"]
  <2>1. p.value \in Values["delivery_option"]
        BY <1>8, <1>16 DEF Zones, Values
  <2>2. p.of \in SUBSET (Name \cup Address \cup {None})
        BY <1>5, <1>7, <1>9, <1>12, <1>16 DEF Gives
  <2>3. [value |-> p.value, of |-> p.of] \in Detail
        BY <2>1, <2>2, <1>12, ADetail
  <2>   QED
        BY <2>1, <2>3, <1>16
<1>18. ArgsAreTyped(o)
  <2> SUFFICES ASSUME NEW k \in Key, o[k] # Unknown
               PROVE  o[k] \in Detail /\ o[k].value \in Values[k]
      BY <1>11 DEF ArgsAreTyped
  <2>1. CASE k \in {"material", "delivery_address", "delivery_option"}
        BY <2>1, <1>11, <1>14, <1>15, <1>17
  <2>2. CASE k \notin {"material", "delivery_address", "delivery_option"}
        BY <2>2, <1>5, <1>10
  <2>   QED
        BY <2>1, <2>2
<1>19. /\ o["product_name"] = args["product_name"]
       /\ Gives(o, "product_name") /\ Gives(args, "product_name")
       BY <1>6, <1>10, <1>11, <1>12 DEF Gives
<1>20. ArgsFitProduct(o)
  <2> SUFFICES ASSUME NEW k \in ProductSpecificKeys
               PROVE  o["product_name"].value \in o[k].of
      BY <1>19 DEF ArgsFitProduct
  <2>1. Gives(args, k)
        BY <1>6 DEF ProductSpecificKeys, Key
  <2>2. args["product_name"].value \in args[k].of
        BY <2>1, <1>3, <1>19 DEF ArgsFit, ArgsFitProduct
  <2>3. o[k].of = args[k].of
        BY <1>10, <1>12, <1>14 DEF ProductSpecificKeys
  <2>   QED
        BY <2>2, <2>3, <1>19
<1>21. ArgsFitAddress(o)
  <2>1. Gives(o, "delivery_address")
        BY <1>11, <1>12, <1>15, AbsenceAssumption DEF Gives
  <2>2. FitsAddress(p, address)
    <3>1. CASE ~(HasOption(args) /\ ~Gives(heard, "delivery_option"))
          BY <3>1, <1>16 DEF FitsAddress
    <3>2. CASE HasOption(args) /\ ~Gives(heard, "delivery_option")
      <4>1. p.of = args["delivery_option"].of /\ p.value = option
            BY <3>2, <1>8, <1>16 DEF DeliveryOptions
      <4>2. CASE Overrides(found.row, option, Given(args, "delivery_address"), matchAnswers)
            BY <4>1, <4>2 DEF FitsAddress, Overrides
      <4>3. CASE address = Given(args, "delivery_address")
        <5>1. FitsAddress(args["delivery_option"], args["delivery_address"].value)
              BY <3>2, <1>3, <1>6, <1>9, <1>12 DEF ArgsFit, ArgsFitAddress
        <5>2. address = args["delivery_address"].value
              BY <4>3, <1>6, <1>12 DEF Given
        <5>   QED
              BY <5>1, <5>2, <4>1, <3>2, <1>9 DEF FitsAddress
      <4>   QED
            BY <4>2, <4>3
    <3>   QED
          BY <3>1, <3>2
  <2>   QED
        BY <2>1, <2>2, <1>11, <1>15 DEF ArgsFitAddress
<1>   QED
      BY <1>7, <1>18, <1>19, <1>20, <1>21 DEF ArgsFit, o

-----------------------------------------------------------------------------
(* The steps.                                                              *)

\* What each step but an offer leaves: no proposal that was not there before.
ProposesNothing == pending' \in {None, pending}

LEMMA InitFits == Init => IInv
<1> SUFFICES ASSUME Init PROVE IInv
    OBVIOUS
<1>1. \A k \in Key : mem[k] = None
      BY DEF Init, Forgotten
<1>2. MemoryFits(mem)
      BY <1>1 DEF MemoryFits, DetailsAreTyped, ProductDetailsFit, OptionFits,
                  ProductSpecificKeys, Key
<1>3. PresentedIsTyped /\ StashFits /\ PendingIsARow
      BY ContextAssumption DEF Init, PresentedIsTyped, StashFits, PendingIsARow
<1>   QED
      BY <1>2, <1>3 DEF IInv

LEMMA ReadingFits ==
  ASSUME IInv, PriceProduct \/ QuoteProduct \/ DescribeProduct
  PROVE  IInv' /\ ProposesNothing
<1>1. UNCHANGED <<pending, presented>>
      BY DEF PriceProduct, QuoteProduct, DescribeProduct
<1>2. MemoryFits(mem') /\ stash' = None
  <2>1. CASE PriceProduct
    <3>1. PICK heard \in Requests("get_product_price") :
            \E near \in NearestTo(FillMissingContext(heard)) :
            Remembers(FillMissingContext(heard),
                      Lookup(FillMissingContext(heard), near) # NoMatch)
          BY <2>1 DEF PriceProduct
    <3>2. "get_product_price" \in DOMAIN Takes
          BY DEF Takes
    <3>   QED
          BY <3>1, <3>2, AHeardHandlerRemembersWhatFits
  <2>2. CASE QuoteProduct
    <3>1. PICK heard \in Requests("generate_quote") :
            \E near \in NearestTo(FillMissingContext(heard)) :
            Remembers(FillMissingContext(heard),
                      Lookup(FillMissingContext(heard), near).kind = "row")
          BY <2>2 DEF QuoteProduct
    <3>2. "generate_quote" \in DOMAIN Takes
          BY DEF Takes
    <3>   QED
          BY <3>1, <3>2, AHeardHandlerRemembersWhatFits
  <2>3. CASE DescribeProduct
    <3>1. PICK heard \in Requests("get_product_weight") :
            Remembers(FillMissingContext(heard),
              RowsNamed(Given(FillMissingContext(heard), "product_name")) # {})
          BY <2>3 DEF DescribeProduct
    <3>2. "get_product_weight" \in DOMAIN Takes
          BY DEF Takes
    <3>   QED
          BY <3>1, <3>2, AHeardHandlerRemembersWhatFits
  <2>   QED
        BY <2>1, <2>2, <2>3
<1>   QED
      BY <1>1, <1>2 DEF IInv, PresentedIsTyped, StashFits, PendingIsARow, ProposesNothing

LEMMA BrowseFits ==
  ASSUME IInv, Browse
  PROVE  IInv' /\ ProposesNothing
<1>1. PICK message \in Messages["recommend_products"], category \in Lists :
        LET args == FillMissingContext(Arguments("recommend_products", Unknown, message, Name))
            found == Shows(category, Given(args, "material"))
        IN /\ Remembers(args, found # {})
           /\ \E items \in SelectPresentedGroups(found) :
                presented' = IF found = {} THEN presented
                             ELSE [generation |-> presented.generation + 1, items |-> items]
           /\ UNCHANGED pending
      BY DEF Browse
<1> DEFINE asked == Arguments("recommend_products", Unknown, message, Name)
           args == FillMissingContext(asked)
           found == Shows(category, Given(args, "material"))
<1>2. ArgsFit(args)
  <2>1. "recommend_products" \in DOMAIN Takes
        BY DEF Takes
  <2>2. AboutProduct("recommend_products", Unknown) = Name
        BY DEF AboutProduct
  <2>3. ArgsFit(asked)
        BY <2>1, <2>2, ArgumentsFit
  <2>   QED
        BY <2>3, FilledArgsFit
<1>3. found \subseteq Name
      BY ContextAssumption DEF Shows
<1> HIDE DEF args, found
<1>4. /\ Remembers(args, found # {})
      /\ \E items \in SelectPresentedGroups(found) :
           presented' = IF found = {} THEN presented
                        ELSE [generation |-> presented.generation + 1, items |-> items]
      /\ UNCHANGED pending
      BY <1>1 DEF args, found
<1>5. MemoryFits(mem') /\ stash' = None
      BY <1>2, <1>4, AHandlerRemembersWhatFits
<1>6. PresentedIsTyped'
  <2>1. PICK items \in SelectPresentedGroups(found) :
          presented' = IF found = {} THEN presented
                       ELSE [generation |-> presented.generation + 1, items |-> items]
        BY <1>4
  <2>2. items \in SUBSET Name
        BY <1>3 DEF SelectPresentedGroups
  <2>3. presented.generation < MaxLists /\ MaxLists \in Nat
        BY ContextAssumption DEF Browse
  <2>4. PresentedIsTyped
        BY DEF IInv
  <2>   QED
        BY <2>1, <2>2, <2>3, <2>4 DEF PresentedIsTyped
<1>   QED
      BY <1>4, <1>5, <1>6 DEF IInv, StashFits, PendingIsARow, ProposesNothing

LEMMA PhotoFits ==
  ASSUME IInv, PhotoMatch
  PROVE  IInv' /\ ProposesNothing
<1>1. PICK name \in IdentifiedProducts :
        mem' = RememberContext([product_name |-> [value |-> name, of |-> {}], material |-> None])
      BY DEF PhotoMatch, PhotoMatched
<1> DEFINE args == [product_name |-> [value |-> name, of |-> {}], material |-> None]
<1>2. name \in Name
      BY RowsAreTyped DEF IdentifiedProducts
<1>3. DOMAIN args = {"product_name", "material"} /\ args["material"] = None
      /\ args["product_name"] = [value |-> name, of |-> {}]
      OBVIOUS
<1> HIDE DEF args
<1>4. [value |-> name, of |-> {}] \in Detail
      BY <1>2, ADetail DEF Key, Values
<1>5. /\ Gives(args, "product_name") /\ Gives(args, "material")
      /\ \A k \in {"quantity", "delivery_address", "delivery_option"} : ~Gives(args, k)
      BY <1>3, <1>4, AbsenceAssumption DEF Gives
<1>6. mem' = RememberContext(args)
      BY <1>1 DEF args
<1>7. /\ mem'["product_name"] = [value |-> name, of |-> {}]
      /\ mem'["material"] = None
      /\ mem'["quantity"] # None =>
           mem'["quantity"] = mem["quantity"] /\ ~NamesADifferentProduct(args)
      /\ mem'["delivery_address"] = mem["delivery_address"]
      /\ mem'["delivery_option"] = mem["delivery_option"]
      BY <1>3, <1>5, <1>6 DEF RememberContext, Key, ProductSpecificKeys, NamesADifferentAddress
<1>8. mem'["product_name"] # None /\ mem'["product_name"].value = name
      BY <1>4, <1>7, DetailIsARecord
<1>9. DetailsAreTyped(mem')
  <2>1. \A k \in Key \ {"product_name", "material"} : mem'[k] # None => mem'[k] = mem[k]
        BY <1>7 DEF Key
  <2>2. \A k \in Key : mem[k] # None => mem[k] \in Detail /\ mem[k].value \in Values[k]
        BY DEF IInv, MemoryFits, DetailsAreTyped
  <2>3. name \in Values["product_name"]
        BY <1>2 DEF Values
  <2>   QED
        BY <2>1, <2>2, <2>3, <1>4, <1>7, <1>8 DEF DetailsAreTyped
<1>10. ProductDetailsFit(mem')
  <2> SUFFICES ASSUME mem'["quantity"] # None
               PROVE  name \in mem'["quantity"].of
      BY <1>7, <1>8 DEF ProductDetailsFit, ProductSpecificKeys
  <2>1. IF mem["product_name"] # None THEN mem["product_name"].value \in mem["quantity"].of
        ELSE Name \subseteq mem["quantity"].of
        BY <1>7 DEF IInv, MemoryFits, ProductDetailsFit, ProductSpecificKeys
  <2>2. args["product_name"].value = name
        BY <1>3
  <2>3. mem["product_name"] # None => mem["product_name"].value = name
        BY <2>2, <1>5, <1>7 DEF NamesADifferentProduct
  <2>   QED
        BY <2>1, <2>3, <1>2, <1>7
<1>11. OptionFits(mem')
       BY <1>7 DEF OptionFits, IInv, MemoryFits
<1>12. UNCHANGED <<pending, presented, stash>>
       BY DEF PhotoMatch
<1>    QED
       BY <1>9, <1>10, <1>11, <1>12
          DEF IInv, MemoryFits, PresentedIsTyped, StashFits, PendingIsARow, ProposesNothing

LEMMA AskingFits ==
  ASSUME IInv, AskWhich
  PROVE  IInv' /\ ProposesNothing
<1>1a. PICK tool \in ProductSpecificTools :
         \E name \in StatedName \cup {Unknown}, message \in Messages[tool] :
           LET args == Arguments(tool, name, message, presented.items)
               detail(k) == IF k = "delivery_option"
                            THEN [args[k] EXCEPT !.of = Address \cup {None}] ELSE args[k]
           IN /\ MayBeAmbiguous(tool, args)
              /\ stash' = IF DOMAIN message = {} THEN None
                          ELSE [generation |-> presented.generation,
                                details |-> [k \in DOMAIN message |-> detail(k)]]
              /\ UNCHANGED <<mem, pending, presented>>
       BY DEF AskWhich
<1>1. PICK name \in StatedName \cup {Unknown}, message \in Messages[tool] :
        LET args == Arguments(tool, name, message, presented.items)
            detail(k) == IF k = "delivery_option"
                         THEN [args[k] EXCEPT !.of = Address \cup {None}] ELSE args[k]
        IN /\ MayBeAmbiguous(tool, args)
           /\ stash' = IF DOMAIN message = {} THEN None
                       ELSE [generation |-> presented.generation,
                             details |-> [k \in DOMAIN message |-> detail(k)]]
           /\ UNCHANGED <<mem, pending, presented>>
      BY <1>1a
<1> DEFINE args == Arguments(tool, name, message, presented.items)
           detail(k) == IF k = "delivery_option"
                        THEN [args[k] EXCEPT !.of = Address \cup {None}] ELSE args[k]
           details == [k \in DOMAIN message |-> detail(k)]
<1>2. /\ tool \in DOMAIN Takes
      /\ presented.items \in SUBSET Name
      BY DEF ProductSpecificTools, IInv, PresentedIsTyped
<1>3. ReadAs(args, tool, name, message, presented.items)
      BY <1>2, ArgumentsAre
<1>4. /\ DOMAIN message \subseteq Takes[tool] \ {"product_name"}
      /\ Takes[tool] \subseteq Key
      BY <1>2, MessagesAreTyped, ToolsTakeKeys
<1>5. /\ MayBeAmbiguous(tool, args)
      /\ stash' = IF DOMAIN message = {} THEN None
                  ELSE [generation |-> presented.generation, details |-> details]
      /\ UNCHANGED <<mem, pending, presented>>
      BY <1>1
<1> HIDE DEF args
<1>6. presented.generation >= 1
  <2>1. Cardinality(presented.items) >= 2
        BY <1>5 DEF MayBeAmbiguous
  <2>2. presented.items # {}
        BY <2>1, FS_EmptySet
  <2>   QED
        BY <2>2 DEF IInv, PresentedIsTyped
<1>7. \A k \in DOMAIN message :
        /\ k \in Key \ {"product_name"}
        /\ args[k] \in Detail /\ args[k].value \in Values[k]
        /\ k \in ProductSpecificKeys => presented.items \subseteq args[k].of
      BY <1>3, <1>4 DEF ReadAs, ArgsAreTyped, Gives
<1>8. ASSUME NEW k \in DOMAIN message
      PROVE  /\ details[k] \in Detail /\ details[k].value \in Values[k]
             /\ k \in ProductSpecificKeys => presented.items \subseteq details[k].of
             /\ k = "delivery_option" => details[k].of = Address \cup {None}
  <2>1. CASE k # "delivery_option"
        BY <2>1, <1>7
  <2>2. CASE k = "delivery_option"
    <3>1. args[k] = [value |-> args[k].value, of |-> args[k].of]
          BY <1>7, DetailIsARecord
    <3>2. details[k] = [value |-> args[k].value, of |-> Address \cup {None}]
          BY <2>2, <3>1
    <3> HIDE DEF details
    <3>3. details[k] \in Detail
          BY <3>2, <1>7, ADetail
    <3>4. k \notin ProductSpecificKeys
          BY <2>2 DEF ProductSpecificKeys
    <3>5. details[k].value = args[k].value /\ details[k].of = Address \cup {None}
          BY <3>2
    <3>   QED
          BY <3>3, <3>4, <3>5, <1>7
  <2>   QED
        BY <2>1, <2>2
<1>9. DOMAIN details = DOMAIN message
      OBVIOUS
<1> HIDE DEF details
<1>10. StashFits'
  <2>1. CASE stash' = None
        BY <2>1 DEF StashFits
  <2>2. CASE stash' = [generation |-> presented.generation, details |-> details]
    <3>1. stash'.generation = presented'.generation /\ stash'.details = details
          /\ presented' = presented
          BY <2>2, <1>5
    <3>   QED
          BY <3>1, <1>6, <1>7, <1>8, <1>9 DEF StashFits
  <2>   QED
        BY <2>1, <2>2, <1>5
<1>   QED
      BY <1>5, <1>10 DEF IInv, PresentedIsTyped, PendingIsARow, ProposesNothing

LEMMA RefusingFits ==
  ASSUME IInv, ProposeAsks \/ ProposeRefuses
  PROVE  IInv' /\ ProposesNothing
<1>1. PICK heard \in Requests("propose_order") :
        /\ Remembers(FillMissingContext(heard), TRUE)
        /\ \/ pending' = pending
           \/ pending' = Surviving(Given(FillMissingContext(heard), "product_name"))
        /\ UNCHANGED presented
      BY DEF ProposeAsks, ProposeRefuses
<1>2. "propose_order" \in DOMAIN Takes
      BY DEF Takes
<1>3. MemoryFits(mem') /\ stash' = None
      BY <1>1, <1>2, AHeardHandlerRemembersWhatFits
<1>4. pending' \in {None, pending}
      BY <1>1 DEF Surviving
<1>   QED
      BY <1>1, <1>3, <1>4 DEF IInv, PresentedIsTyped, StashFits, PendingIsARow, ProposesNothing

\* The new proposal is for the product the request named, or for one near it.
NamedWell(heard) == ~IsForAnother(heard, pending'.product)

\* The address a proposal goes to, and what an offer of it does.
SendsTo(args, row, option, matchAnswers) ==
  IF Overrides(row, option, Given(args, "delivery_address"), matchAnswers)
  THEN RiderZoneCity[option] ELSE Given(args, "delivery_address")
OffersWith(heard, args, found, option, matchAnswers) ==
  LET address == SendsTo(args, found.row, option, matchAnswers)
  IN /\ Orderable(found, Given(args, "material"))
     /\ pending' = [product |-> At(found.row).product,
                    id |-> At(found.row).id, address |-> address]
     /\ Remembers(Offered(heard, args, found, option, address), TRUE)

LEMMA OfferingFits ==
  ASSUME IInv, NEW heard \in Requests("propose_order"), Offers(heard)
  PROVE  IInv' /\ NamedWell(heard)
<1>1.   LET args == FillMissingContext(heard)
        IN /\ Complete(args)
           /\ \E option \in {Arrangement(args, answers) : answers \in Geocoder} \ {"unclear"},
                matchAnswers \in Geocoder,
                found \in {LookupToOrder(args, near) : near \in NearestTo(args)} :
                OffersWith(heard, args, found, option, matchAnswers)
      BY DEF Offers, Offered, OffersWith, SendsTo
<1> DEFINE args == FillMissingContext(heard)
<1>2a. PICK option \in {Arrangement(args, answers) : answers \in Geocoder} \ {"unclear"},
            matchAnswers \in Geocoder,
            found \in {LookupToOrder(args, near) : near \in NearestTo(args)} :
         OffersWith(heard, args, found, option, matchAnswers)
       BY <1>1
<1>2b. PICK answers \in Geocoder : option = Arrangement(args, answers)
       OBVIOUS
<1>2c. PICK near \in NearestTo(args) : found = LookupToOrder(args, near)
       OBVIOUS
<1>3. Complete(args)
      BY <1>1
<1> DEFINE address == SendsTo(args, found.row, option, matchAnswers)
           o == Offered(heard, args, found, option, address)
<1>4. /\ option # "unclear"
      /\ found.kind = "row"
      /\ pending' = [product |-> At(found.row).product, id |-> At(found.row).id,
                     address |-> address]
      /\ Remembers(o, TRUE)
      BY <1>2a DEF Orderable, OffersWith
<1>5. /\ found.row \in DOMAIN Rows
      /\ \/ IsPrefix(Given(args, "product_name"), At(found.row).product)
         \/ SharesAWord(Given(args, "product_name"), Given(args, "material"), found.row)
      BY <1>2c, <1>4, OrderedIsNamed
<1>6. ArgsFit(o) /\ Gives(o, "product_name") /\ o["product_name"] = args["product_name"]
      /\ address \in Address
  <2> HIDE DEF args, address
  <2>1. args = FillMissingContext(heard)
        BY DEF args
  <2>2. address = IF Overrides(found.row, option, Given(args, "delivery_address"), matchAnswers)
                  THEN RiderZoneCity[option] ELSE Given(args, "delivery_address")
        BY DEF address, SendsTo
  <2>   QED
        BY <2>1, <2>2, <1>2b, <1>3, <1>4, <1>5, OfferedFits
<1> HIDE DEF o, address, args
<1>7. MemoryFits(mem') /\ stash' = None
      BY <1>4, <1>6, AHandlerRemembersWhatFits
<1>8. PendingIsARow'
  <2>1. pending' \in Proposal
        BY <1>4, <1>5, <1>6, RowsAreTyped DEF Proposal
  <2>2. At(found.row).product = pending'.product /\ At(found.row).id = pending'.id
        BY <1>4
  <2>   QED
        BY <2>1, <2>2, <1>5 DEF PendingIsARow
<1>9. NamedWell(heard)
  <2>1. pending'.product = At(found.row).product
        BY <1>4
  <2>   QED
        BY <2>1, <1>5 DEF NamedWell, IsForAnother, SharesAWord, args
<1>10. UNCHANGED presented
       BY DEF Offers
<1>    QED
       BY <1>7, <1>8, <1>9, <1>10 DEF IInv, PresentedIsTyped, StashFits

-----------------------------------------------------------------------------
(* The theorems.                                                           *)

LEMMA TheRestFits ==
  ASSUME IInv, Converse \/ Confirm \/ Expire \/ UNCHANGED vars
  PROVE  IInv' /\ ProposesNothing
<1>1. CASE Converse
      BY <1>1 DEF Converse, IInv, PresentedIsTyped, StashFits, PendingIsARow, ProposesNothing
<1>2. CASE UNCHANGED vars
      BY <1>2 DEF vars, IInv, PresentedIsTyped, StashFits, PendingIsARow, ProposesNothing
<1>3. MemoryFits(Forgotten)
  <2>1. \A k \in Key : Forgotten[k] = None
        BY DEF Forgotten
  <2>   QED
        BY <2>1 DEF MemoryFits, DetailsAreTyped, ProductDetailsFit, OptionFits,
                    ProductSpecificKeys, Key
<1>4. CASE Confirm
  <2>1. /\ mem' = Forgotten /\ pending' = None /\ stash' = None
        /\ UNCHANGED presented
        BY <1>4 DEF Confirm
  <2>   QED
        BY <2>1, <1>3 DEF IInv, PresentedIsTyped, StashFits, PendingIsARow, ProposesNothing
<1>5. CASE Expire
  <2>1. /\ mem' = Forgotten /\ pending' = None /\ stash' = None
        /\ presented' = [generation |-> 0, items |-> {}]
        BY <1>5 DEF Expire
  <2>2. PresentedIsTyped'
        BY <2>1, ContextAssumption DEF PresentedIsTyped
  <2>   QED
        BY <2>1, <2>2, <1>3 DEF IInv, StashFits, PendingIsARow, ProposesNothing
<1>   QED
      BY <1>1, <1>2, <1>4, <1>5

LEMMA StepsFit ==
  ASSUME IInv, [Next]_vars
  PROVE  IInv' /\ (ProposesNothing \/ ProposeOffers)
<1>1. CASE PriceProduct \/ QuoteProduct \/ DescribeProduct
      BY <1>1, ReadingFits
<1>2. CASE Browse
      BY <1>2, BrowseFits
<1>3. CASE PhotoMatch
      BY <1>3, PhotoFits
<1>4. CASE AskWhich
      BY <1>4, AskingFits
<1>5. CASE ProposeAsks \/ ProposeRefuses
      BY <1>5, RefusingFits
<1>6. CASE ProposeOffers
      BY <1>6, OfferingFits, Zenon DEF ProposeOffers
<1>7. CASE Converse \/ Confirm \/ Expire \/ UNCHANGED vars
      BY <1>7, TheRestFits
<1>   QED
      BY <1>1, <1>2, <1>3, <1>4, <1>5, <1>6, <1>7 DEF Next

\* The inductive invariant: the memory, the stash and the proposal fit.
THEOREM IInvIsInvariant == Spec => []IInv
<1>1. IInv /\ [Next]_vars => IInv'
      BY StepsFit
<1>   QED
      BY InitFits, <1>1, PTL DEF Spec

\* Whatever the model answers, remembered values stay of their kinds
\* (remember_context, and the clarification stash of the router).
THEOREM TypeCorrect == Spec => []TypeOK
<1>1. IInv => TypeOK
  <2> SUFFICES ASSUME IInv PROVE TypeOK
      OBVIOUS
  <2>1. \A k \in Key : mem[k] \in {None} \cup Detail
                       /\ (mem[k] # None => mem[k].value \in Values[k])
        BY DEF IInv, MemoryFits, DetailsAreTyped
  <2>2. pending \in {None} \cup Proposal
        BY DEF IInv, PendingIsARow
  <2>3. presented \in [generation: 0 .. MaxLists, items: SUBSET Name]
        BY DEF IInv, PresentedIsTyped
  <2>4. stash # None => /\ stash.generation \in 1 .. MaxLists
                        /\ \A k \in DOMAIN stash.details :
                             k \in Key \ {"product_name"} /\ stash.details[k] \in Detail
    <3> SUFFICES ASSUME stash # None
                 PROVE  /\ stash.generation \in 1 .. MaxLists
                        /\ \A k \in DOMAIN stash.details :
                             k \in Key \ {"product_name"} /\ stash.details[k] \in Detail
        OBVIOUS
    <3>1. presented.generation \in 0 .. MaxLists /\ MaxLists \in Nat
          BY <2>3, ContextAssumption
    <3>   QED
          BY <3>1 DEF IInv, StashFits
  <2>   QED
        BY <2>1, <2>2, <2>3, <2>4 DEF TypeOK
<1>   QED
      BY <1>1, IInvIsInvariant, PTL

\* A karat or a quantity is never filled in for another item than those it was
\* said about, whatever is asked, answered late, matched by photo or corrected.
THEOREM RememberedDetailsBelong == Spec => []DetailsBelongToTheirProduct
<1>1. IInv => DetailsBelongToTheirProduct
      BY DEF IInv, MemoryFits, ProductDetailsFit, DetailsBelongToTheirProduct
<1>   QED
      BY <1>1, IInvIsInvariant, PTL

\* A delivery option outlives no change of the address it was said for, unless
\* the new address is its own zone's city (propose_order's override).
THEOREM RememberedOptionsFit == Spec => []OptionFitsItsAddress
<1>1. IInv => OptionFitsItsAddress
  <2> SUFFICES ASSUME IInv, Remembered("delivery_option") # None
               PROVE  \/ Remembered("delivery_address") \in mem["delivery_option"].of
                      \/ /\ Remembered("delivery_option") \in DOMAIN RiderZoneCity
                         /\ Remembered("delivery_address")
                              = RiderZoneCity[Remembered("delivery_option")]
      BY DEF OptionFitsItsAddress
  <2>1. mem["delivery_option"] # None
        /\ Remembered("delivery_option") = mem["delivery_option"].value
        BY DEF Remembered
  <2>2. FitsAddress(mem["delivery_option"], Remembered("delivery_address"))
        BY <2>1 DEF IInv, MemoryFits, OptionFits, Remembered
  <2>   QED
        BY <2>1, <2>2 DEF FitsAddress
<1>   QED
      BY <1>1, IInvIsInvariant, PTL

\* No turn makes a proposal for a product its request did not name, in part, by
\* its words or by a word of the material (propose_order's recovery of a
\* truncated name by product id, get_product_price's search).
THEOREM ProposalsAreNamed == Spec => ProposalsAreForWhatWasNamed
<1> DEFINE Named ==
      pending' \notin {None, pending} =>
        /\ ProposeOffers
        /\ \A heard \in Requests("propose_order") :
             IsForAnother(heard, pending'.product) => ~Offers(heard)
<1>1. ASSUME IInv, [Next]_vars
      PROVE  [Named]_vars
  <2> SUFFICES ASSUME pending' \notin {None, pending}
               PROVE  Named
      OBVIOUS
  <2>1. ProposeOffers
        BY <1>1, StepsFit DEF ProposesNothing
  <2>2. \A heard \in Requests("propose_order") : Offers(heard) => NamedWell(heard)
        BY <1>1, OfferingFits, Zenon
  <2>   QED
        BY <2>1, <2>2, Zenon DEF NamedWell
<1>   QED
      BY <1>1, IInvIsInvariant, PTL DEF Spec, ProposalsAreForWhatWasNamed
=============================================================================
