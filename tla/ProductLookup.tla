--------------------------- MODULE ProductLookup ---------------------------
(***************************************************************************)
(* The catalogue lookups of services/product_tool.py.  A catalogue row is  *)
(* told apart by its product name, its karat and its WooCommerce id; its   *)
(* size, weight and photo say nothing the properties ask about.            *)
(*                                                                         *)
(* The embedding search behind the last resort of get_product_price() is   *)
(* external: the caller passes its nearest row, or 0 for "no match".       *)
(***************************************************************************)
EXTENDS Integers, FiniteSets, Sequences

CONSTANTS
  Name,       \* what a message can call a product
  Karat,      \* karats _extract_karat() can read out of a material
  Material,   \* what a message can give as a material; the rest is no karat
  Rows,       \* data/products.json, in file order
  Prefixes,   \* <<s, t>>: s is a proper, case-insensitive prefix of t
  Overlaps,   \* <<s, t>>: the words for s, a name or a material, share one with t
  None

ASSUME CatalogueAssumption ==
  /\ Karat \subseteq Material
  /\ Rows \in Seq([product: Name, karat: Karat, id: Nat])
  \* an id is a WooCommerce product's, which has one name
  /\ \A i, j \in DOMAIN Rows : Rows[i].id = Rows[j].id => Rows[i].product = Rows[j].product
  /\ Prefixes \subseteq Name \X Name
  /\ Overlaps \subseteq (Name \cup Material) \X Name

At(i) == Rows[i]
First(S) == CHOOSE i \in S : \A j \in S : i <= j
RowsNamed(name) == {i \in DOMAIN Rows : At(i).product = name}
WithKarat(S, karat) == {i \in S : At(i).karat = karat}

\* The rows a search for "{material} {name}" may return: a keyword of either is
\* in the row's name, and how near a row is by meaning is a free choice.
Nearest(name, material) ==
  {i \in DOMAIN Rows :
     \E word \in {name, material} : <<word, At(i).product>> \in Overlaps} \cup {0}

\* What get_product_price() returns: a row, the karats of one product to choose
\* from, or nothing.
Row(i) == [kind |-> "row", row |-> i]
Options(name) == [kind |-> "karat_options", product |-> name]
NoMatch == [kind |-> "none"]

\* get_product_karat_options(): the first row of each karat of one exact name.
\* Its order, highest karat first, is that of the reply only.
KaratOptions(name) ==
  {i \in RowsNamed(name) :
     \A j \in RowsNamed(name) : At(j).karat = At(i).karat => i <= j}

\* The last resort: the nearest row, refused when it is of another karat than
\* the one asked for.
SemanticMatch(material, near) ==
  IF near = 0 \/ (material \in Karat /\ At(near).karat # material)
  THEN NoMatch ELSE Row(near)

GetProductPrice(name, material, near) ==
  LET same == WithKarat(RowsNamed(name), material)
      options == KaratOptions(name)
  IN CASE material \in Karat /\ same # {} -> Row(First(same))
       [] material \notin Karat /\ Cardinality(options) = 1 -> Row(First(options))
       [] material \notin Karat /\ Cardinality(options) > 1 -> Options(name)
       [] OTHER -> SemanticMatch(material, near)

\* get_product_price_by_id(): no search, and no guess for a material without a
\* karat.
GetProductPriceById(id, material) ==
  LET same == WithKarat({i \in DOMAIN Rows : At(i).id = id}, material)
  IN IF same = {} THEN NoMatch ELSE Row(First(same))

IsPrefix(s, t) == s = t \/ <<s, t>> \in Prefixes
=============================================================================
