-------------------------- MODULE MCSessionContext --------------------------
(* Small instances of SessionContext; the .cfg files give the rest. *)
EXTENDS SessionContext

\* Two rings: the crown in two karats, the leaf in one.  "crown" is the crown
\* ring without its weight.
MCRows == <<[product |-> "crown 14g", karat |-> "14k", id |-> 1],
            [product |-> "crown 14g", karat |-> "18k", id |-> 1],
            [product |-> "gold leaf 9g", karat |-> "14k", id |-> 2]>>
MCPrefixes == {<<"crown", "crown 14g">>}
\* "gold" is a material a customer may give, and a word in the leaf's name.
MCOverlaps == MCPrefixes \cup {<<r, r>> : r \in {"crown 14g", "gold leaf 9g"}}
                \cup {<<"gold", "gold leaf 9g">>}

\* The geocoder knows Pokuase for a suburb of Accra; the curated lists do not.
\* Tamale is in Ghana and in neither zone.
MCLocated == [a \in Address |->
  CASE a \in {"Accra", "Pokuase"} -> "accra_rider"
    [] a \in {"Kumasi", "Adum"} -> "kumasi_rider"
    [] a = "Tamale" -> "ghana_other"]
MCNamesAccra == {"Accra"}
MCNamesKumasi == {"Kumasi", "Adum"} \cap Address
MCNamesGhana == {"Accra", "Kumasi", "Tamale"} \cap Address
=============================================================================
