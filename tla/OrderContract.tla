---------------------------- MODULE OrderContract ---------------------------
(***************************************************************************)
(* What the ordering assistant promises a customer, with no session, tool, *)
(* model or store behind it: an order is asked for only by accepting the   *)
(* offer that stands, once, and for exactly what that offer said.  The     *)
(* promise is the one the docstring of services/order_tool.py makes for    *)
(* its split into propose_order() and confirm_order().                     *)
(***************************************************************************)
CONSTANTS Customer, OrderId, Quote, None

VARIABLES
  offer,  \* offer[c]: the quote c can accept with a "yes", or None
  order   \* order[id]: what was asked of the store under id, or None

vars == <<offer, order>>

Status == {"asked", "open", "closed"}
OrderRecord == [customer: Customer, quote: Quote, status: Status]

TypeOK ==
  /\ offer \in [Customer -> Quote \cup {None}]
  /\ order \in [OrderId -> OrderRecord \cup {None}]

Init ==
  /\ offer = [c \in Customer |-> None]
  /\ order = [id \in OrderId |-> None]

\* The assistant makes c an offer, or a new one in place of the old.
Offer(c, q) ==
  /\ offer' = [offer EXCEPT ![c] = q]
  /\ UNCHANGED order

\* Offers lapse: something else happened, or the session was lost.
Lapse(cs) ==
  /\ offer' = [c \in Customer |-> IF c \in cs THEN None ELSE offer[c]]
  /\ UNCHANGED order

\* c accepts the standing offer: it is used up, and asked of the store.
Accept(c, id) ==
  /\ offer[c] # None /\ order[id] = None
  /\ order' = [order EXCEPT ![id] =
                 [customer |-> c, quote |-> offer[c], status |-> "asked"]]
  /\ offer' = [offer EXCEPT ![c] = None]

\* The store opens the order or refuses it; an open order closes once.
Progress(id, status) ==
  /\ order[id] # None
  /\ \/ order[id].status = "asked" /\ status \in {"open", "closed"}
     \/ order[id].status = "open" /\ status = "closed"
  /\ order' = [order EXCEPT ![id].status = status]
  /\ UNCHANGED offer

Next ==
  \/ \E c \in Customer : (\E q \in Quote : Offer(c, q)) \/ (\E id \in OrderId : Accept(c, id))
  \/ \E cs \in SUBSET Customer : Lapse(cs)
  \/ \E id \in OrderId, status \in Status : Progress(id, status)

Spec == Init /\ [][Next]_vars
=============================================================================
