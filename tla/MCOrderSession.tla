--------------------------- MODULE MCOrderSession ---------------------------
(* Small instances of OrderSession; each .cfg says which. *)
EXTENDS OrderSession, TLC

\* Customers, tokens and order ids are only ever compared for equality.
Symmetry == Permutations(Customer) \cup Permutations(Token) \cup Permutations(OrderId)

\* Bound of the runs whose properties do not read delivered, the one thing the
\* arrival of a reply changes: a reply's arrival is not looked behind.
NoArrival == \A c \in Customer : ~delivered[c]

\* Bound of the two-customer run, where no price moves: a sync in progress is
\* not looked behind either.
NoSync == NoArrival /\ readable

\* Bound of the run with two POSTs: staff only cancel in it, and move orders on
\* in the others.
StaffOnlyCancel ==
  NoArrival /\ \A id \in OrderId : Sent(id) => orders[id].status \notin {"processing", "completed"}
=============================================================================
