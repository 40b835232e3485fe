---------------------------- MODULE OrderSession ----------------------------
(***************************************************************************)
(* One KasaFlow customer turn, and the WooCommerce order it may write:     *)
(* services/router.py (route_customer, _execute_single), the action layer  *)
(* services/order_tool.py, the order slots of services/memory.py, and the  *)
(* two guards services/guardrails.py and services/escalation.py.           *)
(*                                                                         *)
(* route_customer() holds the session's lock for a whole turn, so each     *)
(* customer has at most one turn thread; threads of different customers,   *)
(* the store, the catalogue sync, session expiry and a restart of the      *)
(* process interleave with it at every call that leaves the process.       *)
(*                                                                         *)
(* The language model is external: which tools it picks, and how many, is  *)
(* a free choice.  Its list of requests is drawn one entry at a time, when *)
(* the entry is executed, since nothing constrains it earlier.             *)
(***************************************************************************)
EXTENDS Integers, FiniteSets

CONSTANTS
  Customer,            \* WhatsApp numbers, which are the session ids
  Product,             \* orderable catalogue rows
  Simple,              \* the rows without a variation_id
  Price,               \* unit prices a row can have
  MaxQuantity,         \* largest quantity a customer asks for
  Token,               \* uuid4 values a proposal can draw
  OrderId,             \* ids of the order POSTs the store can receive
  MaxRequests,         \* llm.MAX_REQUESTS_PER_MESSAGE
  FailureThreshold,    \* settings.escalation_failure_threshold
  InjectionThreshold,  \* settings.escalation_injection_threshold
  MaxTotal,            \* settings.order_auto_confirm_max_total
  MaxOrderQuantity,    \* settings.order_max_quantity
  Faults,              \* faults of the store's API that may occur
  None                 \* Python's None

ASSUME ProductsAssumption ==
  Simple \subseteq Product /\ Price \subseteq Nat \ {0}
ASSUME LimitsAssumption ==
  /\ MaxQuantity \in Nat \ {0} /\ MaxRequests \in Nat \ {0}
  /\ FailureThreshold \in Nat /\ InjectionThreshold \in Nat
  /\ MaxTotal \in Nat /\ MaxOrderQuantity \in Nat
ASSUME FaultsAssumption ==
  Faults \subseteq {"lost_reply", "no_id", "no_total", "lookup_fails"}

VARIABLES
  \* the session's slots in memory.py
  pending,               \* pending_order, the proposal awaiting a yes
  awaitingConfirmation,  \* awaiting_confirmation
  awaitingField,         \* awaiting_field
  lastConfirmed,         \* last_confirmed_order
  lastActionOutcome,     \* last_action_outcome, as the tool that failed
  failures,              \* consecutive_failures, saturating
  flaggedCount,          \* flagged_message_count, saturating
  escalation,            \* the reason of the escalation record
  \* the turn thread that holds the session lock
  pc, left, forced, flagged, target,
  \* WooCommerce and its exported catalogue
  price, catalogue, readable, indexed, orders, usedTokens,
  \* the customer's side of the chat
  invited,               \* what the last reply tells the customer to say next
  quoted,                \* the quote a turn has ready
  replied,               \* the quote of the last reply that had one
  delivered              \* whether that reply has reached the customer

memoryVars == <<pending, awaitingConfirmation, awaitingField, lastConfirmed,
                lastActionOutcome, failures, flaggedCount, escalation>>
turnVars == <<pc, left, forced, flagged, target>>
catalogueVars == <<price, catalogue, readable, indexed>>
storeVars == <<orders, usedTokens>>
chatVars == <<invited, quoted, replied, delivered>>
vars == <<memoryVars, turnVars, catalogueVars, storeVars, chatVars>>

-----------------------------------------------------------------------------
(* Values.                                                                 *)

Quantity == 1 .. MaxQuantity

\* What the bypass of the model can resolve; "detail" is a karat, a quantity,
\* an address or a delivery option.  An awaited product name, which it never
\* resolves, reads as None.
AwaitingFields == {"detail", "confirmation", "delivery_interest"}
Reasons == {"customer_request", "model_requested", "repeated_failures",
            "repeated_manipulation", "order_review", "total_mismatch"}
Invitations == {"confirm", "retry"}

\* A proposal as propose_order() stores it.  Its subtotal and total are
\* always unit_price * quantity; the karat, the address and the delivery
\* option are part of what "product" stands for.
Proposal == [token: Token, product: Product, quantity: Quantity,
             unit_price: Price, status: {"pending", "submitting"}]
Total(p) == p.unit_price * p.quantity

\* What a customer reads in a proposal and agrees to with a "yes".
Totals == {u * q : u \in Price, q \in Quantity}
Quote == [product: Product, quantity: Quantity, total: Totals]
QuoteOf(p) == [product |-> p.product, quantity |-> p.quantity, total |-> Total(p)]

\* An order POST: "sent" while the store has not dealt with it, "rejected"
\* when it never will, else the order's WooCommerce status.  agreed is the
\* total of the proposal it was built from, offered the quote of the last
\* reply when it was sent, total what the store charges.
StoreStatus == {"on-hold", "processing", "completed", "cancelled"}
Order == [customer: Customer, token: Token, product: Product, quantity: Quantity,
          agreed: Totals, offered: Quote \cup {None}, total: Totals \cup {0},
          status: {"sent", "rejected"} \cup StoreStatus]
Cancellable == {"on-hold"}

\* An order_confirmation: total_verified is "unknown" when the store's answer
\* carries no usable total.
Confirmation == [order_id: OrderId, total_verified: {"matches", "differs", "unknown"}]

ASSUME NoneAssumption ==
  /\ None \notin Token \cup OrderId \cup Product
  /\ None \notin Proposal \cup Quote \cup Order \cup Confirmation
  /\ None \notin AwaitingFields \cup Reasons \cup Invitations
  /\ None \notin {"confirm_order", "propose_order", "get_delivery_information"}

Sent(id) == orders[id] # None
InStore(id) == Sent(id) /\ orders[id].status \in StoreStatus

Put(f, x, v) == [f EXCEPT ![x] = v]

-----------------------------------------------------------------------------
Init ==
  /\ pending = [c \in Customer |-> None]
  /\ awaitingConfirmation = [c \in Customer |-> FALSE]
  /\ awaitingField = [c \in Customer |-> None]
  /\ lastConfirmed = [c \in Customer |-> None]
  /\ lastActionOutcome = [c \in Customer |-> None]
  /\ failures = [c \in Customer |-> 0]
  /\ flaggedCount = [c \in Customer |-> 0]
  /\ escalation = [c \in Customer |-> None]
  /\ pc = [c \in Customer |-> "idle"]
  /\ left = [c \in Customer |-> 0]
  /\ forced = [c \in Customer |-> None]
  /\ flagged = [c \in Customer |-> FALSE]
  /\ target = [c \in Customer |-> None]
  /\ price \in [Product -> Price]
  /\ catalogue = price
  /\ readable = TRUE
  /\ indexed = price
  /\ orders = [id \in OrderId |-> None]
  /\ usedTokens = {}
  /\ invited = [c \in Customer |-> None]
  /\ quoted = [c \in Customer |-> None]
  /\ replied = [c \in Customer |-> None]
  /\ delivered = [c \in Customer |-> FALSE]

-----------------------------------------------------------------------------
(* The pieces of a turn that several handlers share.                       *)

\* mutant: the count runs past its threshold
BumpForever(n, threshold) == n + 1

\* record_failure(), record_flagged_message(): the count stops at its
\* threshold, past which it has no further effect.
Bump(n, threshold) == IF n < threshold THEN n + 1 ELSE n
Over(n, threshold) == threshold > 0 /\ n >= threshold

\* escalate(): within the renotify window, which a turn never outlasts, an
\* escalated session keeps its first reason.
Escalate(c, reason) ==
  escalation' = Put(escalation, c, IF escalation[c] = None THEN reason ELSE escalation[c])

\* The turn's next request, or its reply.  The lock is released first and the
\* reply handed to WhatsApp after that, so the turn's quote has not arrived
\* when the customer's next message may already be running.
Return(c, invitation, quote) ==
  LET told == IF quote = None THEN quoted[c] ELSE quote
      over == left[c] <= 1
  IN  /\ invited' = Put(invited, c, invitation)
      /\ left' = Put(left, c, IF over THEN 0 ELSE left[c] - 1)
      /\ pc' = Put(pc, c, IF over THEN "idle" ELSE "execute")
      /\ quoted' = Put(quoted, c, IF over THEN None ELSE told)
      /\ IF over /\ told # None
         THEN replied' = Put(replied, c, told) /\ delivered' = Put(delivered, c, FALSE)
         ELSE UNCHANGED <<replied, delivered>>
      /\ forced' = Put(forced, c, None)
      /\ flagged' = IF over THEN Put(flagged, c, FALSE) ELSE flagged
      /\ target' = Put(target, c, None)

\* mutant: awaiting_confirmation is not reset
AwaitKeepsTheYes(c, field) ==
  /\ awaitingConfirmation' =
       Put(awaitingConfirmation, c, field = "confirmation" \/ awaitingConfirmation[c])
  /\ awaitingField' = Put(awaitingField, c, field)

\* mutant: awaiting_field is not reset
AwaitKeepsTheField(c, field) ==
  /\ awaitingConfirmation' = Put(awaitingConfirmation, c, field = "confirmation")
  /\ awaitingField' = Put(awaitingField, c, IF field = None THEN awaitingField[c] ELSE field)

\* The resets every _execute_single() starts with, and what it sets after.
Await(c, field) ==
  /\ awaitingConfirmation' = Put(awaitingConfirmation, c, field = "confirmation")
  /\ awaitingField' = Put(awaitingField, c, field)

\* The verdict _execute_single() passes on a tool's result.
Succeeded(c) ==
  /\ failures' = Put(failures, c, 0)
  /\ lastActionOutcome' = Put(lastActionOutcome, c, None)
NoVerdict == UNCHANGED <<failures, lastActionOutcome, escalation>>

\* One more failed turn; at the threshold the session goes to a person and
\* the reply is the hand-off.
Failed(c, invitation) ==
  LET n == Bump(failures[c], FailureThreshold)
      over == Over(n, FailureThreshold)
  IN  /\ failures' = Put(failures, c, n)
      /\ IF over THEN Escalate(c, "repeated_failures") ELSE UNCHANGED escalation
      /\ Return(c, IF over THEN None ELSE invitation, None)

\* A tool that recorded a last_action_outcome counts as a failed turn only
\* if the outcome differs from the one the turn started with.
FailedAction(c, tool, invitation) ==
  /\ lastActionOutcome' = Put(lastActionOutcome, c, tool)
  /\ IF lastActionOutcome[c] # tool
     THEN Failed(c, invitation)
     ELSE UNCHANGED <<failures, escalation>> /\ Return(c, invitation, None)

-----------------------------------------------------------------------------
(* A message arrives and the lock is free: _route_customer_locked() up to  *)
(* the model's answer.  isFlagged is screen_message()'s verdict on it.     *)

\* An escalated session gets the holding reply and nothing else.
Held(c) ==
  /\ pc[c] = "idle" /\ escalation[c] # None
  /\ invited' = Put(invited, c, None)
  /\ UNCHANGED <<memoryVars, turnVars, catalogueVars, storeVars, quoted, replied, delivered>>

\* A hand-off before the model is asked: too many flagged messages in this
\* session, else a message that asks for a person.
HandsOff(c, isFlagged) ==
  LET n == IF isFlagged THEN Bump(flaggedCount[c], InjectionThreshold) ELSE flaggedCount[c]
      tooMany == isFlagged /\ Over(n, InjectionThreshold)
  IN  /\ pc[c] = "idle" /\ escalation[c] = None
      /\ flaggedCount' = Put(flaggedCount, c, n)
      /\ Escalate(c, IF tooMany THEN "repeated_manipulation" ELSE "customer_request")
      /\ invited' = Put(invited, c, None)
      /\ UNCHANGED <<pending, awaitingConfirmation, awaitingField, lastConfirmed,
                     lastActionOutcome, failures, turnVars, catalogueVars,
                     storeVars, quoted, replied, delivered>>

\* mutant: nothing checks for an escalation before the turn goes on
AdmitsEscalated(c, isFlagged) ==
  /\ pc[c] = "idle"
  /\ flagged' = Put(flagged, c, isFlagged)
  /\ UNCHANGED <<memoryVars, target, catalogueVars, storeVars, chatVars>>

\* A message that goes on: counted if flagged, and not one flag too many.
Admits(c, isFlagged) ==
  LET n == IF isFlagged THEN Bump(flaggedCount[c], InjectionThreshold) ELSE flaggedCount[c]
  IN  /\ pc[c] = "idle" /\ escalation[c] = None
      /\ ~(isFlagged /\ Over(n, InjectionThreshold))
      /\ flaggedCount' = Put(flaggedCount, c, n)
      /\ flagged' = Put(flagged, c, isFlagged)
      /\ UNCHANGED <<pending, awaitingConfirmation, awaitingField, lastConfirmed,
                     lastActionOutcome, failures, escalation, target,
                     catalogueVars, storeVars, chatVars>>

\* _try_resolve_awaiting_field(): a bare answer to the one thing this
\* assistant asked for picks its tool without the model.
BypassModel(c, tool) ==
  /\ forced' = Put(forced, c, tool)
  /\ left' = Put(left, c, 1)
  /\ pc' = Put(pc, c, "execute")

\* A bare "yes": no pattern of screen_message() matches it.
BareYes(c) ==
  /\ Admits(c, FALSE)
  /\ \/ awaitingField[c] = "confirmation" /\ BypassModel(c, "confirm_order")
     \/ awaitingField[c] = "delivery_interest" /\ BypassModel(c, "get_delivery_information")

BareAnswer(c, isFlagged) ==
  /\ Admits(c, isFlagged)
  /\ awaitingField[c] = "detail"
  /\ BypassModel(c, "propose_order")

AskModel(c, isFlagged) ==
  /\ Admits(c, isFlagged)
  /\ pc' = Put(pc, c, "deciding")
  /\ UNCHANGED <<left, forced>>

\* The model returned n requests.
ModelDecides(c, n) ==
  /\ pc[c] = "deciding"
  /\ pc' = Put(pc, c, "execute")
  /\ left' = Put(left, c, n)
  /\ UNCHANGED <<memoryVars, forced, flagged, target, catalogueVars, storeVars, chatVars>>

\* ToolSelectionError: no answer after the retries, or not a usable one.
ModelFails(c) ==
  /\ pc[c] = "deciding"
  /\ Failed(c, None)
  /\ UNCHANGED <<pending, awaitingConfirmation, awaitingField, lastConfirmed,
                 lastActionOutcome, flaggedCount, catalogueVars, storeVars>>

\* An empty message raises ValueError, which is not counted as a failure.
EmptyMessage(c) ==
  /\ pc[c] = "deciding" /\ ~flagged[c]
  /\ Return(c, None, None)
  /\ UNCHANGED <<memoryVars, catalogueVars, storeVars>>

-----------------------------------------------------------------------------
(* One request of the turn: _execute_single() and the tool it calls.       *)

\* The request being executed names tool, or one of a class of them.  On a
\* flagged turn gate_tool_request() has replaced every write by a converse.
WriteTools == {"confirm_order", "cancel_order"}

\* mutant: only one entry of a multi-request answer is gated
ExecutesUngated(c, tool) ==
  /\ pc[c] = "execute"
  /\ forced[c] \in {None, tool}
  /\ tool \in WriteTools => ~flagged[c] \/ left[c] = 1

Executes(c, tool) ==
  /\ pc[c] = "execute"
  /\ forced[c] \in {None, tool}
  /\ tool \in WriteTools => ~flagged[c]

Converse(c) ==
  /\ Executes(c, "converse")
  /\ Await(c, None)
  /\ NoVerdict
  /\ \/ Return(c, None, None)
     \/ flagged[c] /\ Return(c, "confirm", None)
  /\ UNCHANGED <<pending, lastConfirmed, flaggedCount, catalogueVars, storeVars>>

\* Any tool that only reads: it found something (get_product_price then
\* offers delivery information) or it did not.
ReadOnlyTool(c) ==
  /\ Executes(c, "get_delivery_information")
  /\ \/ \E field \in {None, "delivery_interest"} :
          /\ field # None => forced[c] = None
          /\ Await(c, field)
          /\ Succeeded(c)
          /\ UNCHANGED escalation
          /\ Return(c, None, None)
     \/ Await(c, None) /\ NoVerdict /\ Return(c, None, None)
  /\ UNCHANGED <<pending, lastConfirmed, flaggedCount, catalogueVars, storeVars>>

\* ToolExecutionError: the model gave a tool arguments it does not take, or a
\* tool raised.  Only the confirmation that a bare "yes" forces never does.
ToolRaises(c) ==
  /\ pc[c] = "execute" /\ forced[c] # "confirm_order"
  /\ Await(c, None)
  /\ Failed(c, None)
  /\ UNCHANGED <<pending, lastConfirmed, lastActionOutcome, flaggedCount,
                 catalogueVars, storeVars>>

\* The model judged that the customer needs a person.
EscalateToHuman(c) ==
  /\ Executes(c, "escalate_to_human")
  /\ Await(c, None)
  /\ Succeeded(c)
  /\ Escalate(c, "model_requested")
  /\ Return(c, None, None)
  /\ UNCHANGED <<pending, lastConfirmed, flaggedCount, catalogueVars, storeVars>>

-----------------------------------------------------------------------------
(* propose_order().  p is the row the product name resolves to; isPrefix   *)
(* says that the name is a proper prefix of the pending proposal's own.    *)

\* Naming another product drops the pending proposal, whatever comes next.
SurvivingProposal(c, p, isPrefix) ==
  IF pending[c] = None \/ isPrefix THEN pending[c]
  ELSE IF pending[c].product = p THEN pending[c] ELSE None

\* No product name: nothing is dropped.
ProposeAsksProduct(c) ==
  /\ Executes(c, "propose_order")
  /\ Await(c, None)
  /\ NoVerdict
  /\ Return(c, None, None)
  /\ UNCHANGED <<pending, lastConfirmed, flaggedCount, catalogueVars, storeVars>>

ProposeAsksDetail(c, p, isPrefix) ==
  /\ Executes(c, "propose_order")
  /\ Await(c, "detail")
  /\ pending' = Put(pending, c, SurvivingProposal(c, p, isPrefix))
  /\ NoVerdict
  /\ Return(c, None, None)
  /\ UNCHANGED <<lastConfirmed, flaggedCount, catalogueVars, storeVars>>

\* No row at that name and karat, or the catalogue file cannot be parsed.
ProposeNotFound(c, p, isPrefix) ==
  /\ Executes(c, "propose_order")
  /\ Await(c, None)
  /\ pending' = Put(pending, c, SurvivingProposal(c, p, isPrefix))
  /\ NoVerdict
  /\ Return(c, None, None)
  /\ UNCHANGED <<lastConfirmed, flaggedCount, catalogueVars, storeVars>>

\* The row carries no WooCommerce id.
ProposeNotLinked(c, p, isPrefix) ==
  /\ Executes(c, "propose_order")
  /\ readable
  /\ Await(c, None)
  /\ pending' = Put(pending, c, SurvivingProposal(c, p, isPrefix))
  /\ FailedAction(c, "propose_order", None)
  /\ UNCHANGED <<lastConfirmed, flaggedCount, catalogueVars, storeVars>>

\* mutant: the reply quotes the file's price, the proposal keeps the index's
ProposeQuotesTheFile(c, p, q, t) ==
  /\ Executes(c, "propose_order")
  /\ readable /\ t \notin usedTokens
  /\ usedTokens' = usedTokens \cup {t}
  /\ \E u \in {catalogue[p], indexed[p]} :
       /\ pending' = Put(pending, c, [token |-> t, product |-> p, quantity |-> q,
                                      unit_price |-> u, status |-> "pending"])
       /\ Return(c, "confirm", [product |-> p, quantity |-> q, total |-> catalogue[p] * q])
  /\ Await(c, "confirmation")
  /\ Succeeded(c)
  /\ UNCHANGED <<lastConfirmed, flaggedCount, escalation, catalogueVars, orders>>

\* A proposal under a fresh token, priced from the file or, by a semantic
\* match, from the index that was built from it when the process started.
Propose(c, p, q, t) ==
  /\ Executes(c, "propose_order")
  /\ readable /\ t \notin usedTokens
  /\ usedTokens' = usedTokens \cup {t}
  /\ \E u \in {catalogue[p], indexed[p]} :
       LET proposal == [token |-> t, product |-> p, quantity |-> q,
                        unit_price |-> u, status |-> "pending"]
       IN  /\ pending' = Put(pending, c, proposal)
           /\ Return(c, "confirm", QuoteOf(proposal))
  /\ Await(c, "confirmation")
  /\ Succeeded(c)
  /\ UNCHANGED <<lastConfirmed, flaggedCount, escalation, catalogueVars, orders>>

-----------------------------------------------------------------------------
(* confirm_order().                                                        *)

\* The proposal this turn's confirm_order may act on.
MayConfirm(c) ==
  /\ pending[c] # None /\ awaitingConfirmation[c]
  /\ pending[c].status = "pending"

\* Nothing pending, or a proposal that was not the last thing to happen, or
\* one whose POST is still in flight.
ConfirmRefused(c) ==
  /\ Executes(c, "confirm_order")
  /\ ~MayConfirm(c)
  /\ pending[c] = None => lastConfirmed[c] = None
  /\ Await(c, None)
  /\ NoVerdict
  /\ Return(c, None, None)
  /\ UNCHANGED <<pending, lastConfirmed, flaggedCount, catalogueVars, storeVars>>

\* Confirmed again after it went through: the same confirmation is resent.
ConfirmRepeated(c) ==
  /\ Executes(c, "confirm_order")
  /\ pending[c] = None /\ lastConfirmed[c] # None
  /\ Await(c, None)
  /\ Succeeded(c)
  /\ Return(c, None, None)
  /\ UNCHANGED <<pending, lastConfirmed, escalation, flaggedCount, catalogueVars, storeVars>>

\* mutant: the limit is held against the unit price
OverLimitPerPiece(p) == p.unit_price > MaxTotal \/ p.quantity > MaxOrderQuantity

OverLimit(p) == Total(p) > MaxTotal \/ p.quantity > MaxOrderQuantity

\* _check_order_limits(): a person takes over, the proposal is kept.
ConfirmNeedsReview(c) ==
  /\ Executes(c, "confirm_order")
  /\ MayConfirm(c) /\ OverLimit(pending[c])
  /\ Await(c, None)
  /\ Succeeded(c)
  /\ Escalate(c, "order_review")
  /\ Return(c, None, None)
  /\ UNCHANGED <<pending, lastConfirmed, flaggedCount, catalogueVars, storeVars>>

\* _catalogue_unit_price() can tell: the file parses, and the row has the
\* variation_id it matches on.
PriceChanged(p) ==
  readable /\ p.product \notin Simple /\ catalogue[p.product] # p.unit_price

\* mutant: the proposal is re-priced without a word to the customer
ConfirmRepricesSilently(c) ==
  /\ Executes(c, "confirm_order")
  /\ MayConfirm(c) /\ ~OverLimit(pending[c]) /\ PriceChanged(pending[c])
  /\ pending' = [pending EXCEPT ![c].unit_price = catalogue[pending[c].product]]
  /\ Return(c, "confirm", None)
  /\ Await(c, "confirmation")
  /\ Succeeded(c)
  /\ UNCHANGED <<lastConfirmed, escalation, flaggedCount, catalogueVars, storeVars>>

\* _reprice_against_catalogue(): the same proposal, re-quoted.
ConfirmReprices(c) ==
  /\ Executes(c, "confirm_order")
  /\ MayConfirm(c) /\ ~OverLimit(pending[c]) /\ PriceChanged(pending[c])
  /\ LET repriced == [pending[c] EXCEPT !.unit_price = catalogue[pending[c].product]]
     IN  /\ pending' = Put(pending, c, repriced)
         /\ Return(c, "confirm", QuoteOf(repriced))
  /\ Await(c, "confirmation")
  /\ Succeeded(c)
  /\ UNCHANGED <<lastConfirmed, escalation, flaggedCount, catalogueVars, storeVars>>

\* The proposal is marked submitting and the POST leaves; id is the one the
\* store will give the order if it creates it.
ConfirmSubmits(c, id) ==
  /\ Executes(c, "confirm_order")
  /\ MayConfirm(c) /\ ~OverLimit(pending[c]) /\ ~PriceChanged(pending[c])
  /\ orders[id] = None
  /\ orders' = Put(orders, id,
       [customer |-> c, token |-> pending[c].token, product |-> pending[c].product,
        quantity |-> pending[c].quantity, agreed |-> Total(pending[c]),
        offered |-> replied[c], total |-> 0, status |-> "sent"])
  /\ pending' = Put(pending, c, [pending[c] EXCEPT !.status = "submitting"])
  /\ target' = Put(target, c, id)
  /\ pc' = Put(pc, c, "posting")
  /\ Await(c, None)
  /\ UNCHANGED <<lastConfirmed, lastActionOutcome, failures, flaggedCount, escalation,
                 left, forced, flagged, catalogueVars, usedTokens, chatVars>>

\* mutant: the store's total is held against the price of the day
MatchesTodaysPrice(p, id) ==
  {IF orders[id].total = price[p.product] * p.quantity THEN "matches" ELSE "differs"}

\* _store_total_matches(): the store's total against the agreed one.
\* "no_total": the answer may lack a usable one.
StoreTotalMatches(p, id) ==
  {IF orders[id].total = Total(p) THEN "matches" ELSE "differs"}
    \cup (IF "no_total" \in Faults THEN {"unknown"} ELSE {})

\* _finalize_confirmation(): the order is the session's last confirmed one, its
\* draft is cleared, and a store total seen to differ from the agreed one takes
\* the session to a person.
Finalize(c, id) ==
  /\ \E verified \in StoreTotalMatches(pending[c], id) :
       /\ lastConfirmed' = Put(lastConfirmed, c, [order_id |-> id, total_verified |-> verified])
       /\ IF verified = "differs" THEN Escalate(c, "total_mismatch") ELSE UNCHANGED escalation
  /\ pending' = Put(pending, c, None)
  /\ Succeeded(c)
  /\ Return(c, None, None)
  /\ UNCHANGED <<awaitingConfirmation, awaitingField, flaggedCount, catalogueVars, storeVars>>

\* mutant: the proposal is not marked pending again
HandsBackUnmarked(c) ==
  /\ FailedAction(c, "confirm_order", "retry")
  /\ UNCHANGED <<pending, awaitingConfirmation, awaitingField, lastConfirmed, flaggedCount,
                 catalogueVars, storeVars>>

\* The create failed for all the program knows: the proposal is handed back.
HandsBack(c) ==
  /\ pending' = Put(pending, c, [pending[c] EXCEPT !.status = "pending"])
  /\ FailedAction(c, "confirm_order", "retry")
  /\ UNCHANGED <<awaitingConfirmation, awaitingField, lastConfirmed, flaggedCount,
                 catalogueVars, storeVars>>

PostReturns(c) ==
  /\ pc[c] = "posting" /\ InStore(target[c])
  /\ Finalize(c, target[c])

\* The store rejected the POST, or "lost_reply": the connection broke or the
\* answer was a 5xx or not JSON, whatever became of the request.
PostFails(c) ==
  /\ pc[c] = "posting"
  /\ orders[target[c]].status = "rejected" \/ "lost_reply" \in Faults
  /\ HandsBack(c)

\* "no_id": a 2xx answer, to the POST or to the lookup after it, that is JSON
\* but no order raises outside the try block, whatever became of the POST.
AnswerHasNoId(c) ==
  /\ pc[c] \in {"posting", "lookup"} /\ "no_id" \in Faults
  /\ Failed(c, None)
  /\ UNCHANGED <<pending, awaitingConfirmation, awaitingField, lastConfirmed,
                 lastActionOutcome, flaggedCount, catalogueVars, storeVars>>

PostTimesOut(c) ==
  /\ pc[c] = "posting"
  /\ pc' = Put(pc, c, "lookup")
  /\ UNCHANGED <<memoryVars, left, forced, flagged, target, catalogueVars, storeVars, chatVars>>

\* mutant: the search matches any order, not the token
FoundByAnything(c) == {id \in OrderId : InStore(id)}

\* _find_existing_order_by_token().
FoundByToken(c) == {id \in OrderId : InStore(id) /\ orders[id].token = pending[c].token}

LookupFinds(c, id) ==
  /\ pc[c] = "lookup" /\ id \in FoundByToken(c)
  /\ Finalize(c, id)

\* mutant: nothing found, and the answer to the POST is waited for again
LookupRepeats(c) ==
  /\ pc[c] = "lookup" /\ FoundByToken(c) = {}
  /\ pc' = Put(pc, c, "posting")
  /\ UNCHANGED <<memoryVars, left, forced, flagged, target, catalogueVars, storeVars, chatVars>>

\* Nothing found; a lookup that fails reads the same.
LookupFindsNothing(c) ==
  /\ pc[c] = "lookup"
  /\ FoundByToken(c) = {} \/ "lookup_fails" \in Faults
  /\ HandsBack(c)

-----------------------------------------------------------------------------
(* cancel_order(): a live GET, then a PUT.  id is the order number given,  *)
(* or the session's last confirmed order.                                  *)

\* No order number, no such order, somebody else's, or the GET fails.
CancelFindsNoOrder(c) ==
  /\ Executes(c, "cancel_order")
  /\ Await(c, None)
  /\ NoVerdict
  /\ Return(c, None, None)
  /\ UNCHANGED <<pending, lastConfirmed, flaggedCount, catalogueVars, storeVars>>

Owns(c, id) == InStore(id) /\ orders[id].customer = c

\* Already cancelled, or past the point where this tool touches it, which
\* staff are told.
CancelDeclines(c, id) ==
  /\ Executes(c, "cancel_order")
  /\ Owns(c, id) /\ orders[id].status \notin Cancellable
  /\ Await(c, None)
  /\ Succeeded(c)
  /\ Return(c, None, None)
  /\ UNCHANGED <<pending, lastConfirmed, escalation, flaggedCount, catalogueVars, storeVars>>

CancelProceeds(c, id) ==
  /\ Executes(c, "cancel_order")
  /\ Owns(c, id) /\ orders[id].status \in Cancellable
  /\ target' = Put(target, c, id)
  /\ pc' = Put(pc, c, "cancelling")
  /\ Await(c, None)
  /\ UNCHANGED <<pending, lastConfirmed, lastActionOutcome, failures, flaggedCount,
                 escalation, left, forced, flagged, catalogueVars, storeVars, chatVars>>

\* The PUT sets the status whatever it is by then.
CancelReturns(c) ==
  /\ pc[c] = "cancelling"
  /\ orders' = [orders EXCEPT ![target[c]].status = "cancelled"]
  /\ lastConfirmed' = IF lastConfirmed[c] # None /\ lastConfirmed[c].order_id = target[c]
                      THEN Put(lastConfirmed, c, None) ELSE lastConfirmed
  /\ Succeeded(c)
  /\ Return(c, None, None)
  /\ UNCHANGED <<pending, awaitingConfirmation, awaitingField, escalation, flaggedCount,
                 catalogueVars, usedTokens>>

\* The PUT failed, applied or not.
CancelFails(c) ==
  /\ pc[c] = "cancelling"
  /\ orders' \in {orders, [orders EXCEPT ![target[c]].status = "cancelled"]}
  /\ NoVerdict
  /\ Return(c, None, None)
  /\ UNCHANGED <<pending, awaitingConfirmation, awaitingField, lastConfirmed, flaggedCount,
                 catalogueVars, usedTokens>>

-----------------------------------------------------------------------------
(* Around the turns.                                                       *)

\* The session's entry is past its TTL: every slot reads as unset.  A turn
\* writes its session before each tool, so this can only come between turns
\* or while the model is thinking.
Forgets(cs) ==
  LET forget(f, v) == [c \in Customer |-> IF c \in cs THEN v ELSE f[c]]
  IN  /\ pending' = forget(pending, None)
      /\ awaitingConfirmation' = forget(awaitingConfirmation, FALSE)
      /\ awaitingField' = forget(awaitingField, None)
      /\ lastConfirmed' = forget(lastConfirmed, None)
      /\ lastActionOutcome' = forget(lastActionOutcome, None)
      /\ failures' = forget(failures, 0)
      /\ flaggedCount' = forget(flaggedCount, 0)
      /\ escalation' = forget(escalation, None)

Expire(c) ==
  /\ pc[c] \in {"idle", "deciding"}
  /\ Forgets({c})
  /\ UNCHANGED <<turnVars, catalogueVars, storeVars, chatVars>>

\* The process stops and starts again: the session store is in its memory,
\* and turns in progress end without a reply.
Restart ==
  /\ Forgets(Customer)
  /\ pc' = [c \in Customer |-> "idle"]
  /\ left' = [c \in Customer |-> 0]
  /\ forced' = [c \in Customer |-> None]
  /\ flagged' = [c \in Customer |-> FALSE]
  /\ target' = [c \in Customer |-> None]
  /\ quoted' = [c \in Customer |-> None]
  /\ invited' = [c \in Customer |-> None]
  /\ indexed' = catalogue
  /\ UNCHANGED <<price, catalogue, readable, storeVars, replied, delivered>>

\* The last reply with a quote reaches the customer, if WhatsApp took it and
\* delivers it; nothing in the program waits for that.
ReplyArrives(c) ==
  /\ replied[c] # None /\ ~delivered[c]
  /\ delivered' = Put(delivered, c, TRUE)
  /\ UNCHANGED <<memoryVars, turnVars, catalogueVars, storeVars, invited, quoted, replied>>

\* WooCommerce deals with a POST at its own live price, or refuses it.
StoreCreates(id) ==
  /\ Sent(id) /\ orders[id].status = "sent"
  /\ orders' = [orders EXCEPT
       ![id].status = "on-hold",
       ![id].total = price[orders[id].product] * orders[id].quantity]
  /\ UNCHANGED <<memoryVars, turnVars, catalogueVars, usedTokens, chatVars>>

StoreRejects(id) ==
  /\ Sent(id) /\ orders[id].status = "sent"
  /\ orders' = [orders EXCEPT ![id].status = "rejected"]
  /\ UNCHANGED <<memoryVars, turnVars, catalogueVars, usedTokens, chatVars>>

\* Staff move an order along, or cancel it, in WooCommerce itself.
StaffMoves(id, status) ==
  /\ Sent(id)
  /\ \/ orders[id].status = "on-hold" /\ status \in {"processing", "cancelled"}
     \/ orders[id].status = "processing" /\ status \in {"completed", "cancelled"}
  /\ orders' = [orders EXCEPT ![id].status = status]
  /\ UNCHANGED <<memoryVars, turnVars, catalogueVars, usedTokens, chatVars>>

StoreReprices(p, u) ==
  /\ price[p] # u
  /\ price' = Put(price, p, u)
  /\ UNCHANGED <<memoryVars, turnVars, catalogue, readable, indexed, storeVars, chatVars>>

\* woocommerce_sync.main(): the file is truncated, then written.
SyncBegins ==
  /\ readable
  /\ readable' = FALSE
  /\ catalogue' = price
  /\ UNCHANGED <<memoryVars, turnVars, price, indexed, storeVars, chatVars>>

SyncEnds ==
  /\ ~readable
  /\ readable' = TRUE
  /\ UNCHANGED <<memoryVars, turnVars, price, catalogue, indexed, storeVars, chatVars>>

-----------------------------------------------------------------------------
Receive(c) ==
  \/ Held(c) \/ BareYes(c)
  \/ \E isFlagged \in BOOLEAN :
       HandsOff(c, isFlagged) \/ BareAnswer(c, isFlagged) \/ AskModel(c, isFlagged)

ProposeOrder(c) ==
  \/ ProposeAsksProduct(c)
  \/ \E p \in Product :
    \/ \E isPrefix \in BOOLEAN :
         \/ ProposeNotFound(c, p, isPrefix) \/ ProposeNotLinked(c, p, isPrefix)
         \/ ProposeAsksDetail(c, p, isPrefix)
    \/ \E q \in Quantity, t \in Token : Propose(c, p, q, t)

ConfirmOrder(c) ==
  \/ ConfirmRefused(c) \/ ConfirmRepeated(c) \/ ConfirmNeedsReview(c) \/ ConfirmReprices(c)
  \/ \E id \in OrderId : ConfirmSubmits(c, id) \/ LookupFinds(c, id)
  \/ PostReturns(c) \/ PostFails(c) \/ AnswerHasNoId(c) \/ PostTimesOut(c)
  \/ LookupFindsNothing(c)

CancelOrder(c) ==
  \/ CancelFindsNoOrder(c) \/ CancelReturns(c) \/ CancelFails(c)
  \/ \E id \in OrderId : CancelDeclines(c, id) \/ CancelProceeds(c, id)

\* A step of the turn thread that holds the session lock.
TurnStep(c) ==
  \/ \E n \in 1 .. MaxRequests : ModelDecides(c, n)
  \/ ModelFails(c) \/ EmptyMessage(c)
  \/ Converse(c) \/ ReadOnlyTool(c) \/ ToolRaises(c) \/ EscalateToHuman(c)
  \/ ProposeOrder(c) \/ ConfirmOrder(c) \/ CancelOrder(c)

Environment ==
  \/ \E c \in Customer : Expire(c) \/ ReplyArrives(c)
  \/ Restart \/ SyncBegins \/ SyncEnds
  \/ \E id \in OrderId :
       \/ StoreCreates(id) \/ StoreRejects(id)
       \/ \E status \in StoreStatus : StaffMoves(id, status)
  \/ \E p \in Product, u \in Price : StoreReprices(p, u)

Next == (\E c \in Customer : Receive(c) \/ TurnStep(c)) \/ Environment

Spec == Init /\ [][Next]_vars

\* Every call a turn makes has a timeout, so a turn thread keeps moving.
FairSpec == Spec /\ \A c \in Customer : WF_vars(TurnStep(c))

(* Properties.                                                             *)

TypeOK ==
  /\ pending \in [Customer -> Proposal \cup {None}]
  /\ awaitingConfirmation \in [Customer -> BOOLEAN]
  /\ awaitingField \in [Customer -> AwaitingFields \cup {None}]
  /\ lastConfirmed \in [Customer -> Confirmation \cup {None}]
  /\ lastActionOutcome \in [Customer -> {"propose_order", "confirm_order", None}]
  /\ failures \in [Customer -> 0 .. FailureThreshold]
  /\ flaggedCount \in [Customer -> 0 .. InjectionThreshold]
  /\ escalation \in [Customer -> Reasons \cup {None}]
  /\ pc \in [Customer -> {"idle", "deciding", "execute", "posting", "lookup", "cancelling"}]
  /\ left \in [Customer -> 0 .. MaxRequests]
  /\ forced \in [Customer -> {"confirm_order", "propose_order",
                              "get_delivery_information", None}]
  /\ flagged \in [Customer -> BOOLEAN]
  /\ target \in [Customer -> OrderId \cup {None}]
  /\ price \in [Product -> Price]
  /\ catalogue \in [Product -> Price]
  /\ indexed \in [Product -> Price]
  /\ readable \in BOOLEAN
  /\ orders \in [OrderId -> Order \cup {None}]
  /\ usedTokens \subseteq Token
  /\ invited \in [Customer -> Invitations \cup {None}]
  /\ quoted \in [Customer -> Quote \cup {None}]
  /\ replied \in [Customer -> Quote \cup {None}]
  /\ delivered \in [Customer -> BOOLEAN]

\* Every order the assistant ever asks of the store is, product, quantity and
\* total, the quote of the last reply it gave the customer (order_tool.py's "a
\* specific, already-priced proposal it can see"), through failed turns, price
\* changes and expired sessions.  Whether that reply has arrived by then is
\* another matter: see NothingIsOrderedUnseen.
OrdersMatchTheLastReply ==
  \A id \in OrderId : Sent(id) =>
    orders[id].offered = [product |-> orders[id].product, quantity |-> orders[id].quantity,
                          total |-> orders[id].agreed]

\* A proposal is posted at most once, however its POST ended and however often
\* the customer says yes: two order POSTs never carry the same token.
OnePostPerProposal ==
  \A i, j \in OrderId : Sent(i) /\ Sent(j) /\ i # j => orders[i].token # orders[j].token

\* The order a session calls its last confirmed one is in the store, and it
\* is that customer's.
ConfirmedOrdersExist ==
  \A c \in Customer : lastConfirmed[c] # None => Owns(c, lastConfirmed[c].order_id)

\* A confirmed order that the store charges differently from what was agreed is
\* known to differ, and leaves its session with a person for as long as the
\* session remembers it, unless the store's answer said nothing of the total.
MismatchesReachAPerson ==
  \A c \in Customer : lastConfirmed[c] # None =>
    LET o == orders[lastConfirmed[c].order_id]
        verified == lastConfirmed[c].total_verified
    IN  o.total # o.agreed =>
          \/ verified = "differs" /\ escalation[c] # None
          \/ verified = "unknown"

\* No order above the review limits is ever posted, whether it was over them
\* when it was quoted or only after its price moved.
NothingOverTheLimit ==
  \A id \in OrderId : Sent(id) =>
    orders[id].agreed <= MaxTotal /\ orders[id].quantity <= MaxOrderQuantity

\* A bare "yes" that answers a proposal reaches that proposal: the field that
\* bypasses the model and the flag that permits the write never disagree.
BareYesReachesItsProposal ==
  \A c \in Customer :
    pc[c] = "execute" /\ forced[c] = "confirm_order" => MayConfirm(c)

\* A proposal is marked submitting only while its POST or lookup is in flight
\* (order_tool.py:659), so that no session stays stuck with one.
SubmittingMeansInFlight ==
  \A c \in Customer : pending[c] # None /\ pending[c].status = "submitting" =>
    pc[c] \in {"posting", "lookup"}

\* c's turn writes to the store in this step: it posts an order or cancels one.
Writes(c) ==
  \/ pc[c] = "execute" /\ pc'[c] = "posting"
  \/ pc[c] = "cancelling" /\ orders' # orders

\* An escalated session is left to people: no turn of it writes.
EscalatedSessionsAreLeftAlone ==
  [][\A c \in Customer : Writes(c) => escalation[c] = None]_vars

\* A flagged message never leads to a write, whatever the model chose for it
\* and however many requests it packed into one answer.
FlaggedMessagesNeverWrite ==
  [][\A c \in Customer : Writes(c) => ~flagged[c]]_vars

\* Every turn ends, with the session's lock released and a reply to send.
TurnsEnd == \A c \in Customer : pc[c] # "idle" ~> pc[c] = "idle"

-----------------------------------------------------------------------------
(* What the source says and the code does not keep; see the README.        *)

\* order_tool.py:1206, "a flaky lookup doesn't get read as confirmation the
\* order was never created".
AFlakyLookupIsNotAnAbsence ==
  [][\A c \in Customer : pc[c] = "lookup" /\ invited'[c] = "retry" =>
       FoundByToken(c) = {}]_vars

\* order_tool.py:18, "a customer has explicitly said yes to a specific,
\* already-priced proposal it can see", and :664, "when they saw the proposal":
\* the quote made last is in a reply, and that has arrived, before the quote is
\* ordered.
NothingIsOrderedUnseen ==
  [][\A c \in Customer : pc[c] = "execute" /\ pc'[c] = "posting" =>
       quoted[c] = None /\ delivered[c]]_vars

\* guardrails.py:130, after a blocked write "just reply CONFIRM on its own".
ConfirmOnItsOwnWorks ==
  \A c \in Customer :
    pc[c] = "idle" /\ invited[c] = "confirm" /\ pending[c] # None => MayConfirm(c)

-----------------------------------------------------------------------------
(* The session implements the contract.                                    *)

\* What was quoted last, in a turn that goes on after it or in an earlier one.
LastQuote(c) == IF quoted[c] # None THEN quoted[c] ELSE replied[c]

\* The quote that a "yes" would order.
StandingOffer ==
  [c \in Customer |-> IF awaitingConfirmation[c] THEN LastQuote(c) ELSE None]

AskedOrders ==
  [id \in OrderId |->
     IF orders[id] = None THEN None
     ELSE [customer |-> orders[id].customer,
           quote |-> [product |-> orders[id].product, quantity |-> orders[id].quantity,
                      total |-> orders[id].agreed],
           status |-> IF orders[id].status = "sent" THEN "asked"
                      ELSE IF orders[id].status \in {"on-hold", "processing"}
                      THEN "open" ELSE "closed"]]

Contract == INSTANCE OrderContract
  WITH offer <- StandingOffer, order <- AskedOrders

ASSUME ContractNoneAssumption == None \notin Contract!OrderRecord

\* However many requests a message leads to, each order asked of the store uses
\* up the quote made last and is for exactly that; an order, once closed, stays
\* closed.  What may be missing is the quote's arrival and, in a turn of several
\* requests, the customer's yes to it, never the quote.
ImplementsContract == Contract!Spec

=============================================================================
