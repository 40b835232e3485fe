-------------------------- MODULE OrderSessionProofs --------------------------
(***************************************************************************)
(* Theorems about OrderSession, for every value of its constants.          *)
(***************************************************************************)
EXTENDS OrderSession, TLAPS

USE DEF Put

-----------------------------------------------------------------------------
(* Typing of the pieces the handlers share.                                *)

\* What Return() leaves is typed, whatever it is given of the right type.
LEMMA ReturnTyped ==
  ASSUME TypeOK, NEW c \in Customer, NEW invitation \in Invitations \cup {None},
         NEW quote \in Quote \cup {None}, Return(c, invitation, quote)
  PROVE  /\ invited' \in [Customer -> Invitations \cup {None}]
         /\ left' \in [Customer -> 0 .. MaxRequests]
         /\ pc' \in [Customer -> {"idle", "deciding", "execute", "posting", "lookup", "cancelling"}]
         /\ quoted' \in [Customer -> Quote \cup {None}]
         /\ replied' \in [Customer -> Quote \cup {None}]
         /\ delivered' \in [Customer -> BOOLEAN]
         /\ forced' \in [Customer -> {"confirm_order", "propose_order",
                                      "get_delivery_information", None}]
         /\ flagged' \in [Customer -> BOOLEAN]
         /\ target' \in [Customer -> OrderId \cup {None}]
  <1>1. MaxRequests \in Nat \ {0}
    BY LimitsAssumption
  <1>2. /\ quoted' \in [Customer -> Quote \cup {None}]
        /\ replied' \in [Customer -> Quote \cup {None}]
        /\ delivered' \in [Customer -> BOOLEAN]
    <2> DEFINE told == IF quote = None THEN quoted[c] ELSE quote
    <2>1. told \in Quote \cup {None}
      BY DEF TypeOK
    <2>2. quoted' = [quoted EXCEPT ![c] = IF left[c] <= 1 THEN None ELSE told]
      BY DEF Return
    <2> HIDE DEF told
    <2>3. \/ replied' = [replied EXCEPT ![c] = told] /\ delivered' = [delivered EXCEPT ![c] = FALSE]
          \/ UNCHANGED <<replied, delivered>>
      BY DEF Return, told
    <2>4. quoted' \in [Customer -> Quote \cup {None}] /\ replied' \in [Customer -> Quote \cup {None}]
      BY <2>1, <2>2, <2>3 DEF TypeOK
    <2>5. delivered' = [delivered EXCEPT ![c] = FALSE] \/ delivered' = delivered
      BY <2>3
    <2>6. delivered' \in [Customer -> BOOLEAN]
      BY <2>5 DEF TypeOK
    <2> QED
      BY <2>4, <2>6
  <1>3. left' \in [Customer -> 0 .. MaxRequests]
    BY <1>1 DEF Return, TypeOK
  <1> QED
    BY <1>2, <1>3 DEF Return, TypeOK

\* A count stays below its threshold.
LEMMA BumpBounded ==
  ASSUME NEW threshold \in Nat, NEW n \in 0 .. threshold
  PROVE  Bump(n, threshold) \in 0 .. threshold
  BY DEF Bump

\* A failed turn leaves its counter, the escalation and the turn typed.
LEMMA FailedTyped ==
  ASSUME TypeOK, NEW c \in Customer, NEW invitation \in Invitations \cup {None},
         Failed(c, invitation)
  PROVE  /\ failures' \in [Customer -> 0 .. FailureThreshold]
         /\ escalation' \in [Customer -> Reasons \cup {None}]
         /\ \E i \in Invitations \cup {None} : Return(c, i, None)
  <1>1. Bump(failures[c], FailureThreshold) \in 0 .. FailureThreshold
    BY LimitsAssumption, BumpBounded DEF TypeOK
  <1>2. failures' \in [Customer -> 0 .. FailureThreshold]
    BY <1>1 DEF Failed, TypeOK
  <1>3. escalation' \in [Customer -> Reasons \cup {None}]
    BY DEF Failed, Escalate, TypeOK, Reasons
  <1>4. \E i \in Invitations \cup {None} : Return(c, i, None)
    BY DEF Failed
  <1> QED
    BY <1>2, <1>3, <1>4

-----------------------------------------------------------------------------
(* The inductive invariant.  TypeOK does not stand alone: that a POST or a *)
(* PUT in flight has a proposal and an order behind it is what types the   *)
(* steps that end it.                                                      *)

\* The POST in flight is the session's proposal, marked, under its token.
PostInFlight(c) ==
  pc[c] \in {"posting", "lookup"} =>
    /\ pending[c] # None /\ pending[c].status = "submitting"
    /\ ~awaitingConfirmation[c]
    /\ target[c] \in OrderId /\ Sent(target[c])
    /\ orders[target[c]].token = pending[c].token
    /\ orders[target[c]].customer = c
    /\ orders[target[c]].agreed = Total(pending[c])

CancelInFlight(c) ==
  pc[c] = "cancelling" => target[c] \in OrderId /\ Owns(c, target[c])

\* The offer a "yes" would accept has never been posted.
OfferStands(c) ==
  awaitingConfirmation[c] =>
    /\ pending[c] # None /\ pending[c].status = "pending"
    /\ \A id \in OrderId : Sent(id) => orders[id].token # pending[c].token

FieldMeansFlag(c) ==
  /\ awaitingField[c] = "confirmation" => awaitingConfirmation[c]
  /\ pc[c] = "execute" /\ forced[c] = "confirm_order" => awaitingConfirmation[c]
  /\ pc[c] \in {"idle", "deciding"} => forced[c] # "confirm_order"

TokensAreUsed ==
  /\ \A c \in Customer : pending[c] # None => pending[c].token \in usedTokens
  /\ \A id \in OrderId : Sent(id) => orders[id].token \in usedTokens

TokensDiffer ==
  \A c, d \in Customer :
    c # d /\ pending[c] # None /\ pending[d] # None => pending[c].token # pending[d].token

Core ==
  /\ \A c \in Customer : /\ PostInFlight(c) /\ CancelInFlight(c)
                         /\ OfferStands(c) /\ FieldMeansFlag(c)
  /\ TokensAreUsed /\ TokensDiffer /\ OnePostPerProposal
  /\ ConfirmedOrdersExist /\ MismatchesReachAPerson

IInv == TypeOK /\ Core

-----------------------------------------------------------------------------
(* Every step keeps the types.                                             *)

LEMMA ReceiveTyped ==
  ASSUME IInv, NEW c \in Customer, Receive(c)
  PROVE  TypeOK'
  <1>0. /\ TypeOK
        /\ MaxRequests \in Nat \ {0} /\ InjectionThreshold \in Nat
        /\ flaggedCount[c] \in 0 .. InjectionThreshold
        /\ Bump(flaggedCount[c], InjectionThreshold) \in 0 .. InjectionThreshold
    BY LimitsAssumption, BumpBounded DEF IInv, TypeOK
  <1>1. CASE Held(c)
    BY <1>0, <1>1 DEF Held, TypeOK, memoryVars, turnVars, catalogueVars, storeVars
  <1>2. ASSUME NEW isFlagged \in BOOLEAN, HandsOff(c, isFlagged)
        PROVE  TypeOK'
    BY <1>0, <1>2 DEF HandsOff, Escalate, Reasons, TypeOK, turnVars, catalogueVars, storeVars
  <1>3. ASSUME NEW isFlagged \in BOOLEAN, Admits(c, isFlagged),
               left' \in [Customer -> 0 .. MaxRequests],
               pc' \in [Customer -> {"idle", "deciding", "execute", "posting", "lookup",
                                     "cancelling"}],
               forced' \in [Customer -> {"confirm_order", "propose_order",
                                         "get_delivery_information", None}]
        PROVE  TypeOK'
    BY <1>0, <1>3 DEF Admits, TypeOK, catalogueVars, storeVars, chatVars
  <1>4. CASE BareYes(c)
    <2>1. Admits(c, FALSE)
      BY <1>4 DEF BareYes
    <2>2. /\ left' \in [Customer -> 0 .. MaxRequests]
          /\ pc' \in [Customer -> {"idle", "deciding", "execute", "posting", "lookup",
                                  "cancelling"}]
          /\ forced' \in [Customer -> {"confirm_order", "propose_order",
                                      "get_delivery_information", None}]
      BY <1>0, <1>4 DEF BareYes, BypassModel, TypeOK
    <2> QED
      BY <2>1, <2>2, <1>3
  <1>5. ASSUME NEW isFlagged \in BOOLEAN, BareAnswer(c, isFlagged)
        PROVE  TypeOK'
    BY <1>0, <1>3, <1>5 DEF BareAnswer, BypassModel, TypeOK
  <1>6. ASSUME NEW isFlagged \in BOOLEAN, AskModel(c, isFlagged)
        PROVE  TypeOK'
    BY <1>0, <1>3, <1>6 DEF AskModel, TypeOK
  <1> QED
    BY <1>1, <1>2, <1>4, <1>5, <1>6 DEF Receive

\* A failed tool action leaves its counters, the escalation and the turn typed.
LEMMA FailedActionTyped ==
  ASSUME TypeOK, NEW c \in Customer, NEW invitation \in Invitations \cup {None},
         NEW tool \in {"propose_order", "confirm_order"},
         FailedAction(c, tool, invitation)
  PROVE  /\ lastActionOutcome' \in [Customer -> {"propose_order", "confirm_order", None}]
         /\ failures' \in [Customer -> 0 .. FailureThreshold]
         /\ escalation' \in [Customer -> Reasons \cup {None}]
         /\ \E i \in Invitations \cup {None} : Return(c, i, None)
  <1>1. lastActionOutcome' \in [Customer -> {"propose_order", "confirm_order", None}]
    BY DEF FailedAction, TypeOK
  <1>2. CASE Failed(c, invitation)
    BY <1>1, <1>2, FailedTyped
  <1>3. CASE UNCHANGED <<failures, escalation>> /\ Return(c, invitation, None)
    BY <1>1, <1>3 DEF TypeOK
  <1> QED
    BY <1>2, <1>3 DEF FailedAction

LEMMA ModelTyped ==
  ASSUME IInv, NEW c \in Customer,
         \/ \E n \in 1 .. MaxRequests : ModelDecides(c, n)
         \/ ModelFails(c) \/ EmptyMessage(c)
  PROVE  TypeOK'
  <1>0. TypeOK /\ MaxRequests \in Nat \ {0}
    BY LimitsAssumption DEF IInv
  <1>1. ASSUME NEW n \in 1 .. MaxRequests, ModelDecides(c, n)
        PROVE  TypeOK'
    BY <1>0, <1>1 DEF ModelDecides, TypeOK, memoryVars, catalogueVars, storeVars, chatVars
  <1>2. CASE ModelFails(c)
    BY <1>0, <1>2, FailedTyped, ReturnTyped DEF ModelFails, TypeOK, catalogueVars, storeVars
  <1>3. CASE EmptyMessage(c)
    BY <1>0, <1>3, ReturnTyped DEF EmptyMessage, TypeOK, memoryVars, catalogueVars, storeVars
  <1> QED
    BY <1>1, <1>2, <1>3

LEMMA ToolTyped ==
  ASSUME IInv, NEW c \in Customer,
         Converse(c) \/ ReadOnlyTool(c) \/ ToolRaises(c) \/ EscalateToHuman(c)
  PROVE  TypeOK'
  <1>0. TypeOK /\ FailureThreshold \in Nat
    BY LimitsAssumption DEF IInv
  <1>1. CASE Converse(c)
    BY <1>0, <1>1, ReturnTyped DEF Converse, TypeOK, Await, AwaitingFields, Invitations, NoVerdict, catalogueVars, storeVars
  <1>2. CASE ReadOnlyTool(c)
    <2>1. Return(c, None, None) /\ UNCHANGED escalation
      BY <1>2 DEF ReadOnlyTool, NoVerdict
    <2>2. /\ awaitingConfirmation' \in [Customer -> BOOLEAN]
          /\ awaitingField' \in [Customer -> AwaitingFields \cup {None}]
      BY <1>0, <1>2 DEF ReadOnlyTool, Await, AwaitingFields, TypeOK
    <2>3. /\ failures' \in [Customer -> 0 .. FailureThreshold]
          /\ lastActionOutcome' \in [Customer -> {"propose_order", "confirm_order", None}]
      BY <1>0, <1>2 DEF ReadOnlyTool, NoVerdict, Succeeded, TypeOK
    <2> QED
      BY <1>0, <1>2, <2>1, <2>2, <2>3, ReturnTyped
      DEF ReadOnlyTool, TypeOK, catalogueVars, storeVars
  <1>3. CASE ToolRaises(c)
    BY <1>0, <1>3, FailedTyped, ReturnTyped DEF ToolRaises, TypeOK, Await, AwaitingFields, Invitations, catalogueVars, storeVars
  <1>4. CASE EscalateToHuman(c)
    BY <1>0, <1>4, ReturnTyped DEF EscalateToHuman, TypeOK, Await, AwaitingFields, Invitations, Succeeded, Escalate, Reasons, catalogueVars, storeVars
  <1> QED
    BY <1>1, <1>2, <1>3, <1>4

LEMMA ProposeTyped ==
  ASSUME IInv, NEW c \in Customer, ProposeOrder(c)
  PROVE  TypeOK'
  <1>0. TypeOK /\ FailureThreshold \in Nat
    BY LimitsAssumption DEF IInv
  <1>1. \A p \in Product, isPrefix \in BOOLEAN :
          SurvivingProposal(c, p, isPrefix) \in Proposal \cup {None}
    BY <1>0 DEF SurvivingProposal, TypeOK
  <1>2. CASE ProposeAsksProduct(c)
    BY <1>0, <1>2, ReturnTyped DEF ProposeAsksProduct, TypeOK, Await, AwaitingFields, Invitations, NoVerdict, catalogueVars, storeVars
  <1>3. ASSUME NEW p \in Product, NEW isPrefix \in BOOLEAN, ProposeAsksDetail(c, p, isPrefix)
        PROVE  TypeOK'
    BY <1>0, <1>3, <1>1, ReturnTyped DEF ProposeAsksDetail, TypeOK, Await, AwaitingFields, Invitations, NoVerdict, catalogueVars, storeVars
  <1>4. ASSUME NEW p \in Product, NEW isPrefix \in BOOLEAN, ProposeNotFound(c, p, isPrefix)
        PROVE  TypeOK'
    BY <1>0, <1>4, <1>1, ReturnTyped DEF ProposeNotFound, TypeOK, Await, AwaitingFields, Invitations, NoVerdict, catalogueVars, storeVars
  <1>5. ASSUME NEW p \in Product, NEW isPrefix \in BOOLEAN, ProposeNotLinked(c, p, isPrefix)
        PROVE  TypeOK'
    BY <1>0, <1>5, <1>1, FailedActionTyped, ReturnTyped DEF ProposeNotLinked, TypeOK, Await, AwaitingFields, Invitations, catalogueVars, storeVars
  <1>6. ASSUME NEW p \in Product, NEW q \in Quantity, NEW t \in Token, Propose(c, p, q, t)
        PROVE  TypeOK'
    <2>1. PICK u \in {catalogue[p], indexed[p]} :
            /\ pending' = [pending EXCEPT ![c] =
                 [token |-> t, product |-> p, quantity |-> q, unit_price |-> u,
                  status |-> "pending"]]
            /\ Return(c, "confirm", [product |-> p, quantity |-> q, total |-> u * q])
      BY <1>6 DEF Propose, QuoteOf, Total
    <2>2. u \in Price /\ u * q \in Totals
      BY <1>0 DEF TypeOK, Totals
    <2>3. [product |-> p, quantity |-> q, total |-> u * q] \in Quote
      BY <2>2 DEF Quote
    <2>4. pending' \in [Customer -> Proposal \cup {None}]
      BY <1>0, <2>1, <2>2 DEF TypeOK, Proposal
    <2> QED
      BY <1>0, <1>6, <2>1, <2>3, <2>4, ReturnTyped
      DEF Propose, TypeOK, Await, AwaitingFields, Invitations, Succeeded, catalogueVars
  <1> QED
    BY <1>2, <1>3, <1>4, <1>5, <1>6 DEF ProposeOrder

LEMMA FinalizeTyped ==
  ASSUME IInv, NEW c \in Customer, NEW id \in OrderId, Finalize(c, id)
  PROVE  TypeOK'
  <1>1. TypeOK /\ FailureThreshold \in Nat
    BY LimitsAssumption DEF IInv
  <1>2. /\ lastConfirmed' \in [Customer -> Confirmation \cup {None}]
        /\ escalation' \in [Customer -> Reasons \cup {None}]
    <2>1. PICK verified \in StoreTotalMatches(pending[c], id) :
            /\ lastConfirmed' = [lastConfirmed EXCEPT
                 ![c] = [order_id |-> id, total_verified |-> verified]]
            /\ IF verified = "differs" THEN Escalate(c, "total_mismatch") ELSE UNCHANGED escalation
      BY DEF Finalize
    <2>2. verified \in {"matches", "differs", "unknown"}
      BY DEF StoreTotalMatches
    <2>3. [order_id |-> id, total_verified |-> verified] \in Confirmation
      BY <2>2 DEF Confirmation
    <2>4. escalation' \in [Customer -> Reasons \cup {None}]
      BY <1>1, <2>1 DEF Escalate, Reasons, TypeOK
    <2> QED
      BY <1>1, <2>1, <2>3, <2>4 DEF TypeOK
  <1> QED
    <2>1. Return(c, None, None)
      BY DEF Finalize
    <2>2. /\ pending' \in [Customer -> Proposal \cup {None}]
          /\ lastActionOutcome' \in [Customer -> {"propose_order", "confirm_order", None}]
          /\ failures' \in [Customer -> 0 .. FailureThreshold]
      BY <1>1 DEF Finalize, Succeeded, TypeOK
    <2>3. UNCHANGED <<awaitingConfirmation, awaitingField, flaggedCount, price, catalogue,
                      readable, indexed, orders, usedTokens>>
      BY DEF Finalize, catalogueVars, storeVars
    <2> QED
      BY <1>1, <1>2, <2>1, <2>2, <2>3, ReturnTyped DEF TypeOK

LEMMA HandsBackTyped ==
  ASSUME IInv, NEW c \in Customer, pending[c] # None, HandsBack(c)
  PROVE  TypeOK'
  <1>1. TypeOK
    BY DEF IInv
  <1>2. pending' \in [Customer -> Proposal \cup {None}]
    BY <1>1 DEF HandsBack, Proposal, TypeOK
  <1> QED
    BY <1>1, <1>2, FailedActionTyped, ReturnTyped
    DEF HandsBack, Invitations, TypeOK, catalogueVars, storeVars

LEMMA ConfirmTyped ==
  ASSUME IInv, NEW c \in Customer, ConfirmOrder(c)
  PROVE  TypeOK'
  <1>0. /\ TypeOK /\ FailureThreshold \in Nat
        /\ pc[c] \in {"posting", "lookup"} => pending[c] # None /\ target[c] \in OrderId
    BY LimitsAssumption DEF IInv, Core, PostInFlight
  <1>1. CASE ConfirmRefused(c)
    BY <1>0, <1>1, ReturnTyped
    DEF ConfirmRefused, TypeOK, Await, AwaitingFields, Invitations, NoVerdict, catalogueVars, storeVars
  <1>2. CASE ConfirmRepeated(c)
    BY <1>0, <1>2, ReturnTyped
    DEF ConfirmRepeated, TypeOK, Await, AwaitingFields, Invitations, Succeeded, catalogueVars, storeVars
  <1>3. CASE ConfirmNeedsReview(c)
    BY <1>0, <1>3, ReturnTyped
    DEF ConfirmNeedsReview, TypeOK, Await, AwaitingFields, Invitations, Succeeded, Escalate, Reasons, catalogueVars, storeVars
  <1>4. CASE ConfirmReprices(c)
    <2> DEFINE repriced == [pending[c] EXCEPT !.unit_price = catalogue[pending[c].product]]
    <2>1. repriced \in Proposal
      BY <1>0, <1>4 DEF ConfirmReprices, MayConfirm, TypeOK, Proposal
    <2>2. QuoteOf(repriced) \in Quote
      BY <2>1 DEF QuoteOf, Quote, Total, Totals, Proposal
    <2>3. pending' \in [Customer -> Proposal \cup {None}] /\ Return(c, "confirm", QuoteOf(repriced))
      BY <1>0, <1>4, <2>1 DEF ConfirmReprices, TypeOK
    <2> QED
      BY <1>0, <1>4, <2>2, <2>3, ReturnTyped
      DEF ConfirmReprices, TypeOK, Await, AwaitingFields, Invitations, Succeeded,
          catalogueVars, storeVars
  <1>5. ASSUME NEW id \in OrderId, ConfirmSubmits(c, id)
        PROVE  TypeOK'
    <2> DEFINE order == [customer |-> c, token |-> pending[c].token,
                         product |-> pending[c].product, quantity |-> pending[c].quantity,
                         agreed |-> Total(pending[c]), offered |-> replied[c], total |-> 0,
                         status |-> "sent"]
    <2>1. pending[c] \in Proposal
      BY <1>0, <1>5 DEF ConfirmSubmits, MayConfirm, TypeOK
    <2>2. Total(pending[c]) \in Totals /\ replied[c] \in Quote \cup {None}
      BY <1>0, <2>1 DEF Total, Totals, Proposal, TypeOK
    <2>3. order \in Order
      BY <2>1, <2>2 DEF Order, Proposal
    <2>4. orders' \in [OrderId -> Order \cup {None}]
      BY <1>0, <1>5, <2>3 DEF ConfirmSubmits, TypeOK
    <2>5. pending' \in [Customer -> Proposal \cup {None}]
      BY <1>0, <1>5, <2>1 DEF ConfirmSubmits, TypeOK, Proposal
    <2> QED
      BY <1>0, <1>5, <2>4, <2>5
      DEF ConfirmSubmits, TypeOK, Await, AwaitingFields, catalogueVars, chatVars
  <1>6. CASE PostReturns(c)
    BY <1>0, <1>6, FinalizeTyped DEF PostReturns
  <1>7. CASE PostFails(c)
    BY <1>0, <1>7, HandsBackTyped DEF PostFails
  <1>8. CASE AnswerHasNoId(c)
    BY <1>0, <1>8, FailedTyped, ReturnTyped
    DEF AnswerHasNoId, TypeOK, catalogueVars, storeVars
  <1>9. CASE PostTimesOut(c)
    BY <1>0, <1>9
    DEF PostTimesOut, TypeOK, catalogueVars, storeVars, memoryVars, chatVars
  <1>10. ASSUME NEW id \in OrderId, LookupFinds(c, id)
         PROVE  TypeOK'
    BY <1>10, FinalizeTyped DEF LookupFinds
  <1>11. CASE LookupFindsNothing(c)
    BY <1>0, <1>11, HandsBackTyped DEF LookupFindsNothing
  <1> QED
    BY <1>1, <1>2, <1>3, <1>4, <1>5, <1>6, <1>7, <1>8, <1>9, <1>10, <1>11 DEF ConfirmOrder

LEMMA CancelTyped ==
  ASSUME IInv, NEW c \in Customer, CancelOrder(c)
  PROVE  TypeOK'
  <1>0. /\ TypeOK /\ FailureThreshold \in Nat
        /\ pc[c] = "cancelling" => target[c] \in OrderId /\ orders[target[c]] # None
    BY LimitsAssumption DEF IInv, Core, CancelInFlight, Owns, InStore, Sent
  <1>1. pc[c] = "cancelling" =>
          [orders EXCEPT ![target[c]].status = "cancelled"] \in [OrderId -> Order \cup {None}]
    BY <1>0 DEF TypeOK, Order, StoreStatus
  <1>2. CASE CancelFindsNoOrder(c)
    BY <1>0, <1>2, ReturnTyped
    DEF CancelFindsNoOrder, TypeOK, Await, AwaitingFields, Invitations, NoVerdict, catalogueVars, storeVars
  <1>3. ASSUME NEW id \in OrderId, CancelDeclines(c, id)
        PROVE  TypeOK'
    BY <1>0, <1>3, ReturnTyped
    DEF CancelDeclines, TypeOK, Await, AwaitingFields, Invitations, Succeeded, catalogueVars, storeVars
  <1>4. ASSUME NEW id \in OrderId, CancelProceeds(c, id)
        PROVE  TypeOK'
    BY <1>0, <1>4
    DEF CancelProceeds, TypeOK, Await, AwaitingFields, catalogueVars, storeVars, chatVars
  <1>5. CASE CancelReturns(c)
    <2>1. /\ Return(c, None, None)
          /\ orders' \in [OrderId -> Order \cup {None}]
          /\ lastConfirmed' \in [Customer -> Confirmation \cup {None}]
          /\ lastActionOutcome' \in [Customer -> {"propose_order", "confirm_order", None}]
          /\ failures' \in [Customer -> 0 .. FailureThreshold]
      BY <1>0, <1>1, <1>5 DEF CancelReturns, Succeeded, TypeOK
    <2>2. UNCHANGED <<pending, awaitingConfirmation, awaitingField, escalation, flaggedCount,
                      price, catalogue, readable, indexed, usedTokens>>
      BY <1>5 DEF CancelReturns, catalogueVars
    <2> QED
      BY <1>0, <2>1, <2>2, ReturnTyped DEF TypeOK
  <1>6. CASE CancelFails(c)
    BY <1>0, <1>6, <1>1, ReturnTyped
    DEF CancelFails, TypeOK, NoVerdict, catalogueVars
  <1> QED
    BY <1>2, <1>3, <1>4, <1>5, <1>6 DEF CancelOrder

LEMMA EnvironmentTyped ==
  ASSUME IInv, Environment
  PROVE  TypeOK'
  <1>0. TypeOK
    BY DEF IInv
  <1>1. ASSUME NEW cs \in SUBSET Customer, Forgets(cs)
        PROVE  /\ pending' \in [Customer -> Proposal \cup {None}]
               /\ awaitingConfirmation' \in [Customer -> BOOLEAN]
               /\ awaitingField' \in [Customer -> AwaitingFields \cup {None}]
               /\ lastConfirmed' \in [Customer -> Confirmation \cup {None}]
               /\ lastActionOutcome' \in [Customer -> {"propose_order", "confirm_order", None}]
               /\ failures' \in [Customer -> 0 .. FailureThreshold]
               /\ flaggedCount' \in [Customer -> 0 .. InjectionThreshold]
               /\ escalation' \in [Customer -> Reasons \cup {None}]
    <2>1. /\ pending' = [d \in Customer |-> IF d \in cs THEN None ELSE pending[d]]
          /\ awaitingConfirmation' =
               [d \in Customer |-> IF d \in cs THEN FALSE ELSE awaitingConfirmation[d]]
          /\ awaitingField' = [d \in Customer |-> IF d \in cs THEN None ELSE awaitingField[d]]
          /\ lastConfirmed' = [d \in Customer |-> IF d \in cs THEN None ELSE lastConfirmed[d]]
          /\ lastActionOutcome' =
               [d \in Customer |-> IF d \in cs THEN None ELSE lastActionOutcome[d]]
          /\ failures' = [d \in Customer |-> IF d \in cs THEN 0 ELSE failures[d]]
          /\ flaggedCount' = [d \in Customer |-> IF d \in cs THEN 0 ELSE flaggedCount[d]]
          /\ escalation' = [d \in Customer |-> IF d \in cs THEN None ELSE escalation[d]]
      BY <1>1 DEF Forgets
    <2>2. 0 \in 0 .. FailureThreshold /\ 0 \in 0 .. InjectionThreshold
      BY LimitsAssumption
    <2> QED
      BY <1>0, <2>1, <2>2 DEF TypeOK
  <1>2. ASSUME NEW c \in Customer, Expire(c)
        PROVE  TypeOK'
    BY <1>0, <1>1, <1>2 DEF Expire, TypeOK, turnVars, catalogueVars, storeVars, chatVars
  <1>3. ASSUME NEW c \in Customer, ReplyArrives(c)
        PROVE  TypeOK'
    BY <1>0, <1>3 DEF ReplyArrives, TypeOK, memoryVars, turnVars, catalogueVars, storeVars
  <1>4. CASE Restart
    BY <1>0, <1>1, <1>4, LimitsAssumption DEF Restart, TypeOK, storeVars
  <1>5. CASE SyncBegins
    BY <1>0, <1>5 DEF SyncBegins, TypeOK, memoryVars, turnVars, storeVars, chatVars
  <1>6. CASE SyncEnds
    BY <1>0, <1>6 DEF SyncEnds, TypeOK, memoryVars, turnVars, storeVars, chatVars
  <1>7. ASSUME NEW id \in OrderId, StoreCreates(id)
        PROVE  TypeOK'
    <2>1. orders[id] \in Order
      BY <1>0, <1>7 DEF StoreCreates, Sent, TypeOK
    <2>2. price[orders[id].product] * orders[id].quantity \in Totals
      BY <1>0, <2>1 DEF TypeOK, Order, Totals
    <2>3. orders' \in [OrderId -> Order \cup {None}]
      BY <1>0, <1>7, <2>1, <2>2 DEF StoreCreates, TypeOK, Order, StoreStatus
    <2> QED
      BY <1>0, <1>7, <2>3
      DEF StoreCreates, TypeOK, memoryVars, turnVars, catalogueVars, chatVars
  <1>8. ASSUME NEW id \in OrderId,
               StoreRejects(id) \/ \E status \in StoreStatus : StaffMoves(id, status)
        PROVE  TypeOK'
    <2>1. orders[id] \in Order
      BY <1>0, <1>8 DEF StoreRejects, StaffMoves, Sent, TypeOK
    <2>2. orders' \in [OrderId -> Order \cup {None}]
      BY <1>0, <1>8, <2>1 DEF StoreRejects, StaffMoves, TypeOK, Order, StoreStatus
    <2> QED
      BY <1>0, <1>8, <2>2
      DEF StoreRejects, StaffMoves, TypeOK, memoryVars, turnVars, catalogueVars, chatVars
  <1>9. ASSUME NEW p \in Product, NEW u \in Price, StoreReprices(p, u)
        PROVE  TypeOK'
    BY <1>0, <1>9 DEF StoreReprices, TypeOK, memoryVars, turnVars, storeVars, chatVars
  <1> QED
    BY <1>2, <1>4, <1>5, <1>6, <1>7, <1>8, <1>9, <1>3 DEF Environment

\* The types are kept by every step from a state of the invariant.
LEMMA StepTyped ==
  ASSUME IInv, [Next]_vars
  PROVE  TypeOK'
  <1>1. CASE UNCHANGED vars
    BY <1>1 DEF IInv, TypeOK, vars, memoryVars, turnVars, catalogueVars, storeVars, chatVars
  <1>2. ASSUME NEW c \in Customer, TurnStep(c)
        PROVE  TypeOK'
    BY <1>2, ModelTyped, ToolTyped, ProposeTyped, ConfirmTyped, CancelTyped DEF TurnStep
  <1> QED
    BY <1>1, <1>2, ReceiveTyped, EnvironmentTyped DEF Next

-----------------------------------------------------------------------------
(* Every step keeps the rest of the invariant.  Most steps are quiet: they *)
(* touch one session, post nothing, and leave at most the offer that stood.*)

\* Orders that move on keep whose they are, what they were posted for and,
\* once in the store, stay there.
OrdersKept ==
  \A id \in OrderId :
    /\ Sent(id)' = Sent(id)
    /\ Sent(id) => /\ orders'[id].customer = orders[id].customer
                   /\ orders'[id].token = orders[id].token
                   /\ orders'[id].product = orders[id].product
                   /\ orders'[id].quantity = orders[id].quantity
                   /\ orders'[id].agreed = orders[id].agreed
                   /\ orders'[id].offered = orders[id].offered
    /\ InStore(id) => InStore(id)' /\ orders'[id].total = orders[id].total

LEMMA UntouchedKept ==
  ASSUME UNCHANGED orders
  PROVE  OrdersKept
  BY DEF OrdersKept, InStore, Sent

LEMMA StoreAnswersKept ==
  ASSUME TypeOK, NEW id \in OrderId, StoreCreates(id) \/ StoreRejects(id)
  PROVE  OrdersKept
  <1>1. /\ orders[id] \in Order /\ orders[id].status = "sent"
        /\ \/ orders'[id] = [orders[id] EXCEPT !.status = "rejected"]
           \/ orders'[id] = [orders[id] EXCEPT !.status = "on-hold",
                !.total = price[orders[id].product] * orders[id].quantity]
        /\ \A other \in OrderId \ {id} : orders'[other] = orders[other]
    BY DEF StoreCreates, StoreRejects, Sent, TypeOK
  <1>2. price[orders[id].product] * orders[id].quantity \in Totals
    BY <1>1 DEF TypeOK, Order, Totals
  <1>3. /\ orders'[id] \in Order /\ orders'[id].customer = orders[id].customer
        /\ orders'[id].token = orders[id].token /\ orders'[id].agreed = orders[id].agreed
        /\ orders'[id].product = orders[id].product
        /\ orders'[id].quantity = orders[id].quantity /\ orders'[id].offered = orders[id].offered
    BY <1>1, <1>2 DEF Order, StoreStatus
  <1> QED
    BY <1>1, <1>3, NoneAssumption DEF OrdersKept, InStore, Sent, StoreStatus

OthersUntouched(c) ==
  \A d \in Customer \ {c} :
    /\ pending'[d] = pending[d] /\ awaitingConfirmation'[d] = awaitingConfirmation[d]
    /\ awaitingField'[d] = awaitingField[d] /\ lastConfirmed'[d] = lastConfirmed[d]
    /\ escalation'[d] = escalation[d]
    /\ pc'[d] = pc[d] /\ forced'[d] = forced[d] /\ target'[d] = target[d]

\* c's turn is not waiting for the store after the step, and a "yes" that
\* could be given after it could be given before, to the same token.
Quiet(c) ==
  /\ OthersUntouched(c)
  /\ OrdersKept /\ UNCHANGED usedTokens
  /\ lastConfirmed'[c] \in {lastConfirmed[c], None}
  /\ escalation[c] # None => escalation'[c] # None
  /\ pending'[c] # None => pending[c] # None /\ pending'[c].token = pending[c].token
  /\ awaitingConfirmation'[c] =>
       awaitingConfirmation[c] /\ pending'[c] # None /\ pending'[c].status = "pending"
  /\ awaitingField'[c] = "confirmation" => awaitingConfirmation'[c]
  /\ pc'[c] \in {"idle", "deciding", "execute"}
  /\ pc'[c] = "execute" /\ forced'[c] = "confirm_order" => awaitingConfirmation'[c]
  /\ pc'[c] \in {"idle", "deciding"} => forced'[c] # "confirm_order"

\* MismatchesReachAPerson for one session.
MismatchSeen(c) ==
  lastConfirmed[c] # None =>
    \/ orders[lastConfirmed[c].order_id].total = orders[lastConfirmed[c].order_id].agreed
    \/ lastConfirmed[c].total_verified = "differs" /\ escalation[c] # None
    \/ lastConfirmed[c].total_verified = "unknown"

LEMMA MismatchesSeen ==
  /\ MismatchesReachAPerson <=> \A c \in Customer : MismatchSeen(c)
  /\ MismatchesReachAPerson' <=> \A c \in Customer : MismatchSeen(c)'
  BY DEF MismatchesReachAPerson, MismatchSeen

LEMMA QuietKeeps ==
  ASSUME IInv, NEW c \in Customer, Quiet(c)
  PROVE  Core'
  <1>1. ASSUME NEW d \in Customer
        PROVE  /\ PostInFlight(d)' /\ CancelInFlight(d)'
               /\ OfferStands(d)' /\ FieldMeansFlag(d)'
    <2>1. PostInFlight(d) /\ CancelInFlight(d) /\ OfferStands(d) /\ FieldMeansFlag(d)
      BY DEF IInv, Core
    <2>2. CASE d = c
      BY <2>1, <2>2
      DEF Quiet, OrdersKept, PostInFlight, CancelInFlight, OfferStands, FieldMeansFlag
    <2>3. CASE d # c
      <3>1. /\ pending'[d] = pending[d] /\ awaitingConfirmation'[d] = awaitingConfirmation[d]
            /\ awaitingField'[d] = awaitingField[d]
            /\ pc'[d] = pc[d] /\ forced'[d] = forced[d] /\ target'[d] = target[d]
            /\ OrdersKept
        BY <2>3 DEF Quiet, OthersUntouched
      <3>2. PostInFlight(d)'
        BY <2>1, <3>1 DEF PostInFlight, OrdersKept, Total
      <3>3. CancelInFlight(d)'
        <4>1. ASSUME pc[d] = "cancelling"
              PROVE  target'[d] = target[d] /\ Owns(d, target[d]) /\ target[d] \in OrderId
          BY <2>1, <3>1, <4>1 DEF CancelInFlight
        <4>2. ASSUME NEW id \in OrderId, Owns(d, id)
              PROVE  Owns(d, id)'
          BY <3>1, <4>2 DEF OrdersKept, Owns, InStore
        <4> QED
          BY <3>1, <4>1, <4>2 DEF CancelInFlight, Owns, InStore, Sent
      <3>4. OfferStands(d)' /\ FieldMeansFlag(d)'
        BY <2>1, <3>1 DEF OfferStands, FieldMeansFlag, OrdersKept
      <3> QED
        BY <3>2, <3>3, <3>4
    <2> QED
      BY <2>2, <2>3
  <1>2. TokensAreUsed' /\ TokensDiffer'
    BY DEF IInv, Core, TokensAreUsed, TokensDiffer, Quiet, OthersUntouched, OrdersKept
  <1>3. OnePostPerProposal'
    BY DEF IInv, Core, OnePostPerProposal, Quiet, OrdersKept
  <1>4. ASSUME NEW d \in Customer, lastConfirmed'[d] # None
        PROVE  Owns(d, lastConfirmed[d].order_id)' /\ MismatchSeen(d)'
    <2>1. lastConfirmed'[d] = lastConfirmed[d] /\ (escalation[d] # None => escalation'[d] # None)
      BY <1>4 DEF Quiet, OthersUntouched
    <2>2. PICK id \in OrderId : id = lastConfirmed[d].order_id
      BY <1>4, <2>1 DEF IInv, TypeOK, Confirmation
    <2>3. InStore(id) /\ orders[id].customer = d /\ MismatchSeen(d)
      BY <1>4, <2>1, <2>2, MismatchesSeen DEF IInv, Core, ConfirmedOrdersExist, Owns
    <2>4. /\ InStore(id)' /\ orders'[id].customer = d
          /\ orders'[id].total = orders[id].total /\ orders'[id].agreed = orders[id].agreed
      BY <2>3 DEF Quiet, OrdersKept, InStore
    <2> QED
      BY <2>1, <2>2, <2>3, <2>4 DEF Owns, InStore, Sent, MismatchSeen
  <1>5. ConfirmedOrdersExist' /\ MismatchesReachAPerson'
    BY <1>4, MismatchesSeen DEF ConfirmedOrdersExist, MismatchSeen
  <1> QED
    BY <1>1, <1>2, <1>3, <1>5 DEF Core

\* What Return() does to the parts of the turn that Quiet() is about.
LEMMA ReturnEnds ==
  ASSUME TypeOK, NEW c \in Customer, NEW invitation, NEW quote,
         Return(c, invitation, quote)
  PROVE  /\ \A d \in Customer \ {c} :
               pc'[d] = pc[d] /\ forced'[d] = forced[d] /\ target'[d] = target[d]
         /\ pc'[c] \in {"idle", "execute"} /\ forced'[c] = None
  BY DEF Return, TypeOK

\* Nothing takes an escalation back before the session is forgotten.
LEMMA FailedEnds ==
  ASSUME TypeOK, NEW c \in Customer, NEW invitation, NEW tool,
         Failed(c, invitation) \/ FailedAction(c, tool, invitation)
  PROVE  /\ \E i, q : Return(c, i, q)
         /\ \A d \in Customer \ {c} : escalation'[d] = escalation[d]
         /\ escalation[c] # None => escalation'[c] # None
  <1>1. CASE Failed(c, invitation)
    BY <1>1 DEF Failed, Escalate, TypeOK
  <1>2. CASE UNCHANGED <<failures, escalation>> /\ Return(c, invitation, None)
    BY <1>2
  <1> QED
    BY <1>1, <1>2 DEF FailedAction

\* A request that ends, with no more of an offer than there was, is quiet.
LEMMA EndsQuietly ==
  ASSUME TypeOK, NEW c \in Customer,
         \E i, q : Return(c, i, q),
         UNCHANGED <<lastConfirmed, orders, usedTokens>>,
         \A d \in Customer \ {c} :
           /\ pending'[d] = pending[d] /\ awaitingConfirmation'[d] = awaitingConfirmation[d]
           /\ awaitingField'[d] = awaitingField[d] /\ escalation'[d] = escalation[d],
         escalation[c] # None => escalation'[c] # None,
         pending'[c] # None => pending[c] # None /\ pending'[c].token = pending[c].token,
         awaitingConfirmation'[c] =>
           awaitingConfirmation[c] /\ pending'[c] # None /\ pending'[c].status = "pending",
         awaitingField'[c] = "confirmation" => awaitingConfirmation'[c]
  PROVE  Quiet(c)
  <1>1. OrdersKept
    BY UntouchedKept
  <1> QED
    BY <1>1, ReturnEnds, NoneAssumption DEF Quiet, OthersUntouched

LEMMA ReceiveKeeps ==
  ASSUME IInv, NEW c \in Customer, Receive(c)
  PROVE  Core'
  <1>0. /\ TypeOK /\ OfferStands(c) /\ FieldMeansFlag(c)
        /\ None # "confirm_order"
        /\ UNCHANGED orders => OrdersKept
    BY NoneAssumption, UntouchedKept DEF IInv, Core
  <1>1. CASE Held(c)
    BY <1>0, <1>1, QuietKeeps
    DEF Held, Quiet, OthersUntouched, OfferStands, FieldMeansFlag, memoryVars, turnVars, storeVars
  <1>2. ASSUME NEW isFlagged \in BOOLEAN, HandsOff(c, isFlagged)
        PROVE  Core'
    BY <1>0, <1>2, QuietKeeps
    DEF HandsOff, Escalate, Quiet, OthersUntouched, OfferStands, FieldMeansFlag, turnVars,
        storeVars, TypeOK
  <1>3. ASSUME NEW isFlagged \in BOOLEAN, Admits(c, isFlagged),
               \A d \in Customer \ {c} : pc'[d] = pc[d] /\ forced'[d] = forced[d],
               pc'[c] \in {"deciding", "execute"},
               pc'[c] = "deciding" => forced'[c] = forced[c],
               pc'[c] = "execute" /\ forced'[c] = "confirm_order" => awaitingConfirmation[c]
        PROVE  Core'
    BY <1>0, <1>3, QuietKeeps
    DEF Admits, Quiet, OthersUntouched, OfferStands, FieldMeansFlag, storeVars
  <1>4. CASE BareYes(c)
    <2>1. Admits(c, FALSE)
      BY <1>4 DEF BareYes
    <2>2. \A d \in Customer \ {c} : pc'[d] = pc[d] /\ forced'[d] = forced[d]
      BY <1>0, <1>4 DEF BareYes, BypassModel, TypeOK
    <2>3. /\ pc'[c] = "execute"
          /\ pc'[c] = "execute" /\ forced'[c] = "confirm_order" => awaitingConfirmation[c]
      BY <1>0, <1>4 DEF BareYes, BypassModel, FieldMeansFlag, TypeOK
    <2> QED
      BY <1>3, <2>1, <2>2, <2>3
  <1>5. ASSUME NEW isFlagged \in BOOLEAN, BareAnswer(c, isFlagged)
        PROVE  Core'
    BY <1>0, <1>3, <1>5 DEF BareAnswer, BypassModel, TypeOK
  <1>6. ASSUME NEW isFlagged \in BOOLEAN, AskModel(c, isFlagged)
        PROVE  Core'
    BY <1>0, <1>3, <1>6 DEF AskModel, TypeOK
  <1> QED
    BY <1>1, <1>2, <1>4, <1>5, <1>6 DEF Receive

LEMMA ModelKeeps ==
  ASSUME IInv, NEW c \in Customer,
         \/ \E n \in 1 .. MaxRequests : ModelDecides(c, n)
         \/ ModelFails(c) \/ EmptyMessage(c)
  PROVE  Core'
  <1>0. /\ TypeOK /\ OfferStands(c) /\ FieldMeansFlag(c)
        /\ UNCHANGED orders => OrdersKept
    BY UntouchedKept DEF IInv, Core
  <1>1. ASSUME NEW n \in 1 .. MaxRequests, ModelDecides(c, n)
        PROVE  Core'
    BY <1>0, <1>1, QuietKeeps
    DEF ModelDecides, Quiet, OthersUntouched, OfferStands, FieldMeansFlag, memoryVars,
        storeVars, TypeOK
  <1>2. CASE ModelFails(c)
    <2>1. Quiet(c)
      BY <1>0, <1>2, FailedEnds, EndsQuietly
      DEF ModelFails, OfferStands, FieldMeansFlag, storeVars
    <2> QED
      BY <2>1, QuietKeeps
  <1>3. CASE EmptyMessage(c)
    <2>1. Quiet(c)
      BY <1>0, <1>3, EndsQuietly
      DEF EmptyMessage, OfferStands, FieldMeansFlag, memoryVars, storeVars
    <2> QED
      BY <2>1, QuietKeeps
  <1> QED
    BY <1>1, <1>2, <1>3

LEMMA ToolKeeps ==
  ASSUME IInv, NEW c \in Customer,
         Converse(c) \/ ReadOnlyTool(c) \/ ToolRaises(c) \/ EscalateToHuman(c)
  PROVE  Core'
  <1>0. /\ TypeOK /\ OfferStands(c) /\ FieldMeansFlag(c)
        /\ None \notin AwaitingFields
    BY NoneAssumption DEF IInv, Core
  <1>1. CASE Converse(c)
    <2>1. Quiet(c)
      BY <1>0, <1>1, EndsQuietly
      DEF Converse, NoVerdict, Await, AwaitingFields, TypeOK, storeVars
    <2> QED
      BY <2>1, QuietKeeps
  <1>2. CASE ReadOnlyTool(c)
    <2>1. Quiet(c)
      BY <1>0, <1>2, EndsQuietly
      DEF ReadOnlyTool, NoVerdict, Await, AwaitingFields, TypeOK, storeVars
    <2> QED
      BY <2>1, QuietKeeps
  <1>3. CASE ToolRaises(c)
    <2>1. Quiet(c)
      BY <1>0, <1>3, FailedEnds, EndsQuietly
      DEF ToolRaises, Await, AwaitingFields, TypeOK, storeVars
    <2> QED
      BY <2>1, QuietKeeps
  <1>4. CASE EscalateToHuman(c)
    <2>1. Quiet(c)
      BY <1>0, <1>4, EndsQuietly
      DEF EscalateToHuman, Escalate, Await, AwaitingFields, TypeOK, storeVars
    <2> QED
      BY <2>1, QuietKeeps
  <1> QED
    BY <1>1, <1>2, <1>3, <1>4

LEMMA ProposeKeeps ==
  ASSUME IInv, NEW c \in Customer, ProposeOrder(c)
  PROVE  Core'
  <1>0. /\ TypeOK /\ OfferStands(c) /\ FieldMeansFlag(c)
        /\ None \notin AwaitingFields
    BY NoneAssumption DEF IInv, Core
  <1>1. \A p \in Product, isPrefix \in BOOLEAN :
          SurvivingProposal(c, p, isPrefix) \in {pending[c], None}
    BY DEF SurvivingProposal
  <1>2. CASE ProposeAsksProduct(c)
    <2>1. Quiet(c)
      BY <1>0, <1>2, EndsQuietly
      DEF ProposeAsksProduct, NoVerdict, Await, AwaitingFields, TypeOK, storeVars
    <2> QED
      BY <2>1, QuietKeeps
  <1>3. ASSUME NEW p \in Product, NEW isPrefix \in BOOLEAN, ProposeAsksDetail(c, p, isPrefix)
        PROVE  Core'
    <2>1. Quiet(c)
      BY <1>0, <1>3, <1>1, EndsQuietly
      DEF ProposeAsksDetail, NoVerdict, Await, AwaitingFields, TypeOK, storeVars
    <2> QED
      BY <2>1, QuietKeeps
  <1>4. ASSUME NEW p \in Product, NEW isPrefix \in BOOLEAN, ProposeNotFound(c, p, isPrefix)
        PROVE  Core'
    <2>1. Quiet(c)
      BY <1>0, <1>4, <1>1, EndsQuietly
      DEF ProposeNotFound, NoVerdict, Await, AwaitingFields, TypeOK, storeVars
    <2> QED
      BY <2>1, QuietKeeps
  <1>5. ASSUME NEW p \in Product, NEW isPrefix \in BOOLEAN, ProposeNotLinked(c, p, isPrefix)
        PROVE  Core'
    <2>1. Quiet(c)
      BY <1>0, <1>5, <1>1, FailedEnds, EndsQuietly
      DEF ProposeNotLinked, Await, AwaitingFields, TypeOK, storeVars
    <2> QED
      BY <2>1, QuietKeeps
  <1>6. ASSUME NEW p \in Product, NEW q \in Quantity, NEW t \in Token, Propose(c, p, q, t)
        PROVE  Core'
    <2>1. PICK u \in {catalogue[p], indexed[p]} :
            /\ pending' = [pending EXCEPT ![c] =
                 [token |-> t, product |-> p, quantity |-> q, unit_price |-> u,
                  status |-> "pending"]]
            /\ \E quote : Return(c, "confirm", quote)
      BY <1>6 DEF Propose
    <2>2. /\ pending'[c].token = t /\ pending'[c].status = "pending"
          /\ pending'[c] # None
      <3>1. u \in Price
        BY <1>0 DEF TypeOK
      <3>2. pending'[c] \in Proposal
        BY <1>0, <2>1, <3>1 DEF TypeOK, Proposal
      <3> QED
        BY <1>0, <2>1, <3>2, NoneAssumption DEF TypeOK
    <2>3. /\ t \notin usedTokens /\ usedTokens' = usedTokens \cup {t} /\ orders' = orders
          /\ lastConfirmed' = lastConfirmed /\ escalation' = escalation
          /\ awaitingConfirmation' = [awaitingConfirmation EXCEPT ![c] = TRUE]
          /\ awaitingField' = [awaitingField EXCEPT ![c] = "confirmation"]
      BY <1>6 DEF Propose, Await
    <2>4. /\ \A d \in Customer \ {c} :
               pc'[d] = pc[d] /\ forced'[d] = forced[d] /\ target'[d] = target[d]
          /\ pc'[c] \in {"idle", "execute"} /\ forced'[c] = None
      BY <1>0, <2>1, ReturnEnds
    <2>5. \A d \in Customer \ {c} :
            /\ pending'[d] = pending[d] /\ awaitingConfirmation'[d] = awaitingConfirmation[d]
            /\ awaitingField'[d] = awaitingField[d]
      BY <1>0, <2>1, <2>3 DEF TypeOK
    <2>6. ASSUME NEW d \in Customer
          PROVE  /\ PostInFlight(d)' /\ CancelInFlight(d)'
                 /\ OfferStands(d)' /\ FieldMeansFlag(d)'
      <3>1. CASE d = c
        BY <1>0, <2>2, <2>3, <2>4, <3>1, NoneAssumption
        DEF IInv, Core, TokensAreUsed, PostInFlight, CancelInFlight, OfferStands,
            FieldMeansFlag, Sent, TypeOK
      <3>2. CASE d # c
        <4>1. PostInFlight(d) /\ CancelInFlight(d) /\ OfferStands(d) /\ FieldMeansFlag(d)
          BY DEF IInv, Core
        <4> QED
          BY <2>3, <2>4, <2>5, <3>2, <4>1
          DEF PostInFlight, CancelInFlight, OfferStands, FieldMeansFlag, Sent, Owns, InStore, Total
      <3> QED
        BY <3>1, <3>2
    <2>7. TokensAreUsed' /\ TokensDiffer'
      BY <2>2, <2>3, <2>5 DEF IInv, Core, TokensAreUsed, TokensDiffer, Sent
    <2>8. OnePostPerProposal' /\ ConfirmedOrdersExist' /\ MismatchesReachAPerson'
      BY <2>3 DEF IInv, Core, OnePostPerProposal, ConfirmedOrdersExist,
                  MismatchesReachAPerson, Owns, InStore, Sent
    <2> QED
      BY <2>6, <2>7, <2>8 DEF Core
  <1> QED
    BY <1>2, <1>3, <1>4, <1>5, <1>6 DEF ProposeOrder

\* A confirmation that goes through, for an order known to be c's and to have
\* been posted at the total of its proposal.
LEMMA FinalizeKeeps ==
  ASSUME IInv, NEW c \in Customer, NEW id \in OrderId, pc[c] \in {"posting", "lookup"},
         InStore(id), orders[id].customer = c, orders[id].agreed = Total(pending[c]),
         Finalize(c, id)
  PROVE  Core'
  <1>1. /\ TypeOK /\ PostInFlight(c) /\ OfferStands(c) /\ FieldMeansFlag(c)
    BY DEF IInv, Core
  <1>2. /\ \A d \in Customer \ {c} :
              pc'[d] = pc[d] /\ forced'[d] = forced[d] /\ target'[d] = target[d]
        /\ pc'[c] \in {"idle", "execute"} /\ forced'[c] = None
    BY <1>1, ReturnEnds DEF Finalize
  <1>3. PICK verified \in StoreTotalMatches(pending[c], id) :
          /\ lastConfirmed' = [lastConfirmed EXCEPT
               ![c] = [order_id |-> id, total_verified |-> verified]]
          /\ IF verified = "differs" THEN Escalate(c, "total_mismatch") ELSE UNCHANGED escalation
    BY DEF Finalize
  <1>4. /\ pending' = [pending EXCEPT ![c] = None]
        /\ UNCHANGED <<awaitingConfirmation, awaitingField, orders, usedTokens>>
    BY DEF Finalize, storeVars
  <1>5. /\ orders[id].total # orders[id].agreed =>
             (verified = "differs" /\ escalation'[c] # None) \/ verified = "unknown"
        /\ \A d \in Customer : escalation[d] # None => escalation'[d] # None
    <2>1. verified = "differs" => escalation'[c] # None
      BY <1>1, <1>3, NoneAssumption DEF Escalate, Reasons, TypeOK
    <2>2. \A d \in Customer : escalation[d] # None => escalation'[d] # None
      BY <1>1, <1>3, NoneAssumption DEF Escalate, Reasons, TypeOK
    <2>3. orders[id].total # orders[id].agreed => verified \in {"differs", "unknown"}
      BY <1>3 DEF StoreTotalMatches
    <2> QED
      BY <2>1, <2>2, <2>3
  <1>6. ASSUME NEW d \in Customer
        PROVE  /\ PostInFlight(d)' /\ CancelInFlight(d)'
               /\ OfferStands(d)' /\ FieldMeansFlag(d)'
    <2>1. CASE d = c
      BY <1>1, <1>2, <1>4, <2>1, NoneAssumption
      DEF PostInFlight, CancelInFlight, OfferStands, FieldMeansFlag
    <2>2. CASE d # c
      <3>1. PostInFlight(d) /\ CancelInFlight(d) /\ OfferStands(d) /\ FieldMeansFlag(d)
        BY DEF IInv, Core
      <3>2. pending'[d] = pending[d]
        BY <1>1, <1>4, <2>2 DEF TypeOK
      <3> QED
        BY <1>2, <1>4, <2>2, <3>1, <3>2
        DEF PostInFlight, CancelInFlight, OfferStands, FieldMeansFlag, Sent, Owns, InStore, Total
    <2> QED
      BY <2>1, <2>2
  <1>7. TokensAreUsed' /\ TokensDiffer' /\ OnePostPerProposal'
    BY <1>1, <1>4
    DEF IInv, Core, TokensAreUsed, TokensDiffer, OnePostPerProposal, Sent, TypeOK
  <1>8. ASSUME NEW d \in Customer, lastConfirmed'[d] # None
        PROVE  Owns(d, lastConfirmed[d].order_id)' /\ MismatchSeen(d)'
    <2>1. CASE d = c
      <3>1. lastConfirmed'[d] = [order_id |-> id, total_verified |-> verified]
        BY <1>1, <1>3, <2>1 DEF TypeOK
      <3> QED
        BY <1>4, <1>5, <2>1, <3>1 DEF Owns, InStore, Sent, MismatchSeen
    <2>2. CASE d # c
      <3>1. lastConfirmed'[d] = lastConfirmed[d]
        BY <1>1, <1>3, <2>2 DEF TypeOK
      <3>2. Owns(d, lastConfirmed[d].order_id) /\ MismatchSeen(d)
        BY <1>8, <3>1, MismatchesSeen DEF IInv, Core, ConfirmedOrdersExist
      <3> QED
        BY <1>4, <1>5, <3>1, <3>2 DEF Owns, InStore, Sent, MismatchSeen
    <2> QED
      BY <2>1, <2>2
  <1>9. ConfirmedOrdersExist' /\ MismatchesReachAPerson'
    BY <1>8, MismatchesSeen DEF ConfirmedOrdersExist, MismatchSeen
  <1> QED
    BY <1>6, <1>7, <1>9 DEF Core

LEMMA HandsBackKeeps ==
  ASSUME IInv, NEW c \in Customer, pc[c] \in {"posting", "lookup"}, HandsBack(c)
  PROVE  Core'
  <1>1. /\ TypeOK /\ PostInFlight(c) /\ OfferStands(c) /\ FieldMeansFlag(c)
    BY DEF IInv, Core
  <1>2. Quiet(c)
    BY <1>1, FailedEnds, EndsQuietly
    DEF HandsBack, PostInFlight, FieldMeansFlag, TypeOK, Proposal, storeVars
  <1> QED
    BY <1>2, QuietKeeps

\* The POST leaves: the offer is used up and its token is on an order, the
\* only one that ever carries it.
LEMMA SubmitKeeps ==
  ASSUME IInv, NEW c \in Customer, NEW id \in OrderId, ConfirmSubmits(c, id)
  PROVE  Core'
  <1> DEFINE sent == [customer |-> c, token |-> pending[c].token,
                      product |-> pending[c].product, quantity |-> pending[c].quantity,
                      agreed |-> Total(pending[c]), offered |-> replied[c], total |-> 0,
                      status |-> "sent"]
  <1>1. /\ TypeOK /\ OfferStands(c) /\ FieldMeansFlag(c) /\ awaitingConfirmation[c]
        /\ pending[c] \in Proposal /\ orders[id] = None
    BY DEF IInv, Core, ConfirmSubmits, MayConfirm, TypeOK
  <1>2. sent \in Order /\ sent # None
    <2>1. Total(pending[c]) \in Totals /\ replied[c] \in Quote \cup {None}
      BY <1>1 DEF Total, Totals, Proposal, TypeOK
    <2> QED
      BY <1>1, <2>1, NoneAssumption DEF Order, Proposal
  <1>3. /\ orders' = [orders EXCEPT ![id] = sent]
        /\ pending' = [pending EXCEPT ![c] = [pending[c] EXCEPT !.status = "submitting"]]
        /\ target' = [target EXCEPT ![c] = id] /\ pc' = [pc EXCEPT ![c] = "posting"]
        /\ awaitingConfirmation' = [awaitingConfirmation EXCEPT ![c] = FALSE]
        /\ awaitingField' = [awaitingField EXCEPT ![c] = None]
        /\ UNCHANGED <<lastConfirmed, escalation, forced, usedTokens>>
    BY NoneAssumption DEF ConfirmSubmits, Await, AwaitingFields
  <1>4. /\ pending'[c] # None /\ pending'[c].token = pending[c].token
        /\ pending'[c].status = "submitting" /\ Total(pending[c])' = Total(pending[c])
    <2>1. pending'[c] = [pending[c] EXCEPT !.status = "submitting"]
      BY <1>1, <1>3 DEF TypeOK
    <2>2. pending'[c] \in Proposal
      BY <1>1, <2>1 DEF Proposal
    <2> QED
      BY <1>1, <2>1, <2>2, NoneAssumption DEF Proposal, Total
  <1>5. /\ orders'[id] = sent
        /\ \A other \in OrderId \ {id} : orders'[other] = orders[other]
    BY <1>1, <1>3 DEF TypeOK
  <1>6. \A d \in Customer \ {c} :
          /\ pending'[d] = pending[d] /\ pc'[d] = pc[d] /\ target'[d] = target[d]
          /\ awaitingConfirmation'[d] = awaitingConfirmation[d]
          /\ awaitingField'[d] = awaitingField[d]
    BY <1>1, <1>3 DEF TypeOK
  <1>7. ASSUME NEW d \in Customer
        PROVE  /\ PostInFlight(d)' /\ CancelInFlight(d)'
               /\ OfferStands(d)' /\ FieldMeansFlag(d)'
    <2>1. CASE d = c
      <3>1. PostInFlight(c)'
        BY <1>1, <1>2, <1>3, <1>4, <1>5 DEF PostInFlight, Sent, TypeOK
      <3>2. CancelInFlight(c)' /\ OfferStands(c)' /\ FieldMeansFlag(c)'
        BY <1>1, <1>3, NoneAssumption
        DEF CancelInFlight, OfferStands, FieldMeansFlag, AwaitingFields, TypeOK
      <3> QED
        BY <2>1, <3>1, <3>2
    <2>2. CASE d # c
      <3>1. PostInFlight(d) /\ CancelInFlight(d) /\ OfferStands(d) /\ FieldMeansFlag(d)
        BY DEF IInv, Core
      <3>2. orders[id] = None => \A other \in OrderId : Sent(other) => orders'[other] = orders[other]
        BY <1>5 DEF Sent
      <3>3. PostInFlight(d)' /\ CancelInFlight(d)' /\ FieldMeansFlag(d)'
        BY <1>1, <1>3, <1>6, <2>2, <3>1, <3>2
        DEF PostInFlight, CancelInFlight, FieldMeansFlag, Sent, Owns, InStore, Total
      <3>4. awaitingConfirmation[d] => pending[d] # None /\ pending[d].token # sent.token
        BY <1>1, <2>2, <3>1, NoneAssumption DEF IInv, Core, TokensDiffer, OfferStands
      <3>5. OfferStands(d)'
        BY <1>5, <1>6, <2>2, <3>1, <3>4 DEF OfferStands, Sent
      <3> QED
        BY <3>3, <3>5
    <2> QED
      BY <2>1, <2>2
  <1>8. TokensAreUsed' /\ TokensDiffer'
    BY <1>1, <1>3, <1>4, <1>5, <1>6, NoneAssumption
    DEF IInv, Core, TokensAreUsed, TokensDiffer, Sent
  <1>9. OnePostPerProposal'
    BY <1>1, <1>5, NoneAssumption DEF IInv, Core, OnePostPerProposal, OfferStands, Sent
  <1>10. ConfirmedOrdersExist' /\ MismatchesReachAPerson'
    BY <1>1, <1>2, <1>3, <1>5
    DEF IInv, Core, ConfirmedOrdersExist, MismatchesReachAPerson, Owns, InStore, Sent, TypeOK
  <1> QED
    BY <1>7, <1>8, <1>9, <1>10 DEF Core

LEMMA ConfirmKeeps ==
  ASSUME IInv, NEW c \in Customer, ConfirmOrder(c)
  PROVE  Core'
  <1>0. /\ TypeOK /\ PostInFlight(c) /\ OfferStands(c) /\ FieldMeansFlag(c)
        /\ OnePostPerProposal
        /\ None \notin AwaitingFields
    BY NoneAssumption DEF IInv, Core
  <1>1. CASE ConfirmRefused(c)
    <2>1. Quiet(c)
      BY <1>0, <1>1, EndsQuietly
      DEF ConfirmRefused, NoVerdict, Await, AwaitingFields, TypeOK, storeVars
    <2> QED
      BY <2>1, QuietKeeps
  <1>2. CASE ConfirmRepeated(c)
    <2>1. Quiet(c)
      BY <1>0, <1>2, EndsQuietly
      DEF ConfirmRepeated, Await, AwaitingFields, TypeOK, storeVars
    <2> QED
      BY <2>1, QuietKeeps
  <1>3. CASE ConfirmNeedsReview(c)
    <2>1. Quiet(c)
      BY <1>0, <1>3, EndsQuietly
      DEF ConfirmNeedsReview, Escalate, Await, AwaitingFields, TypeOK, storeVars
    <2> QED
      BY <2>1, QuietKeeps
  <1>4. CASE ConfirmReprices(c)
    <2> DEFINE repriced == [pending[c] EXCEPT !.unit_price = catalogue[pending[c].product]]
    <2>1. /\ pending[c] \in Proposal /\ repriced \in Proposal /\ awaitingConfirmation[c]
          /\ pending[c].status = "pending"
      BY <1>0, <1>4 DEF ConfirmReprices, MayConfirm, TypeOK, Proposal
    <2>2. /\ repriced # None /\ repriced.token = pending[c].token
          /\ repriced.status = "pending"
      BY <2>1, NoneAssumption DEF Proposal
    <2>3. pending' = [pending EXCEPT ![c] = repriced] /\ \E i, quote : Return(c, i, quote)
      BY <1>4 DEF ConfirmReprices
    <2> HIDE DEF repriced
    <2>4. /\ awaitingConfirmation' = [awaitingConfirmation EXCEPT ![c] = TRUE]
          /\ awaitingField' = [awaitingField EXCEPT ![c] = "confirmation"]
          /\ UNCHANGED <<lastConfirmed, escalation, orders, usedTokens>>
      BY <1>4 DEF ConfirmReprices, Await, storeVars
    <2>5. /\ pending'[c] = repriced /\ awaitingConfirmation'[c]
          /\ \A d \in Customer \ {c} :
               /\ pending'[d] = pending[d] /\ awaitingConfirmation'[d] = awaitingConfirmation[d]
               /\ awaitingField'[d] = awaitingField[d]
      BY <1>0, <2>3, <2>4 DEF TypeOK
    <2>6. Quiet(c)
      BY <1>0, <2>1, <2>2, <2>3, <2>4, <2>5, EndsQuietly, NoneAssumption
    <2> QED
      BY <2>6, QuietKeeps
  <1>5. CASE PostReturns(c)
    BY <1>0, <1>5, FinalizeKeeps DEF PostReturns, PostInFlight
  <1>6. CASE PostFails(c)
    BY <1>6, HandsBackKeeps DEF PostFails
  <1>7. CASE AnswerHasNoId(c)
    <2>1. Quiet(c)
      BY <1>0, <1>7, FailedEnds, EndsQuietly
      DEF AnswerHasNoId, PostInFlight, FieldMeansFlag, storeVars
    <2> QED
      BY <2>1, QuietKeeps
  <1>8. CASE PostTimesOut(c)
    <2>1. ASSUME NEW d \in Customer
          PROVE  /\ PostInFlight(d)' /\ CancelInFlight(d)'
                 /\ OfferStands(d)' /\ FieldMeansFlag(d)'
      <3>1. PostInFlight(d) /\ CancelInFlight(d) /\ OfferStands(d) /\ FieldMeansFlag(d)
        BY DEF IInv, Core
      <3> QED
        BY <1>0, <1>8, <3>1
        DEF PostTimesOut, PostInFlight, CancelInFlight, OfferStands, FieldMeansFlag, Sent, Owns,
            InStore, Total, memoryVars, storeVars, TypeOK
    <2>2. /\ TokensAreUsed' /\ TokensDiffer' /\ OnePostPerProposal'
          /\ ConfirmedOrdersExist' /\ MismatchesReachAPerson'
      BY <1>8
      DEF IInv, Core, PostTimesOut, TokensAreUsed, TokensDiffer, OnePostPerProposal,
          ConfirmedOrdersExist, MismatchesReachAPerson, Owns, InStore, Sent, memoryVars, storeVars
    <2> QED
      BY <2>1, <2>2 DEF Core
  <1>9. ASSUME NEW id \in OrderId, LookupFinds(c, id)
        PROVE  Core'
    <2>1. /\ pc[c] = "lookup" /\ InStore(id) /\ orders[id].token = pending[c].token
          /\ Finalize(c, id)
      BY <1>9 DEF LookupFinds, FoundByToken
    <2>2. id = target[c]
      BY <1>0, <2>1 DEF PostInFlight, OnePostPerProposal, InStore
    <2> QED
      BY <1>0, <2>1, <2>2, FinalizeKeeps DEF PostInFlight
  <1>10. CASE LookupFindsNothing(c)
    BY <1>10, HandsBackKeeps DEF LookupFindsNothing
  <1> QED
    BY <1>1, <1>2, <1>3, <1>4, <1>5, <1>6, <1>7, <1>8, <1>9, <1>10, SubmitKeeps DEF ConfirmOrder

LEMMA OrdersKeptKeeps ==
  ASSUME IInv, OrdersKept,
         UNCHANGED <<pending, awaitingConfirmation, awaitingField, lastConfirmed, escalation,
                     pc, forced, target, usedTokens>>
  PROVE  Core'
  <1>1. ASSUME NEW c \in Customer
        PROVE  /\ PostInFlight(c)' /\ CancelInFlight(c)'
               /\ OfferStands(c)' /\ FieldMeansFlag(c)'
    <2>1. PostInFlight(c) /\ CancelInFlight(c) /\ OfferStands(c) /\ FieldMeansFlag(c)
      BY DEF IInv, Core
    <2>2. PostInFlight(c)'
      BY <2>1 DEF PostInFlight, OrdersKept, Total
    <2>3. CancelInFlight(c)'
      BY <2>1 DEF CancelInFlight, OrdersKept, Owns, InStore
    <2>4. OfferStands(c)' /\ FieldMeansFlag(c)'
      BY <2>1 DEF OfferStands, FieldMeansFlag, OrdersKept
    <2> QED
      BY <2>2, <2>3, <2>4
  <1>2. TokensAreUsed' /\ TokensDiffer' /\ OnePostPerProposal'
    BY DEF IInv, Core, TokensAreUsed, TokensDiffer, OnePostPerProposal, OrdersKept
  <1>3. ASSUME NEW c \in Customer, lastConfirmed[c] # None
        PROVE  Owns(c, lastConfirmed[c].order_id)' /\ MismatchSeen(c)'
    <2>1. PICK id \in OrderId : id = lastConfirmed[c].order_id
      BY <1>3 DEF IInv, TypeOK, Confirmation
    <2>2. InStore(id) /\ orders[id].customer = c /\ MismatchSeen(c)
      BY <1>3, <2>1, MismatchesSeen DEF IInv, Core, ConfirmedOrdersExist, Owns
    <2>3. /\ InStore(id)' /\ orders'[id].customer = c
          /\ orders'[id].total = orders[id].total /\ orders'[id].agreed = orders[id].agreed
      BY <2>2 DEF OrdersKept, InStore
    <2> QED
      BY <2>1, <2>2, <2>3 DEF Owns, InStore, Sent, MismatchSeen
  <1>4. ConfirmedOrdersExist' /\ MismatchesReachAPerson'
    BY <1>3, MismatchesSeen DEF ConfirmedOrdersExist, MismatchSeen
  <1> QED
    BY <1>1, <1>2, <1>4 DEF Core

LEMMA StatusChangeKept ==
  ASSUME TypeOK, NEW id \in OrderId, InStore(id), NEW status \in StoreStatus,
         orders' = [orders EXCEPT ![id].status = status]
  PROVE  OrdersKept
  <1>1. orders[id] \in Order /\ orders'[id] = [orders[id] EXCEPT !.status = status]
    BY DEF TypeOK, InStore, Sent
  <1>2. /\ orders'[id] # None /\ orders'[id].customer = orders[id].customer
        /\ orders'[id].token = orders[id].token /\ orders'[id].agreed = orders[id].agreed
        /\ orders'[id].product = orders[id].product
        /\ orders'[id].quantity = orders[id].quantity /\ orders'[id].offered = orders[id].offered
        /\ orders'[id].total = orders[id].total /\ orders'[id].status = status
    <2>1. orders'[id] \in Order
      BY <1>1 DEF Order
    <2> QED
      BY <1>1, <2>1, NoneAssumption DEF Order
  <1>3. \A other \in OrderId \ {id} : orders'[other] = orders[other]
    BY DEF TypeOK
  <1> QED
    BY <1>1, <1>2, <1>3 DEF OrdersKept, InStore, Sent

LEMMA CancelKeeps ==
  ASSUME IInv, NEW c \in Customer, CancelOrder(c)
  PROVE  Core'
  <1>0. /\ TypeOK /\ CancelInFlight(c) /\ OfferStands(c) /\ FieldMeansFlag(c)
        /\ None \notin AwaitingFields
    BY NoneAssumption DEF IInv, Core
  <1>1. CASE CancelFindsNoOrder(c)
    <2>1. Quiet(c)
      BY <1>0, <1>1, EndsQuietly
      DEF CancelFindsNoOrder, NoVerdict, Await, AwaitingFields, TypeOK, storeVars
    <2> QED
      BY <2>1, QuietKeeps
  <1>2. ASSUME NEW id \in OrderId, CancelDeclines(c, id)
        PROVE  Core'
    <2>1. Quiet(c)
      BY <1>0, <1>2, EndsQuietly
      DEF CancelDeclines, Await, AwaitingFields, TypeOK, storeVars
    <2> QED
      BY <2>1, QuietKeeps
  <1>3. ASSUME NEW id \in OrderId, CancelProceeds(c, id)
        PROVE  Core'
    <2>1. ASSUME NEW d \in Customer
          PROVE  /\ PostInFlight(d)' /\ CancelInFlight(d)'
                 /\ OfferStands(d)' /\ FieldMeansFlag(d)'
      <3>1. PostInFlight(d) /\ CancelInFlight(d) /\ OfferStands(d) /\ FieldMeansFlag(d)
        BY DEF IInv, Core
      <3> QED
        BY <1>0, <1>3, <3>1
        DEF CancelProceeds, Await, AwaitingFields, PostInFlight, CancelInFlight, OfferStands,
            FieldMeansFlag, Sent, Owns, InStore, Total, storeVars, TypeOK
    <2>2. /\ TokensAreUsed' /\ TokensDiffer' /\ OnePostPerProposal'
          /\ ConfirmedOrdersExist' /\ MismatchesReachAPerson'
      BY <1>3
      DEF IInv, Core, CancelProceeds, TokensAreUsed, TokensDiffer, OnePostPerProposal,
          ConfirmedOrdersExist, MismatchesReachAPerson, Owns, InStore, Sent, storeVars
    <2> QED
      BY <2>1, <2>2 DEF Core
  <1>4. ASSUME pc[c] = "cancelling", Return(c, None, None),
               orders' \in {orders, [orders EXCEPT ![target[c]].status = "cancelled"]},
               lastConfirmed' \in {lastConfirmed, [lastConfirmed EXCEPT ![c] = None]},
               UNCHANGED <<pending, awaitingConfirmation, awaitingField, escalation, usedTokens>>
        PROVE  Core'
    <2>1. target[c] \in OrderId /\ InStore(target[c])
      BY <1>0, <1>4 DEF CancelInFlight, Owns
    <2>2. OrdersKept
      BY <1>0, <1>4, <2>1, UntouchedKept, StatusChangeKept DEF StoreStatus
    <2>3. lastConfirmed'[c] \in {lastConfirmed[c], None}
      BY <1>0, <1>4 DEF TypeOK
    <2>4. \A d \in Customer \ {c} : lastConfirmed'[d] = lastConfirmed[d]
      BY <1>0, <1>4 DEF TypeOK
    <2>5. Quiet(c)
      BY <1>0, <1>4, <2>2, <2>3, <2>4, ReturnEnds, NoneAssumption
      DEF Quiet, OthersUntouched, OfferStands, FieldMeansFlag
    <2> QED
      BY <2>5, QuietKeeps
  <1>5. CASE CancelReturns(c)
    <2>1. lastConfirmed' \in {lastConfirmed, [lastConfirmed EXCEPT ![c] = None]}
      BY <1>5 DEF CancelReturns
    <2> QED
      BY <1>4, <1>5, <2>1 DEF CancelReturns
  <1>6. CASE CancelFails(c)
    BY <1>4, <1>6 DEF CancelFails, NoVerdict
  <1> QED
    BY <1>1, <1>2, <1>3, <1>5, <1>6 DEF CancelOrder

\* Sessions that are forgotten keep no offer and no order; only Restart comes
\* while a turn waits for the store, and it ends the turn.
LEMMA ForgetsKeeps ==
  ASSUME IInv, NEW cs \in SUBSET Customer, Forgets(cs), UNCHANGED <<orders, usedTokens>>,
         \A c \in Customer :
           \/ pc'[c] = pc[c] /\ forced'[c] = forced[c] /\ target'[c] = target[c]
           \/ pc'[c] = "idle" /\ forced'[c] = None,
         \A c \in cs : pc'[c] \in {"idle", "deciding"}
  PROVE  Core'
  <1>1. TypeOK /\ UNCHANGED orders /\ OrdersKept
    BY UntouchedKept DEF IInv
  <1>2. ASSUME NEW c \in Customer
        PROVE  IF c \in cs
               THEN /\ pending'[c] = None /\ ~awaitingConfirmation'[c]
                    /\ awaitingField'[c] = None /\ lastConfirmed'[c] = None
               ELSE /\ pending'[c] = pending[c]
                    /\ awaitingConfirmation'[c] = awaitingConfirmation[c]
                    /\ awaitingField'[c] = awaitingField[c]
                    /\ lastConfirmed'[c] = lastConfirmed[c] /\ escalation'[c] = escalation[c]
    BY DEF Forgets
  <1>3. ASSUME NEW c \in Customer
        PROVE  /\ PostInFlight(c)' /\ CancelInFlight(c)'
               /\ OfferStands(c)' /\ FieldMeansFlag(c)'
    <2>1. PostInFlight(c) /\ CancelInFlight(c) /\ OfferStands(c) /\ FieldMeansFlag(c)
      BY DEF IInv, Core
    <2>2. CASE c \in cs
      BY <1>2, <2>1, <2>2, NoneAssumption
      DEF PostInFlight, CancelInFlight, OfferStands, FieldMeansFlag, AwaitingFields
    <2>3. CASE c \notin cs
      BY <1>1, <1>2, <2>1, <2>3, NoneAssumption
      DEF PostInFlight, CancelInFlight, OfferStands, FieldMeansFlag, Sent, Owns, InStore, Total
    <2> QED
      BY <2>2, <2>3
  <1>4. TokensAreUsed' /\ TokensDiffer' /\ OnePostPerProposal'
    BY <1>2 DEF IInv, Core, TokensAreUsed, TokensDiffer, OnePostPerProposal, Sent
  <1>5. ConfirmedOrdersExist' /\ MismatchesReachAPerson'
    BY <1>2
    DEF IInv, Core, ConfirmedOrdersExist, MismatchesReachAPerson, Owns, InStore, Sent
  <1> QED
    BY <1>3, <1>4, <1>5 DEF Core

LEMMA EnvironmentKeeps ==
  ASSUME IInv, Environment
  PROVE  Core'
  <1>0. TypeOK
    BY DEF IInv
  <1>1. ASSUME NEW c \in Customer, Expire(c)
        PROVE  Core'
    <2>1. /\ Forgets({c}) /\ pc[c] \in {"idle", "deciding"}
          /\ UNCHANGED <<orders, usedTokens, pc, forced, target>>
      BY <1>1 DEF Expire, turnVars, storeVars
    <2>2. {c} \in SUBSET Customer
      OBVIOUS
    <2> QED
      BY <2>1, <2>2, ForgetsKeeps
  <1>2. ASSUME NEW c \in Customer, ReplyArrives(c)
        PROVE  Core'
    BY <1>2, UntouchedKept, OrdersKeptKeeps DEF ReplyArrives, memoryVars, turnVars, storeVars
  <1>3. CASE Restart
    <2>1. Forgets(Customer) /\ UNCHANGED <<orders, usedTokens>>
      BY <1>3 DEF Restart, storeVars
    <2>2. \A c \in Customer : pc'[c] = "idle" /\ forced'[c] = None
      BY <1>3 DEF Restart
    <2> QED
      BY <2>1, <2>2, ForgetsKeeps
  <1>4. ASSUME OrdersKept, UNCHANGED <<memoryVars, turnVars, usedTokens>>
        PROVE  Core'
    BY <1>4, OrdersKeptKeeps DEF memoryVars, turnVars
  <1>5. CASE SyncBegins \/ SyncEnds \/ \E p \in Product, u \in Price : StoreReprices(p, u)
    BY <1>4, <1>5, UntouchedKept DEF SyncBegins, SyncEnds, StoreReprices, storeVars
  <1>6. ASSUME NEW id \in OrderId, StoreCreates(id) \/ StoreRejects(id)
        PROVE  Core'
    BY <1>0, <1>4, <1>6, StoreAnswersKept DEF StoreCreates, StoreRejects
  <1>7. ASSUME NEW id \in OrderId, NEW status \in StoreStatus, StaffMoves(id, status)
        PROVE  Core'
    <2>1. InStore(id)
      BY <1>7 DEF StaffMoves, InStore, StoreStatus
    <2>2. OrdersKept
      BY <1>0, <1>7, <2>1, StatusChangeKept DEF StaffMoves
    <2> QED
      BY <1>4, <1>7, <2>2 DEF StaffMoves
  <1> QED
    BY <1>1, <1>3, <1>5, <1>6, <1>7, <1>2 DEF Environment

-----------------------------------------------------------------------------
(* The theorems.                                                           *)

LEMMA InitInvariant ==
  ASSUME Init
  PROVE  IInv
  <1>1. TypeOK
    BY LimitsAssumption DEF Init, TypeOK
  <1>2. Core
    BY NoneAssumption
    DEF Init, Core, PostInFlight, CancelInFlight, OfferStands, FieldMeansFlag, TokensAreUsed,
        TokensDiffer, OnePostPerProposal, ConfirmedOrdersExist, MismatchesReachAPerson, Sent,
        AwaitingFields
  <1> QED
    BY <1>1, <1>2 DEF IInv

LEMMA StepInvariant ==
  ASSUME IInv, [Next]_vars
  PROVE  IInv'
  <1>1. CASE UNCHANGED vars
    BY <1>1, UntouchedKept, OrdersKeptKeeps, StepTyped
    DEF IInv, vars, memoryVars, turnVars, storeVars
  <1>2. ASSUME NEW c \in Customer, TurnStep(c)
        PROVE  Core'
    BY <1>2, ModelKeeps, ToolKeeps, ProposeKeeps, ConfirmKeeps, CancelKeeps DEF TurnStep
  <1> QED
    BY <1>1, <1>2, StepTyped, ReceiveKeeps, EnvironmentKeeps DEF IInv, Next

\* The inductive invariant holds in every reachable state.
THEOREM InvariantHolds == Spec => []IInv
  BY InitInvariant, StepInvariant, PTL DEF Spec

\* Every variable of the session, the turn, the store and the chat keeps its
\* type (services/memory.py's slots, router.py's turn).
THEOREM TypeCorrect == Spec => []TypeOK
  <1>1. IInv => TypeOK
    BY DEF IInv
  <1> QED
    BY <1>1, InvariantHolds, PTL

\* No two order POSTs ever carry the same token: confirm_order() posts a
\* proposal at most once, whatever became of the POST and whoever says yes.
THEOREM PostedOnce == Spec => []OnePostPerProposal
  <1>1. IInv => OnePostPerProposal
    BY DEF IInv, Core
  <1> QED
    BY <1>1, InvariantHolds, PTL

\* A bare "yes" that bypasses the model reaches the proposal it answers.
THEOREM BareYesConfirms == Spec => []BareYesReachesItsProposal
  <1>1. IInv => BareYesReachesItsProposal
    BY DEF IInv, Core, BareYesReachesItsProposal, MayConfirm, OfferStands, FieldMeansFlag
  <1> QED
    BY <1>1, InvariantHolds, PTL

\* The order a session calls its last confirmed one is in the store and its
\* own customer's, even when it was found by its token after a timeout.
THEOREM ConfirmedOrdersAreReal == Spec => []ConfirmedOrdersExist
  <1>1. IInv => ConfirmedOrdersExist
    BY DEF IInv, Core
  <1> QED
    BY <1>1, InvariantHolds, PTL

\* A confirmed order the store charges differently from what was agreed has its
\* session with a person, or was confirmed on an answer without a usable total
\* (_finalize_confirmation(), _store_total_matches()).
THEOREM MismatchesAreSeen == Spec => []MismatchesReachAPerson
  <1>1. IInv => MismatchesReachAPerson
    BY DEF IInv, Core
  <1> QED
    BY <1>1, InvariantHolds, PTL

-----------------------------------------------------------------------------
(* What a step may do to the store, and which turns may do it.             *)

\* What a confirmation posts is its proposal, within the limits, beside the
\* quote of the last reply.
LEMMA SubmitRecord ==
  ASSUME IInv, NEW c \in Customer, NEW id \in OrderId, ConfirmSubmits(c, id)
  PROVE  /\ MayConfirm(c) /\ pending[c] \in Proposal /\ ~OverLimit(pending[c])
         /\ orders'[id] # None
         /\ orders'[id].agreed = Total(pending[c])
         /\ orders'[id].product = pending[c].product
         /\ orders'[id].quantity = pending[c].quantity
         /\ orders'[id].offered = replied[c]
         /\ \A other \in OrderId \ {id} : orders'[other] = orders[other]
  <1> DEFINE sent == [customer |-> c, token |-> pending[c].token,
                      product |-> pending[c].product, quantity |-> pending[c].quantity,
                      agreed |-> Total(pending[c]), offered |-> replied[c], total |-> 0,
                      status |-> "sent"]
  <1>1. /\ MayConfirm(c) /\ pending[c] \in Proposal /\ ~OverLimit(pending[c])
        /\ replied[c] \in Quote \cup {None}
    BY DEF IInv, ConfirmSubmits, MayConfirm, TypeOK
  <1>2. sent \in Order
    <2>1. Total(pending[c]) \in Totals
      BY <1>1 DEF Total, Totals, Proposal
    <2> QED
      BY <1>1, <2>1 DEF Order, Proposal
  <1>3. orders' = [orders EXCEPT ![id] = sent]
    BY DEF ConfirmSubmits
  <1>4. /\ orders'[id] = sent
        /\ \A other \in OrderId \ {id} : orders'[other] = orders[other]
    BY <1>3 DEF IInv, TypeOK
  <1> QED
    BY <1>1, <1>2, <1>4, NoneAssumption

\* A step that is not a confirmation's POST leaves every order what it was for.
LEMMA StepOrders ==
  ASSUME IInv, [Next]_vars
  PROVE  OrdersKept \/ \E c \in Customer, id \in OrderId : ConfirmSubmits(c, id)
  <1>0. TypeOK
    BY DEF IInv
  <1>1. CASE UNCHANGED vars
    BY <1>1, UntouchedKept DEF vars, storeVars
  <1>2. ASSUME NEW c \in Customer, Receive(c)
        PROVE  OrdersKept
    BY <1>2, UntouchedKept
    DEF Receive, Held, HandsOff, BareYes, BareAnswer, AskModel, Admits, storeVars
  <1>3. ASSUME NEW c \in Customer, TurnStep(c)
        PROVE  OrdersKept \/ \E id \in OrderId : ConfirmSubmits(c, id)
    <2>1. CASE (\E n \in 1 .. MaxRequests : ModelDecides(c, n)) \/ ModelFails(c) \/ EmptyMessage(c)
      BY <2>1, UntouchedKept DEF ModelDecides, ModelFails, EmptyMessage, storeVars
    <2>2. CASE Converse(c) \/ ReadOnlyTool(c) \/ ToolRaises(c) \/ EscalateToHuman(c)
      BY <2>2, UntouchedKept DEF Converse, ReadOnlyTool, ToolRaises, EscalateToHuman, storeVars
    <2>3. CASE ProposeOrder(c)
      BY <2>3, UntouchedKept
      DEF ProposeOrder, ProposeAsksProduct, ProposeAsksDetail, ProposeNotFound,
          ProposeNotLinked, Propose, storeVars
    <2>4. CASE ConfirmOrder(c)
      BY <2>4, UntouchedKept
      DEF ConfirmOrder, ConfirmRefused, ConfirmRepeated, ConfirmNeedsReview, ConfirmReprices,
          PostReturns, PostFails, AnswerHasNoId, PostTimesOut, LookupFinds,
          LookupFindsNothing, Finalize, HandsBack, storeVars
    <2>5. CASE CancelReturns(c) \/ CancelFails(c)
      <3>1. target[c] \in OrderId /\ InStore(target[c])
        BY <2>5 DEF IInv, Core, CancelInFlight, CancelReturns, CancelFails, Owns
      <3> QED
        BY <1>0, <2>5, <3>1, UntouchedKept, StatusChangeKept
        DEF CancelReturns, CancelFails, StoreStatus
    <2>6. CASE CancelFindsNoOrder(c)
               \/ \E id \in OrderId : CancelDeclines(c, id) \/ CancelProceeds(c, id)
      BY <2>6, UntouchedKept DEF CancelFindsNoOrder, CancelDeclines, CancelProceeds, storeVars
    <2> QED
      BY <1>3, <2>1, <2>2, <2>3, <2>4, <2>5, <2>6 DEF TurnStep, CancelOrder
  <1>4. CASE Environment
    <2>1. CASE (\E c \in Customer : Expire(c) \/ ReplyArrives(c)) \/ Restart
               \/ SyncBegins \/ SyncEnds \/ \E p \in Product, u \in Price : StoreReprices(p, u)
      BY <2>1, UntouchedKept
      DEF Expire, ReplyArrives, Restart, SyncBegins, SyncEnds, StoreReprices, storeVars
    <2>2. ASSUME NEW id \in OrderId, StoreCreates(id) \/ StoreRejects(id)
          PROVE  OrdersKept
      BY <1>0, <2>2, StoreAnswersKept
    <2>3. ASSUME NEW id \in OrderId, NEW status \in StoreStatus, StaffMoves(id, status)
          PROVE  OrdersKept
      BY <1>0, <2>3, StatusChangeKept DEF StaffMoves, InStore, StoreStatus
    <2> QED
      BY <1>4, <2>1, <2>2, <2>3 DEF Environment
  <1> QED
    BY <1>1, <1>2, <1>3, <1>4 DEF Next

\* No order above the review limits is ever posted (_check_order_limits()).
THEOREM NoneOverTheLimit == Spec => []NothingOverTheLimit
  <1>1. Init => NothingOverTheLimit
    BY DEF Init, NothingOverTheLimit, Sent
  <1>2. ASSUME IInv, NothingOverTheLimit, [Next]_vars
        PROVE  NothingOverTheLimit'
    <2>1. CASE OrdersKept
      BY <1>2, <2>1 DEF NothingOverTheLimit, OrdersKept
    <2>2. ASSUME NEW c \in Customer, NEW id \in OrderId, ConfirmSubmits(c, id)
          PROVE  NothingOverTheLimit'
      <3>1. /\ pending[c] \in Proposal /\ ~OverLimit(pending[c])
            /\ orders'[id] # None
            /\ orders'[id].agreed = Total(pending[c])
            /\ orders'[id].quantity = pending[c].quantity
            /\ \A other \in OrderId \ {id} : orders'[other] = orders[other]
        BY <1>2, <2>2, SubmitRecord DEF ConfirmSubmits, MayConfirm, IInv, TypeOK
      <3>2. pending[c].unit_price \in Nat /\ pending[c].quantity \in Nat
        <4>1. pending[c].unit_price \in Price /\ pending[c].quantity \in Quantity
          BY <3>1 DEF Proposal
        <4>2. Price \subseteq Nat /\ Quantity \subseteq Nat
          BY ProductsAssumption, LimitsAssumption DEF Quantity
        <4> QED
          BY <4>1, <4>2
      <3>3. Total(pending[c]) \in Nat
        BY <3>2 DEF Total
      <3>4. Total(pending[c]) <= MaxTotal /\ pending[c].quantity <= MaxOrderQuantity
        BY <3>1, <3>2, <3>3, LimitsAssumption DEF OverLimit
      <3>5. orders'[id].agreed <= MaxTotal /\ orders'[id].quantity <= MaxOrderQuantity
        BY <3>1, <3>4
      <3> QED
        BY <1>2, <3>1, <3>5 DEF NothingOverTheLimit, Sent
    <2> QED
      BY <1>2, <2>1, <2>2, StepOrders
  <1> QED
    BY <1>1, <1>2, InvariantHolds, PTL DEF Spec

=============================================================================
