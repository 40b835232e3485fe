--------------------------- MODULE OrderTurnProofs ---------------------------
(***************************************************************************)
(* More theorems about OrderSession: what holds of a turn from its first   *)
(* request to its reply.  The first section is about turns of any number   *)
(* of requests; the others are about turns of one, since a turn of two can *)
(* confirm what it proposed, and act after it escalated.                   *)
(***************************************************************************)
EXTENDS OrderSessionProofs

USE DEF Put

-----------------------------------------------------------------------------
(* Turns and flagged messages, for any number of requests.                 *)

Waiting == {"posting", "lookup", "cancelling"}

\* A turn that waits for the store has no flagged message behind it.
Clean(c) == pc[c] \in Waiting => ~flagged[c]

\* A request either ends, and with it perhaps the turn, or goes on waiting for
\* the store.
LEMMA TurnShapes ==
  ASSUME NEW c \in Customer, TurnStep(c)
  PROVE  \/ \E i, q : Return(c, i, q)
         \/ \E n \in 1 .. MaxRequests : ModelDecides(c, n)
         \/ \E id \in OrderId : ConfirmSubmits(c, id) \/ CancelProceeds(c, id)
         \/ PostTimesOut(c)
  <1> DEFINE ends == \E i, q : Return(c, i, q)
  <1>1. ASSUME NEW tool, NEW i, Failed(c, i) \/ FailedAction(c, tool, i)
        PROVE  ends
    BY <1>1 DEF Failed, FailedAction
  <1>2. ModelFails(c) \/ EmptyMessage(c) => ends
    BY <1>1 DEF ModelFails, EmptyMessage
  <1>3. Converse(c) \/ ReadOnlyTool(c) \/ ToolRaises(c) \/ EscalateToHuman(c) => ends
    BY <1>1 DEF Converse, ReadOnlyTool, ToolRaises, EscalateToHuman
  <1>4. ProposeOrder(c) => ends
    BY <1>1
    DEF ProposeOrder, ProposeAsksProduct, ProposeAsksDetail, ProposeNotFound, ProposeNotLinked,
        Propose
  <1>5. HandsBack(c) \/ (\E id \in OrderId : Finalize(c, id)) => ends
    BY <1>1 DEF HandsBack, Finalize
  <1>6. ConfirmRefused(c) \/ ConfirmRepeated(c) \/ ConfirmNeedsReview(c)
          \/ ConfirmReprices(c) => ends
    BY DEF ConfirmRefused, ConfirmRepeated, ConfirmNeedsReview, ConfirmReprices
  <1>7. AnswerHasNoId(c) \/ PostFails(c) \/ LookupFindsNothing(c)
          \/ (\E id \in OrderId : LookupFinds(c, id)) => ends
    BY <1>1, <1>5 DEF AnswerHasNoId, PostFails, LookupFindsNothing, LookupFinds
  <1>8. PostReturns(c) => ends
    BY DEF PostReturns, Finalize
  <1>9. CancelFindsNoOrder(c) \/ CancelReturns(c) \/ CancelFails(c)
          \/ (\E id \in OrderId : CancelDeclines(c, id)) => ends
    BY DEF CancelFindsNoOrder, CancelReturns, CancelFails, CancelDeclines
  <1> QED
    BY <1>2, <1>3, <1>4, <1>6, <1>7, <1>8, <1>9 DEF TurnStep, ConfirmOrder, CancelOrder

\* Where c's turn can be after a step of its own, and that nobody else's moves.
LEMMA TurnMoves ==
  ASSUME TypeOK, NEW c \in Customer, TurnStep(c)
  PROVE  /\ \A d \in Customer \ {c} : pc'[d] = pc[d] /\ flagged'[d] = flagged[d]
         /\ pc'[c] \in Waiting =>
              /\ flagged'[c] = flagged[c]
              /\ pc[c] \in Waiting \/ ~flagged[c]
              /\ pc'[c] = "posting" => ~flagged[c]
  <1>1. CASE \E i, q : Return(c, i, q)
    BY <1>1 DEF Return, TypeOK, Waiting
  <1>2. CASE \E n \in 1 .. MaxRequests : ModelDecides(c, n)
    BY <1>2 DEF ModelDecides, TypeOK, Waiting
  <1>3. ASSUME NEW id \in OrderId, ConfirmSubmits(c, id) \/ CancelProceeds(c, id)
        PROVE  /\ \A d \in Customer \ {c} : pc'[d] = pc[d] /\ flagged'[d] = flagged[d]
               /\ flagged' = flagged /\ ~flagged[c]
    BY <1>3 DEF ConfirmSubmits, CancelProceeds, Executes, WriteTools, TypeOK
  <1>4. CASE PostTimesOut(c)
    BY <1>4 DEF PostTimesOut, TypeOK, Waiting
  <1> QED
    BY <1>1, <1>2, <1>3, <1>4, TurnShapes

\* A message arrives at a turn that does not wait, and does not make it wait.
LEMMA ReceiveMoves ==
  ASSUME TypeOK, NEW c \in Customer, Receive(c)
  PROVE  /\ pc[c] = "idle" /\ pc'[c] \notin Waiting
         /\ \A d \in Customer \ {c} : pc'[d] = pc[d] /\ flagged'[d] = flagged[d]
  <1>1. CASE Held(c) \/ \E isFlagged \in BOOLEAN : HandsOff(c, isFlagged)
    BY <1>1 DEF Held, HandsOff, turnVars, Waiting
  <1>2. CASE BareYes(c)
    BY <1>2 DEF BareYes, Admits, BypassModel, TypeOK, Waiting
  <1>3. ASSUME NEW isFlagged \in BOOLEAN, BareAnswer(c, isFlagged) \/ AskModel(c, isFlagged)
        PROVE  /\ pc[c] = "idle" /\ pc'[c] \notin Waiting
               /\ \A d \in Customer \ {c} : pc'[d] = pc[d] /\ flagged'[d] = flagged[d]
    BY <1>3 DEF BareAnswer, AskModel, Admits, BypassModel, TypeOK, Waiting
  <1> QED
    BY <1>1, <1>2, <1>3 DEF Receive

LEMMA EnvironmentMoves ==
  ASSUME Environment
  PROVE  \/ UNCHANGED <<pc, flagged>>
         \/ \A c \in Customer : pc'[c] = "idle"
  BY DEF Environment, Expire, Restart, SyncBegins, SyncEnds, StoreCreates, StoreRejects,
         StaffMoves, StoreReprices, ReplyArrives, turnVars

\* A flagged message never leads to a write, whatever the model chose for it
\* and however many requests it packed into one answer (gate_tool_request()).
THEOREM FlaggedTurnsOnlyRead == Spec => FlaggedMessagesNeverWrite
  <1> DEFINE AllClean == \A c \in Customer : Clean(c)
  <1>1. Init => AllClean
    BY DEF Init, Clean, Waiting
  <1>2. ASSUME IInv, AllClean, [Next]_vars
        PROVE  AllClean' /\ [\A c \in Customer : Writes(c) => ~flagged[c]]_vars
    <2>0. TypeOK
      BY <1>2 DEF IInv
    <2>1. CASE UNCHANGED vars
      BY <1>2, <2>1 DEF vars, turnVars, Clean
    <2>2. ASSUME NEW c \in Customer, TurnStep(c)
          PROVE  AllClean' /\ \A d \in Customer : Writes(d) => ~flagged[d]
      BY <1>2, <2>0, <2>2, TurnMoves DEF Clean, Writes, Waiting
    <2>3. ASSUME NEW c \in Customer, Receive(c)
          PROVE  AllClean' /\ \A d \in Customer : Writes(d) => ~flagged[d]
      BY <1>2, <2>0, <2>3, ReceiveMoves DEF Clean, Writes, Waiting
    <2>4. CASE Environment
      BY <1>2, <2>4, EnvironmentMoves DEF Clean, Writes, Waiting
    <2> QED
      BY <1>2, <2>1, <2>2, <2>3, <2>4 DEF Next
  <1> QED
    BY <1>1, <1>2, InvariantHolds, PTL DEF Spec, FlaggedMessagesNeverWrite

-----------------------------------------------------------------------------
(* What becomes of a proposal once it is marked submitting.                *)

Marked(c) == pending[c] # None /\ pending[c].status = "submitting"
InFlight(c) == pc[c] \in {"posting", "lookup"}

\* What a step of c's turn leaves of c's own proposal: nothing, one that is
\* marked pending, the one there was, or one whose POST is in flight.  Only an
\* answer without an id ends a POST and leaves its proposal as it was.
ProposalKept(c) == pending'[c] = pending[c] /\ (InFlight(c) => AnswerHasNoId(c))
ProposalOpen(c) == pending'[c] # None => pending'[c].status = "pending"

LEMMA ConfirmMarks ==
  ASSUME IInv, NEW c \in Customer, ConfirmOrder(c)
  PROVE  /\ \A d \in Customer \ {c} : pending'[d] = pending[d]
         /\ ProposalKept(c) \/ ProposalOpen(c) \/ InFlight(c)'
  <1>0. TypeOK /\ PostInFlight(c) /\ pending[c] \in Proposal \cup {None}
    BY DEF IInv, Core, TypeOK
  <1>1. CASE ConfirmRefused(c) \/ ConfirmRepeated(c) \/ ConfirmNeedsReview(c)
             \/ AnswerHasNoId(c)
    BY <1>1
    DEF ConfirmRefused, ConfirmRepeated, ConfirmNeedsReview, AnswerHasNoId, Executes,
        ProposalKept, InFlight
  <1>2. CASE ConfirmReprices(c)
    BY <1>0, <1>2 DEF ConfirmReprices, MayConfirm, Proposal, ProposalOpen, TypeOK
  <1>3. CASE PostReturns(c) \/ \E id \in OrderId : LookupFinds(c, id)
    BY <1>0, <1>3 DEF PostReturns, LookupFinds, Finalize, ProposalOpen, TypeOK
  <1>4. CASE PostFails(c) \/ LookupFindsNothing(c)
    <2>1. pending[c] \in Proposal
      BY <1>0, <1>4 DEF PostInFlight, PostFails, LookupFindsNothing
    <2> QED
      BY <1>0, <1>4, <2>1
      DEF PostFails, LookupFindsNothing, HandsBack, Proposal, ProposalOpen, TypeOK
  <1>5. CASE PostTimesOut(c) \/ \E id \in OrderId : ConfirmSubmits(c, id)
    BY <1>0, <1>5 DEF PostTimesOut, ConfirmSubmits, memoryVars, InFlight, TypeOK
  <1> QED
    BY <1>1, <1>2, <1>3, <1>4, <1>5 DEF ConfirmOrder

LEMMA ProposeMarks ==
  ASSUME TypeOK, NEW c \in Customer, ProposeOrder(c)
  PROVE  /\ \A d \in Customer \ {c} : pending'[d] = pending[d]
         /\ ProposalKept(c) \/ ProposalOpen(c)
  <1>1. CASE ProposeAsksProduct(c)
    BY <1>1 DEF ProposeAsksProduct, Executes, ProposalKept, InFlight
  <1>2. ASSUME NEW p \in Product, NEW isPrefix \in BOOLEAN,
               ProposeNotFound(c, p, isPrefix) \/ ProposeNotLinked(c, p, isPrefix)
                 \/ ProposeAsksDetail(c, p, isPrefix)
        PROVE  /\ \A d \in Customer \ {c} : pending'[d] = pending[d]
               /\ ProposalKept(c) \/ ProposalOpen(c)
    <2>1. pc[c] = "execute" /\ pending' = Put(pending, c, SurvivingProposal(c, p, isPrefix))
      BY <1>2 DEF ProposeNotFound, ProposeNotLinked, ProposeAsksDetail, Executes
    <2>2. SurvivingProposal(c, p, isPrefix) \in {pending[c], None}
      BY DEF SurvivingProposal
    <2> QED
      BY <2>1, <2>2 DEF ProposalKept, ProposalOpen, InFlight, TypeOK
  <1>3. ASSUME NEW p \in Product, NEW q \in Quantity, NEW t \in Token, Propose(c, p, q, t)
        PROVE  (\A d \in Customer \ {c} : pending'[d] = pending[d]) /\ ProposalOpen(c)
    BY <1>3 DEF Propose, ProposalOpen, TypeOK
  <1> QED
    BY <1>1, <1>2, <1>3 DEF ProposeOrder

LEMMA TurnMarks ==
  ASSUME IInv, NEW c \in Customer, TurnStep(c)
  PROVE  /\ \A d \in Customer \ {c} : pending'[d] = pending[d]
         /\ ProposalKept(c) \/ ProposalOpen(c) \/ InFlight(c)'
  <1>0. TypeOK
    BY DEF IInv
  <1>1. CASE (\E n \in 1 .. MaxRequests : ModelDecides(c, n)) \/ ModelFails(c) \/ EmptyMessage(c)
    BY <1>1 DEF ModelDecides, ModelFails, EmptyMessage, memoryVars, ProposalKept, InFlight
  <1>2. CASE Converse(c) \/ ReadOnlyTool(c) \/ ToolRaises(c) \/ EscalateToHuman(c)
    BY <1>2
    DEF Converse, ReadOnlyTool, ToolRaises, EscalateToHuman, Executes, ProposalKept, InFlight
  <1>3. CASE CancelOrder(c)
    BY <1>3
    DEF CancelOrder, CancelFindsNoOrder, CancelReturns, CancelFails, CancelDeclines,
        CancelProceeds, Executes, ProposalKept, InFlight
  <1> QED
    BY <1>0, <1>1, <1>2, <1>3, ProposeMarks, ConfirmMarks DEF TurnStep

\* Whichever step it is, a session whose proposal is marked and whose POST is
\* not in flight after it was so before, or its POST was answered without an id.
LEMMA MarkedSteps ==
  ASSUME IInv, [Next]_vars, NEW c \in Customer, Marked(c)', ~InFlight(c)'
  PROVE  /\ Marked(c) /\ pending'[c] = pending[c]
         /\ ~InFlight(c) \/ AnswerHasNoId(c)
  <1>0. TypeOK
    BY DEF IInv
  <1>1. ASSUME pending'[c] = pending[c]
        PROVE  Marked(c)
    BY <1>1 DEF Marked
  <1>2. CASE UNCHANGED vars
    BY <1>1, <1>2 DEF vars, memoryVars, turnVars, InFlight
  <1>3. ASSUME NEW d \in Customer, Receive(d)
        PROVE  pending'[c] = pending[c] /\ ~InFlight(c)
    <2>1. UNCHANGED pending
      BY <1>3
      DEF Receive, Held, HandsOff, BareYes, BareAnswer, AskModel, Admits, memoryVars
    <2> QED
      BY <1>0, <1>3, <2>1, ReceiveMoves DEF InFlight
  <1>4. CASE TurnStep(c)
    BY <1>1, <1>4, TurnMarks DEF ProposalKept, ProposalOpen, Marked
  <1>5. ASSUME NEW d \in Customer \ {c}, TurnStep(d)
        PROVE  pending'[c] = pending[c] /\ ~InFlight(c)
    BY <1>0, <1>5, TurnMarks, TurnMoves DEF InFlight
  <1>6. CASE Environment
    <2>1. CASE (\E d \in Customer : Expire(d)) \/ Restart
      <3>1. pending'[c] = None \/ (pending'[c] = pending[c] /\ UNCHANGED pc)
        <4>1. ASSUME NEW d \in Customer, Expire(d)
              PROVE  pending'[c] \in {pending[c], None} /\ pc' = pc
          BY <4>1 DEF Expire, Forgets, turnVars
        <4>2. Restart => pending'[c] = None
          BY DEF Restart, Forgets
        <4> QED
          BY <2>1, <4>1, <4>2
      <3> QED
        BY <1>1, <3>1 DEF Marked, InFlight
    <2>2. CASE UNCHANGED <<memoryVars, turnVars>>
      BY <1>1, <2>2 DEF memoryVars, turnVars, InFlight
    <2> QED
      BY <1>6, <2>1, <2>2
      DEF Environment, ReplyArrives, SyncBegins, SyncEnds, StoreCreates, StoreRejects,
          StaffMoves, StoreReprices
  <1> QED
    BY <1>1, <1>2, <1>3, <1>4, <1>5, <1>6 DEF Next

\* While the store's answers carry an id, a proposal is marked submitting only
\* while its POST or lookup is in flight, so a yes never meets a proposal that
\* some earlier turn left marked (confirm_order()'s "submitting" status).
THEOREM SubmittingIsInFlight ==
  ASSUME "no_id" \notin Faults
  PROVE  Spec => []SubmittingMeansInFlight
  <1>1. Init => SubmittingMeansInFlight
    BY DEF Init, SubmittingMeansInFlight
  <1>2. ASSUME IInv, SubmittingMeansInFlight, [Next]_vars
        PROVE  SubmittingMeansInFlight'
    BY <1>2, MarkedSteps DEF SubmittingMeansInFlight, Marked, InFlight, AnswerHasNoId
  <1> QED
    BY <1>1, <1>2, InvariantHolds, PTL DEF Spec

-----------------------------------------------------------------------------
(* Turns of one request.  Nothing follows the request that escalates or    *)
(* proposes, so the turn is over and its reply handed over, though perhaps *)
(* not delivered, when the next yes comes.                                 *)

\* No turn is in progress while a person has the session, none holds back a
\* quote, and what a yes would accept is what its last reply quoted.
Single(c) ==
  /\ left[c] <= 1 /\ quoted[c] = None
  /\ pc[c] # "idle" => escalation[c] = None
  /\ awaitingConfirmation[c] => replied[c] = QuoteOf(pending[c])

SingleTurns == \A c \in Customer : Single(c)

OtherSessionsKept(c) ==
  \A d \in Customer \ {c} :
    /\ pending'[d] = pending[d] /\ awaitingConfirmation'[d] = awaitingConfirmation[d]
    /\ escalation'[d] = escalation[d]

NoNewOffer(c) ==
  awaitingConfirmation'[c] => awaitingConfirmation[c] /\ pending'[c] = pending[c]

\* The orders are as they were, or the one c's turn was cancelling is.
CancelsAtMost(c) ==
  \/ UNCHANGED orders
  \/ /\ target[c] \in OrderId /\ InStore(target[c])
     /\ orders' = [orders EXCEPT ![target[c]].status = "cancelled"]
     /\ UNCHANGED awaitingConfirmation

\* The three ways a step of c's turn can go, besides posting an order: the turn
\* ends with a reply, it ends with an offer, or it goes on.
Replies(c) ==
  /\ \E i : Return(c, i, None)
  /\ OtherSessionsKept(c) /\ NoNewOffer(c) /\ CancelsAtMost(c)

Offers(c) ==
  /\ \E i : Return(c, i, QuoteOf(pending'[c]))
  /\ OtherSessionsKept(c) /\ UNCHANGED orders
  /\ awaitingConfirmation'[c] /\ pending'[c] \in Proposal

GoesOn(c) ==
  /\ OtherSessionsKept(c) /\ NoNewOffer(c)
  /\ pc[c] # "idle" /\ UNCHANGED <<escalation, quoted, replied>>
  /\ \A d \in Customer \ {c} : pc'[d] = pc[d] /\ left'[d] = left[d]
  /\ left'[c] = left[c] \/ left'[c] \in 1 .. MaxRequests

LEMMA FailedReplies ==
  ASSUME TypeOK, NEW c \in Customer, NEW i, NEW tool,
         Failed(c, i) \/ FailedAction(c, tool, i)
  PROVE  /\ \E j : Return(c, j, None)
         /\ \A d \in Customer \ {c} : escalation'[d] = escalation[d]
  <1>1. CASE Failed(c, i)
    BY <1>1 DEF Failed, Escalate, TypeOK
  <1>2. CASE UNCHANGED <<failures, escalation>> /\ Return(c, i, None)
    BY <1>2
  <1> QED
    BY <1>1, <1>2 DEF FailedAction

LEMMA ModelReplies ==
  ASSUME TypeOK, NEW c \in Customer, ModelFails(c) \/ EmptyMessage(c)
  PROVE  Replies(c)
  <1>1. CASE ModelFails(c)
    BY <1>1, FailedReplies
    DEF ModelFails, Replies, OtherSessionsKept, NoNewOffer, CancelsAtMost, storeVars
  <1>2. CASE EmptyMessage(c)
    BY <1>2
    DEF EmptyMessage, Replies, OtherSessionsKept, NoNewOffer, CancelsAtMost, memoryVars, storeVars
  <1> QED
    BY <1>1, <1>2

LEMMA ToolReplies ==
  ASSUME TypeOK, NEW c \in Customer,
         Converse(c) \/ ReadOnlyTool(c) \/ ToolRaises(c) \/ EscalateToHuman(c)
  PROVE  Replies(c)
  <1>0. None # "confirmation"
    BY NoneAssumption DEF AwaitingFields
  <1>1. CASE Converse(c)
    BY <1>0, <1>1
    DEF Converse, Await, NoVerdict, Replies, OtherSessionsKept, NoNewOffer, CancelsAtMost,
        TypeOK, storeVars
  <1>2. CASE ReadOnlyTool(c)
    BY <1>2, NoneAssumption
    DEF ReadOnlyTool, Await, NoVerdict, Replies, OtherSessionsKept, NoNewOffer, CancelsAtMost,
        AwaitingFields, TypeOK, storeVars
  <1>3. CASE ToolRaises(c)
    BY <1>0, <1>3, FailedReplies
    DEF ToolRaises, Await, Replies, OtherSessionsKept, NoNewOffer, CancelsAtMost,
        TypeOK, storeVars
  <1>4. CASE EscalateToHuman(c)
    BY <1>0, <1>4
    DEF EscalateToHuman, Escalate, Await, Replies, OtherSessionsKept, NoNewOffer, CancelsAtMost,
        TypeOK, storeVars
  <1> QED
    BY <1>1, <1>2, <1>3, <1>4

LEMMA ProposeReplies ==
  ASSUME TypeOK, NEW c \in Customer, ProposeOrder(c)
  PROVE  Replies(c) \/ Offers(c)
  <1>0. None # "confirmation"
    BY NoneAssumption DEF AwaitingFields
  <1>1. CASE ProposeAsksProduct(c)
    BY <1>0, <1>1
    DEF ProposeAsksProduct, Await, NoVerdict, Replies, OtherSessionsKept, NoNewOffer,
        CancelsAtMost, TypeOK, storeVars
  <1>2. ASSUME NEW p \in Product, NEW isPrefix \in BOOLEAN,
               ProposeAsksDetail(c, p, isPrefix) \/ ProposeNotFound(c, p, isPrefix)
        PROVE  Replies(c)
    BY <1>0, <1>2
    DEF ProposeAsksDetail, ProposeNotFound, Await, NoVerdict, Replies, OtherSessionsKept,
        NoNewOffer, CancelsAtMost, TypeOK, storeVars
  <1>3. ASSUME NEW p \in Product, NEW isPrefix \in BOOLEAN, ProposeNotLinked(c, p, isPrefix)
        PROVE  Replies(c)
    BY <1>0, <1>3, FailedReplies
    DEF ProposeNotLinked, Await, Replies, OtherSessionsKept, NoNewOffer, CancelsAtMost,
        TypeOK, storeVars
  <1>4. ASSUME NEW p \in Product, NEW q \in Quantity, NEW t \in Token, Propose(c, p, q, t)
        PROVE  Offers(c)
    <2>1. PICK u \in {catalogue[p], indexed[p]} :
            LET proposal == [token |-> t, product |-> p, quantity |-> q,
                             unit_price |-> u, status |-> "pending"]
            IN  /\ pending' = [pending EXCEPT ![c] = proposal]
                /\ Return(c, "confirm", QuoteOf(proposal))
      BY <1>4 DEF Propose
    <2>2. u \in Price
      BY DEF TypeOK
    <2>3. /\ pending'[c] = [token |-> t, product |-> p, quantity |-> q,
                            unit_price |-> u, status |-> "pending"]
          /\ \A d \in Customer \ {c} : pending'[d] = pending[d]
      BY <2>1 DEF TypeOK
    <2>4. pending'[c] \in Proposal
      BY <2>2, <2>3 DEF Proposal
    <2>5. Return(c, "confirm", QuoteOf(pending'[c]))
      BY <2>1, <2>3
    <2>6. /\ awaitingConfirmation' = [awaitingConfirmation EXCEPT ![c] = TRUE]
          /\ UNCHANGED <<escalation, orders>>
      BY <1>4 DEF Propose, Await
    <2> QED
      BY <2>3, <2>4, <2>5, <2>6 DEF Offers, OtherSessionsKept, TypeOK
  <1> QED
    BY <1>1, <1>2, <1>3, <1>4 DEF ProposeOrder

LEMMA ConfirmReplies ==
  ASSUME IInv, NEW c \in Customer, ConfirmOrder(c)
  PROVE  \/ Replies(c) \/ Offers(c) \/ PostTimesOut(c)
         \/ \E id \in OrderId : ConfirmSubmits(c, id)
  <1>0. /\ TypeOK /\ None # "confirmation"
        /\ pc[c] \in {"posting", "lookup"} => ~awaitingConfirmation[c]
    BY NoneAssumption DEF IInv, Core, PostInFlight, AwaitingFields
  <1>1. CASE ConfirmRefused(c)
    BY <1>0, <1>1
    DEF ConfirmRefused, Await, NoVerdict, Replies, OtherSessionsKept, NoNewOffer, CancelsAtMost,
        TypeOK, storeVars
  <1>2. CASE ConfirmRepeated(c)
    BY <1>0, <1>2
    DEF ConfirmRepeated, Await, Replies, OtherSessionsKept, NoNewOffer, CancelsAtMost,
        TypeOK, storeVars
  <1>3. CASE ConfirmNeedsReview(c)
    BY <1>0, <1>3
    DEF ConfirmNeedsReview, Escalate, Await, Replies, OtherSessionsKept, NoNewOffer,
        CancelsAtMost, TypeOK, storeVars
  <1>4. CASE ConfirmReprices(c)
    <2> DEFINE repriced == [pending[c] EXCEPT !.unit_price = catalogue[pending[c].product]]
    <2>1. /\ pending' = [pending EXCEPT ![c] = repriced]
          /\ Return(c, "confirm", QuoteOf(repriced))
          /\ awaitingConfirmation' = [awaitingConfirmation EXCEPT ![c] = TRUE]
          /\ UNCHANGED <<escalation, orders>>
      BY <1>4 DEF ConfirmReprices, Await, storeVars
    <2>2. repriced \in Proposal
      BY <1>0, <1>4 DEF ConfirmReprices, MayConfirm, TypeOK, Proposal
    <2> HIDE DEF repriced
    <2>3. pending'[c] = repriced /\ \A d \in Customer \ {c} : pending'[d] = pending[d]
      BY <1>0, <2>1 DEF TypeOK
    <2>4. Return(c, "confirm", QuoteOf(pending'[c]))
      BY <2>1, <2>3
    <2> QED
      BY <1>0, <2>1, <2>2, <2>3, <2>4 DEF Offers, OtherSessionsKept, TypeOK
  <1>5. ASSUME NEW id \in OrderId, Finalize(c, id), pc[c] \in {"posting", "lookup"}
        PROVE  Replies(c)
    BY <1>0, <1>5
    DEF Finalize, Escalate, Replies, OtherSessionsKept, NoNewOffer, CancelsAtMost,
        TypeOK, storeVars
  <1>6. ASSUME HandsBack(c), pc[c] \in {"posting", "lookup"}
        PROVE  Replies(c)
    BY <1>0, <1>6, FailedReplies
    DEF HandsBack, Replies, OtherSessionsKept, NoNewOffer, CancelsAtMost, TypeOK, storeVars
  <1>7. CASE AnswerHasNoId(c)
    BY <1>0, <1>7, FailedReplies
    DEF AnswerHasNoId, Replies, OtherSessionsKept, NoNewOffer, CancelsAtMost, storeVars
  <1>8. CASE PostReturns(c)
    BY <1>5, <1>8 DEF PostReturns, IInv, Core, PostInFlight
  <1> QED
    BY <1>1, <1>2, <1>3, <1>4, <1>5, <1>6, <1>7, <1>8
    DEF ConfirmOrder, PostFails, LookupFinds, LookupFindsNothing

LEMMA CancelReplies ==
  ASSUME IInv, NEW c \in Customer, CancelOrder(c)
  PROVE  Replies(c) \/ \E id \in OrderId : CancelProceeds(c, id)
  <1>0. TypeOK /\ None # "confirmation"
    BY NoneAssumption DEF IInv, AwaitingFields
  <1>1. CASE CancelFindsNoOrder(c) \/ \E id \in OrderId : CancelDeclines(c, id)
    BY <1>0, <1>1
    DEF CancelFindsNoOrder, CancelDeclines, Await, NoVerdict, Replies, OtherSessionsKept,
        NoNewOffer, CancelsAtMost, TypeOK, storeVars
  <1>2. CASE CancelReturns(c) \/ CancelFails(c)
    <2>1. target[c] \in OrderId /\ InStore(target[c])
      BY <1>2 DEF IInv, Core, CancelInFlight, CancelReturns, CancelFails, Owns
    <2>2. CancelsAtMost(c)
      BY <1>2, <2>1 DEF CancelReturns, CancelFails, CancelsAtMost
    <2> QED
      BY <1>2, <2>2
      DEF CancelReturns, CancelFails, NoVerdict, Replies, OtherSessionsKept, NoNewOffer
  <1> QED
    BY <1>1, <1>2 DEF CancelOrder

\* Every step of a turn is one of the three, or posts an order and goes on.
LEMMA SessionShapes ==
  ASSUME IInv, NEW c \in Customer, TurnStep(c)
  PROVE  \/ Replies(c) \/ Offers(c)
         \/ GoesOn(c) /\ UNCHANGED orders
         \/ GoesOn(c) /\ \E id \in OrderId : ConfirmSubmits(c, id)
  <1>0. TypeOK /\ None # "confirmation"
    BY NoneAssumption DEF IInv, AwaitingFields
  <1>1. ASSUME NEW n \in 1 .. MaxRequests, ModelDecides(c, n)
        PROVE  GoesOn(c) /\ UNCHANGED orders
    BY <1>0, <1>1
    DEF ModelDecides, GoesOn, OtherSessionsKept, NoNewOffer, TypeOK, memoryVars, storeVars, chatVars
  <1>2. CASE PostTimesOut(c)
    BY <1>0, <1>2
    DEF PostTimesOut, GoesOn, OtherSessionsKept, NoNewOffer, TypeOK, memoryVars, storeVars, chatVars
  <1>3. ASSUME NEW id \in OrderId, CancelProceeds(c, id)
        PROVE  GoesOn(c) /\ UNCHANGED orders
    BY <1>0, <1>3
    DEF CancelProceeds, Executes, Await, GoesOn, OtherSessionsKept, NoNewOffer, TypeOK,
        storeVars, chatVars
  <1>4. ASSUME NEW id \in OrderId, ConfirmSubmits(c, id)
        PROVE  GoesOn(c)
    BY <1>0, <1>4
    DEF ConfirmSubmits, Executes, Await, GoesOn, OtherSessionsKept, NoNewOffer, TypeOK, chatVars
  <1> QED
    BY <1>0, <1>1, <1>2, <1>3, <1>4, ModelReplies, ToolReplies, ProposeReplies, ConfirmReplies,
       CancelReplies DEF TurnStep

\* With one request a turn, a reply ends it and carries what it quoted.
LEMMA ReturnEndsTurn ==
  ASSUME TypeOK, NEW c \in Customer, Single(c), NEW i, NEW q \in Quote \cup {None},
         Return(c, i, q)
  PROVE  /\ pc'[c] = "idle" /\ left'[c] = 0 /\ quoted'[c] = None
         /\ replied'[c] = IF q = None THEN replied[c] ELSE q
         /\ \A d \in Customer \ {c} :
              pc'[d] = pc[d] /\ left'[d] = left[d] /\ quoted'[d] = quoted[d] /\ replied'[d] = replied[d]
  <1>1. left[c] <= 1 /\ quoted[c] = None
    BY DEF Single
  <1> QED
    BY <1>1 DEF Return, TypeOK

\* A quote made of a proposal is one, and is not Python's None.
LEMMA QuotesAreQuotes ==
  ASSUME NEW p \in Proposal
  PROVE  QuoteOf(p) \in Quote /\ QuoteOf(p) # None
  <1>1. QuoteOf(p) \in Quote
    BY DEF QuoteOf, Quote, Total, Totals, Proposal
  <1> QED
    BY <1>1, NoneAssumption

\* What a step does to a session whose turn it is not.
SessionKept(d) ==
  /\ pending'[d] = pending[d] /\ awaitingConfirmation'[d] = awaitingConfirmation[d]
  /\ escalation'[d] = escalation[d]
  /\ pc'[d] = pc[d] /\ left'[d] = left[d] /\ quoted'[d] = quoted[d] /\ replied'[d] = replied[d]

LEMMA KeptStaysSingle ==
  ASSUME NEW d \in Customer, Single(d), SessionKept(d)
  PROVE  Single(d)'
  BY DEF Single, SessionKept, QuoteOf, Total

\* A turn's step leaves its own turn of one request, and everybody else's.
LEMMA TurnSingle ==
  ASSUME IInv, SingleTurns, MaxRequests = 1, NEW c \in Customer, TurnStep(c)
  PROVE  SingleTurns'
  <1>0. TypeOK /\ Single(c) /\ \A d \in Customer : Single(d)
    BY DEF IInv, SingleTurns
  <1>1. CASE Replies(c)
    <2>1. PICK i : Return(c, i, None)
      BY <1>1 DEF Replies
    <2>2. \A d \in Customer \ {c} : SessionKept(d)
      BY <1>0, <1>1, <2>1, ReturnEndsTurn DEF Replies, OtherSessionsKept, SessionKept
    <2>3. Single(c)'
      BY <1>0, <1>1, <2>1, ReturnEndsTurn DEF Replies, NoNewOffer, Single, QuoteOf, Total
    <2> QED
      BY <1>0, <2>2, <2>3, KeptStaysSingle DEF SingleTurns
  <1>2. CASE Offers(c)
    <2>1. PICK i : Return(c, i, QuoteOf(pending'[c]))
      BY <1>2 DEF Offers
    <2>2. QuoteOf(pending'[c]) \in Quote /\ QuoteOf(pending'[c]) # None
      BY <1>2, QuotesAreQuotes DEF Offers
    <2>3. \A d \in Customer \ {c} : SessionKept(d)
      BY <1>0, <1>2, <2>1, <2>2, ReturnEndsTurn DEF Offers, OtherSessionsKept, SessionKept
    <2>4. Single(c)'
      BY <1>0, <1>2, <2>1, <2>2, ReturnEndsTurn DEF Single, QuoteOf, Total
    <2> QED
      BY <1>0, <2>3, <2>4, KeptStaysSingle DEF SingleTurns
  <1>3. CASE GoesOn(c)
    <2>1. \A d \in Customer \ {c} : SessionKept(d)
      BY <1>3 DEF GoesOn, OtherSessionsKept, SessionKept
    <2>2. Single(c)'
      BY <1>0, <1>3 DEF GoesOn, NoNewOffer, Single, QuoteOf, Total
    <2> QED
      BY <1>0, <2>1, <2>2, KeptStaysSingle DEF SingleTurns
  <1> QED
    BY <1>1, <1>2, <1>3, SessionShapes

\* A message that arrives starts a turn of one request, or none.
LEMMA ReceiveSingle ==
  ASSUME IInv, SingleTurns, MaxRequests = 1, NEW c \in Customer, Receive(c)
  PROVE  /\ SingleTurns'
         /\ UNCHANGED <<orders, pending, awaitingConfirmation, replied>>
  <1>0. TypeOK /\ \A d \in Customer : Single(d)
    BY DEF IInv, SingleTurns
  <1>1. /\ UNCHANGED <<orders, pending, awaitingConfirmation, quoted, replied>>
        /\ \A d \in Customer \ {c} : SessionKept(d)
    BY <1>0
    DEF Receive, Held, HandsOff, BareYes, BareAnswer, AskModel, Admits, BypassModel, Escalate,
        SessionKept, TypeOK, memoryVars, turnVars, storeVars, chatVars
  <1>2. /\ left'[c] = left[c] \/ left'[c] = 1
        /\ pc'[c] # "idle" => escalation'[c] = None
    BY <1>0
    DEF Receive, Held, HandsOff, BareYes, BareAnswer, AskModel, Admits, BypassModel, TypeOK,
        memoryVars, turnVars
  <1>3. Single(c)'
    BY <1>0, <1>1, <1>2 DEF Single, QuoteOf, Total
  <1> QED
    BY <1>0, <1>1, <1>3, KeptStaysSingle DEF SingleTurns

\* Sessions that are forgotten stand no offer; nothing else around the turns
\* touches one.
LEMMA EnvironmentSingle ==
  ASSUME IInv, SingleTurns, Environment
  PROVE  SingleTurns'
  <1>0. \A d \in Customer : Single(d)
    BY DEF SingleTurns
  <1>1. ASSUME NEW c \in Customer, Expire(c)
        PROVE  SingleTurns'
    BY <1>0, <1>1 DEF Expire, Forgets, SingleTurns, Single, QuoteOf, Total, turnVars, chatVars
  <1>2. CASE Restart
    BY <1>0, <1>2 DEF Restart, Forgets, SingleTurns, Single
  <1>3. ASSUME UNCHANGED <<memoryVars, turnVars, quoted, replied>>
        PROVE  SingleTurns'
    BY <1>0, <1>3, KeptStaysSingle
    DEF SessionKept, SingleTurns, memoryVars, turnVars
  <1> QED
    BY <1>1, <1>2, <1>3
    DEF Environment, ReplyArrives, SyncBegins, SyncEnds, StoreCreates, StoreRejects,
          StaffMoves, StoreReprices, chatVars

LEMMA SingleStep ==
  ASSUME IInv, SingleTurns, MaxRequests = 1, [Next]_vars
  PROVE  SingleTurns'
  <1>1. CASE UNCHANGED vars
    BY <1>1, KeptStaysSingle
    DEF SingleTurns, SessionKept, vars, memoryVars, turnVars, chatVars
  <1> QED
    BY <1>1, TurnSingle, ReceiveSingle, EnvironmentSingle DEF Next

LEMMA SingleInit ==
  ASSUME Init
  PROVE  SingleTurns
  BY DEF Init, SingleTurns, Single

LEMMA SingleAlways ==
  ASSUME MaxRequests = 1
  PROVE  Spec => []SingleTurns
  <1>1. IInv /\ SingleTurns /\ [Next]_vars => SingleTurns'
    BY SingleStep
  <1> QED
    BY <1>1, SingleInit, InvariantHolds, PTL DEF Spec

\* An escalated session is left to people (_route_customer_locked()'s first
\* test): no turn of one request writes in it, not even one that began before.
THEOREM SingleTurnsLeaveEscalatedAlone ==
  ASSUME MaxRequests = 1
  PROVE  Spec => EscalatedSessionsAreLeftAlone
  <1>1. IInv /\ SingleTurns /\ [Next]_vars
          => [\A c \in Customer : Writes(c) => escalation[c] = None]_vars
    BY DEF Writes, SingleTurns, Single
  <1> QED
    BY <1>1, SingleAlways, InvariantHolds, PTL DEF Spec, EscalatedSessionsAreLeftAlone

\* Every order asked of the store is what the last reply to its customer
\* quoted, product, quantity and total (confirm_order() posts the stored
\* proposal); that the reply had arrived is not claimed.
THEOREM SingleTurnsOrderTheLastReply ==
  ASSUME MaxRequests = 1
  PROVE  Spec => []OrdersMatchTheLastReply
  <1>1. Init => OrdersMatchTheLastReply
    BY DEF Init, OrdersMatchTheLastReply, Sent
  <1>2. ASSUME IInv, SingleTurns, OrdersMatchTheLastReply, [Next]_vars
        PROVE  OrdersMatchTheLastReply'
    <2>1. CASE OrdersKept
      BY <1>2, <2>1 DEF OrdersMatchTheLastReply, OrdersKept
    <2>2. ASSUME NEW c \in Customer, NEW id \in OrderId, ConfirmSubmits(c, id)
          PROVE  OrdersMatchTheLastReply'
      <3>1. replied[c] = QuoteOf(pending[c])
        BY <1>2, <2>2 DEF ConfirmSubmits, MayConfirm, SingleTurns, Single
      <3> QED
        BY <1>2, <2>2, <3>1, SubmitRecord DEF OrdersMatchTheLastReply, QuoteOf, Sent
    <2> QED
      BY <1>2, <2>1, <2>2, StepOrders
  <1> QED
    BY <1>1, <1>2, SingleAlways, InvariantHolds, PTL DEF Spec

-----------------------------------------------------------------------------
(* The refinement: for turns of any number of requests, an offer stands    *)
(* from the moment it is quoted.                                           *)

\* What a yes would accept is what was quoted last.
Told(c) == awaitingConfirmation[c] => LastQuote(c) = QuoteOf(pending[c])
OffersTold == \A c \in Customer : Told(c)

\* A reply that ends a turn carries what the turn quoted last, and one within
\* a turn keeps it: the last quote only changes for a newer one.
LEMMA ReturnQuotes ==
  ASSUME TypeOK, NEW c \in Customer, NEW i, NEW q \in Quote \cup {None}, Return(c, i, q)
  PROVE  /\ LastQuote(c)' = IF q = None THEN LastQuote(c) ELSE q
         /\ \A d \in Customer \ {c} : LastQuote(d)' = LastQuote(d)
  BY DEF Return, LastQuote, TypeOK

\* What a step does to the offer of a session whose turn it is not.
OfferKept(d) ==
  /\ pending'[d] = pending[d] /\ awaitingConfirmation'[d] = awaitingConfirmation[d]
  /\ LastQuote(d)' = LastQuote(d)

LEMMA KeptStaysTold ==
  ASSUME NEW d \in Customer, Told(d), OfferKept(d)
  PROVE  Told(d)'
  BY DEF Told, OfferKept, QuoteOf, Total

LEMMA TurnTold ==
  ASSUME IInv, OffersTold, NEW c \in Customer, TurnStep(c)
  PROVE  OffersTold'
  <1>0. TypeOK /\ Told(c) /\ \A d \in Customer : Told(d)
    BY DEF IInv, OffersTold
  <1>1. CASE Replies(c)
    <2>1. PICK i : Return(c, i, None)
      BY <1>1 DEF Replies
    <2>2. \A d \in Customer : LastQuote(d)' = LastQuote(d)
      BY <1>0, <2>1, ReturnQuotes
    <2>3. \A d \in Customer \ {c} : OfferKept(d)
      BY <1>1, <2>2 DEF Replies, OtherSessionsKept, OfferKept
    <2>4. Told(c)'
      BY <1>0, <1>1, <2>2 DEF Replies, NoNewOffer, Told, QuoteOf, Total
    <2> QED
      BY <1>0, <2>3, <2>4, KeptStaysTold DEF OffersTold
  <1>2. CASE Offers(c)
    <2>1. PICK i : Return(c, i, QuoteOf(pending'[c]))
      BY <1>2 DEF Offers
    <2>2. QuoteOf(pending'[c]) \in Quote /\ QuoteOf(pending'[c]) # None
      BY <1>2, QuotesAreQuotes DEF Offers
    <2>3. /\ LastQuote(c)' = QuoteOf(pending'[c])
          /\ \A d \in Customer \ {c} : LastQuote(d)' = LastQuote(d)
      BY <1>0, <2>1, <2>2, ReturnQuotes
    <2>4. \A d \in Customer \ {c} : OfferKept(d)
      BY <1>2, <2>3 DEF Offers, OtherSessionsKept, OfferKept
    <2>5. Told(c)'
      BY <2>3 DEF Told, QuoteOf, Total
    <2> QED
      BY <1>0, <2>4, <2>5, KeptStaysTold DEF OffersTold
  <1>3. CASE GoesOn(c)
    <2>1. \A d \in Customer : LastQuote(d)' = LastQuote(d)
      BY <1>3 DEF GoesOn, LastQuote
    <2>2. \A d \in Customer \ {c} : OfferKept(d)
      BY <1>3, <2>1 DEF GoesOn, OtherSessionsKept, OfferKept
    <2>3. Told(c)'
      BY <1>0, <1>3, <2>1 DEF GoesOn, NoNewOffer, Told, QuoteOf, Total
    <2> QED
      BY <1>0, <2>2, <2>3, KeptStaysTold DEF OffersTold
  <1> QED
    BY <1>1, <1>2, <1>3, SessionShapes

\* A message that arrives offers nothing and orders nothing.
LEMMA ReceiveOffersNothing ==
  ASSUME NEW c \in Customer, Receive(c)
  PROVE  UNCHANGED <<orders, pending, awaitingConfirmation, quoted, replied>>
  BY DEF Receive, Held, HandsOff, BareYes, BareAnswer, AskModel, Admits, memoryVars, storeVars,
         chatVars

LEMMA ToldStep ==
  ASSUME IInv, OffersTold, [Next]_vars
  PROVE  OffersTold'
  <1>1. ASSUME UNCHANGED <<pending, awaitingConfirmation, quoted, replied>>
        PROVE  OffersTold'
    BY <1>1, KeptStaysTold DEF OffersTold, OfferKept, LastQuote
  <1>2. CASE UNCHANGED vars
    BY <1>1, <1>2 DEF vars, memoryVars, chatVars
  <1>3. CASE \E c \in Customer : Receive(c)
    BY <1>1, <1>3, ReceiveOffersNothing
  <1>4. CASE Environment
    <2>1. ASSUME NEW c \in Customer, Expire(c)
          PROVE  OffersTold'
      BY <2>1 DEF Expire, Forgets, OffersTold, Told, LastQuote, QuoteOf, Total, chatVars
    <2>2. CASE Restart
      BY <2>2 DEF Restart, Forgets, OffersTold, Told
    <2>3. CASE UNCHANGED <<memoryVars, quoted, replied>>
      BY <1>1, <2>3 DEF memoryVars
    <2> QED
      BY <1>4, <2>1, <2>2, <2>3
      DEF Environment, ReplyArrives, SyncBegins, SyncEnds, StoreCreates, StoreRejects,
          StaffMoves, StoreReprices, chatVars
  <1> QED
    BY <1>2, <1>3, <1>4, TurnTold DEF Next

LEMMA ToldAlways == Spec => []OffersTold
  <1>1. Init => OffersTold
    BY DEF Init, OffersTold, Told
  <1> QED
    BY <1>1, ToldStep, InvariantHolds, PTL DEF Spec

\* Offers that go, whatever the reason, lapse.
LEMMA OffersLapse ==
  ASSUME UNCHANGED orders,
         \A d \in Customer : StandingOffer'[d] \in {StandingOffer[d], None}
  PROVE  [Contract!Next]_(Contract!vars)
  <1> DEFINE gone == {d \in Customer : StandingOffer'[d] = None}
  <1>1. StandingOffer' = [d \in Customer |-> IF d \in gone THEN None ELSE StandingOffer[d]]
    BY DEF StandingOffer
  <1>2. UNCHANGED AskedOrders
    BY DEF AskedOrders
  <1>3. gone \in SUBSET Customer
    OBVIOUS
  <1> HIDE DEF gone
  <1> QED
    BY <1>1, <1>2, <1>3 DEF Contract!Next, Contract!Lapse

\* What the contract sees of one order.
Stage(o) ==
  IF o.status = "sent" THEN "asked"
  ELSE IF o.status \in {"on-hold", "processing"} THEN "open" ELSE "closed"
Agreed(o) ==
  [customer |-> o.customer,
   quote |-> [product |-> o.product, quantity |-> o.quantity, total |-> o.agreed],
   status |-> Stage(o)]

\* An order that moves on in the store moves on in the contract, or stays
\* where it is there.
LEMMA OrderProgresses ==
  ASSUME TypeOK, UNCHANGED StandingOffer, NEW id \in OrderId, Sent(id), NEW o \in Order,
         orders' = [orders EXCEPT ![id] = o],
         o.customer = orders[id].customer, o.product = orders[id].product,
         o.quantity = orders[id].quantity, o.agreed = orders[id].agreed,
         \/ orders[id].status = "sent" /\ o.status # "sent"
         \/ orders[id].status \in {"on-hold", "processing"} /\ o.status \in StoreStatus
         \/ o.status = "cancelled" /\ orders[id].status \in StoreStatus
  PROVE  [Contract!Next]_(Contract!vars)
  <1>1. /\ orders[id] \in Order /\ orders[id] # None /\ o # None
        /\ orders'[id] = o /\ \A other \in OrderId \ {id} : orders'[other] = orders[other]
    BY NoneAssumption DEF TypeOK, Sent
  <1>2. AskedOrders[id] = Agreed(orders[id]) /\ AskedOrders'[id] = Agreed(o)
    BY <1>1 DEF AskedOrders, Agreed, Stage
  <1>3. \A other \in OrderId \ {id} : AskedOrders'[other] = AskedOrders[other]
    BY <1>1 DEF AskedOrders
  <1>4. Agreed(o) = [Agreed(orders[id]) EXCEPT !.status = Stage(o)]
    BY DEF Agreed
  <1>5. AskedOrders' = [AskedOrders EXCEPT ![id].status = Stage(o)]
    <2>1. AskedOrders = [other \in OrderId |-> AskedOrders[other]]
      BY DEF AskedOrders
    <2>2. AskedOrders' = [other \in OrderId |-> AskedOrders'[other]]
      BY DEF AskedOrders
    <2> QED
      BY <1>2, <1>3, <1>4, <2>1, <2>2
  <1>6. CASE Stage(o) = Stage(orders[id])
    <2>1. Agreed(o) = Agreed(orders[id])
      BY <1>6 DEF Agreed
    <2>2. AskedOrders' = AskedOrders
      BY <1>2, <1>3, <2>1 DEF AskedOrders
    <2> QED
      BY <2>2 DEF Contract!vars
  <1>7. CASE Stage(o) # Stage(orders[id])
    <2>1. AskedOrders[id] # None /\ AskedOrders[id].status = Stage(orders[id])
      <3>1. Agreed(orders[id]) \in Contract!OrderRecord
        BY <1>1 DEF Agreed, Stage, Order, Quote, Contract!OrderRecord, Contract!Status
      <3> QED
        BY <1>2, <3>1, ContractNoneAssumption DEF Agreed
    <2>2. \/ Stage(orders[id]) = "asked" /\ Stage(o) \in {"open", "closed"}
          \/ Stage(orders[id]) = "open" /\ Stage(o) = "closed"
      BY <1>1, <1>7 DEF Stage, StoreStatus
    <2>3. Stage(o) \in Contract!Status
      BY <2>2 DEF Contract!Status
    <2> QED
      BY <1>5, <2>1, <2>2, <2>3 DEF Contract!Next, Contract!Progress
  <1> QED
    BY <1>6, <1>7

\* A reply leaves every order alone and makes no offer, or cancels one.
LEMMA ReplyImplements ==
  ASSUME IInv, OffersTold, NEW c \in Customer, Replies(c)
  PROVE  [Contract!Next]_(Contract!vars)
  <1>0. TypeOK
    BY DEF IInv
  <1>1. \A d \in Customer : LastQuote(d)' = LastQuote(d)
    BY <1>0, ReturnQuotes DEF Replies
  <1>2. CASE UNCHANGED orders
    <2>1. \A d \in Customer : StandingOffer'[d] \in {StandingOffer[d], None}
      BY <1>1 DEF Replies, OtherSessionsKept, NoNewOffer, StandingOffer
    <2> QED
      BY <1>2, <2>1, OffersLapse
  <1>3. CASE /\ target[c] \in OrderId /\ InStore(target[c])
             /\ orders' = [orders EXCEPT ![target[c]].status = "cancelled"]
             /\ UNCHANGED awaitingConfirmation
    <2> DEFINE cancelled == [orders[target[c]] EXCEPT !.status = "cancelled"]
    <2>1. orders[target[c]] \in Order
      BY <1>0, <1>3 DEF InStore, Sent, TypeOK
    <2>2. /\ cancelled \in Order /\ cancelled.status = "cancelled"
          /\ cancelled.customer = orders[target[c]].customer
          /\ cancelled.product = orders[target[c]].product
          /\ cancelled.quantity = orders[target[c]].quantity
          /\ cancelled.agreed = orders[target[c]].agreed
      BY <2>1 DEF Order, StoreStatus
    <2>3. orders' = [orders EXCEPT ![target[c]] = cancelled]
      BY <1>3
    <2>4. UNCHANGED StandingOffer
      BY <1>1, <1>3 DEF StandingOffer
    <2> HIDE DEF cancelled
    <2> QED
      BY <1>0, <1>3, <2>2, <2>3, <2>4, OrderProgresses DEF InStore
  <1> QED
    BY <1>2, <1>3 DEF Replies, CancelsAtMost

LEMMA OfferImplements ==
  ASSUME IInv, OffersTold, NEW c \in Customer, Offers(c)
  PROVE  Contract!Next
  <1> DEFINE quote == QuoteOf(pending'[c])
  <1>0. TypeOK
    BY DEF IInv
  <1>1. quote \in Quote /\ quote # None
    BY QuotesAreQuotes DEF Offers
  <1>2. PICK i : Return(c, i, quote)
    BY DEF Offers
  <1>3. LastQuote(c)' = quote /\ \A d \in Customer \ {c} : LastQuote(d)' = LastQuote(d)
    BY <1>0, <1>1, <1>2, ReturnQuotes
  <1> HIDE DEF quote
  <1>4. StandingOffer'[c] = quote /\ \A d \in Customer \ {c} : StandingOffer'[d] = StandingOffer[d]
    BY <1>3 DEF Offers, OtherSessionsKept, StandingOffer
  <1>5. StandingOffer' = [StandingOffer EXCEPT ![c] = quote]
    BY <1>4 DEF StandingOffer
  <1>6. UNCHANGED AskedOrders
    BY DEF Offers, AskedOrders
  <1> QED
    BY <1>1, <1>5, <1>6 DEF Contract!Next, Contract!Offer

\* The POST asks the store for exactly the offer that stood, and uses it up.
LEMMA SubmitImplements ==
  ASSUME IInv, OffersTold, NEW c \in Customer, NEW id \in OrderId,
         ConfirmSubmits(c, id), GoesOn(c)
  PROVE  Contract!Next
  <1> DEFINE quote == QuoteOf(pending[c])
  <1>0. TypeOK /\ None # "confirmation"
    BY NoneAssumption DEF IInv, AwaitingFields
  <1>1. awaitingConfirmation[c] /\ LastQuote(c) = quote /\ quote # None
    BY QuotesAreQuotes, SubmitRecord DEF MayConfirm, OffersTold, Told
  <1>2. /\ orders'[id] # None /\ Agreed(orders'[id]) = [customer |-> c, quote |-> quote,
                                                       status |-> "asked"]
        /\ \A other \in OrderId \ {id} : orders'[other] = orders[other]
    <2>1. orders'[id].customer = c /\ orders'[id].status = "sent"
      BY <1>0 DEF ConfirmSubmits, TypeOK
    <2> QED
      BY <2>1, SubmitRecord DEF Agreed, Stage, QuoteOf
  <1> HIDE DEF quote
  <1>3. AskedOrders' = [AskedOrders EXCEPT ![id] = [customer |-> c, quote |-> quote,
                                                    status |-> "asked"]]
    <2>1. AskedOrders'[id] = [customer |-> c, quote |-> quote, status |-> "asked"]
      BY <1>2 DEF AskedOrders, Agreed, Stage
    <2>2. \A other \in OrderId \ {id} : AskedOrders'[other] = AskedOrders[other]
      BY <1>2 DEF AskedOrders
    <2> QED
      BY <2>1, <2>2 DEF AskedOrders
  <1>4. StandingOffer[c] = quote /\ AskedOrders[id] = None
    BY <1>1 DEF StandingOffer, AskedOrders, ConfirmSubmits
  <1>5. StandingOffer' = [StandingOffer EXCEPT ![c] = None]
    <2>1. StandingOffer'[c] = None
      BY <1>0 DEF ConfirmSubmits, Await, StandingOffer, TypeOK
    <2>2. \A d \in Customer \ {c} : StandingOffer'[d] = StandingOffer[d]
      BY DEF GoesOn, OtherSessionsKept, StandingOffer, LastQuote
    <2> QED
      BY <2>1, <2>2 DEF StandingOffer
  <1> QED
    BY <1>1, <1>3, <1>4, <1>5 DEF Contract!Next, Contract!Accept

LEMMA EnvironmentImplements ==
  ASSUME IInv, OffersTold, Environment
  PROVE  [Contract!Next]_(Contract!vars)
  <1>0. TypeOK
    BY DEF IInv
  <1>1. CASE (\E c \in Customer : Expire(c)) \/ Restart
    <2>1. ASSUME NEW c \in Customer, Expire(c)
          PROVE  UNCHANGED orders /\ \A d \in Customer : StandingOffer'[d] \in {StandingOffer[d], None}
      BY <2>1 DEF Expire, Forgets, StandingOffer, LastQuote, storeVars, chatVars
    <2>2. CASE Restart
      <3>1. UNCHANGED orders /\ \A d \in Customer : ~awaitingConfirmation'[d]
        BY <2>2 DEF Restart, Forgets, storeVars
      <3> QED
        BY <3>1, OffersLapse DEF StandingOffer
    <2> QED
      BY <1>1, <2>1, <2>2, OffersLapse
  <1>2. CASE SyncBegins \/ SyncEnds \/ \E p \in Product, u \in Price : StoreReprices(p, u)
    BY <1>2
    DEF SyncBegins, SyncEnds, StoreReprices, memoryVars, storeVars, chatVars, StandingOffer,
        LastQuote, AskedOrders, Contract!vars
  <1>3. ASSUME NEW id \in OrderId, NEW o \in Order, Sent(id),
               orders' = [orders EXCEPT ![id] = o],
               o.customer = orders[id].customer, o.product = orders[id].product,
               o.quantity = orders[id].quantity, o.agreed = orders[id].agreed,
               UNCHANGED <<memoryVars, chatVars>>,
               \/ orders[id].status = "sent" /\ o.status # "sent"
               \/ orders[id].status \in {"on-hold", "processing"} /\ o.status \in StoreStatus
        PROVE  [Contract!Next]_(Contract!vars)
    <2>1. UNCHANGED StandingOffer
      BY <1>3 DEF memoryVars, chatVars, StandingOffer, LastQuote
    <2> QED
      BY <1>0, <1>3, <2>1, OrderProgresses
  <1>4. ASSUME NEW id \in OrderId, NEW status \in {"rejected"} \cup StoreStatus,
               (StoreRejects(id) /\ status = "rejected") \/ StaffMoves(id, status)
        PROVE  [Contract!Next]_(Contract!vars)
    <2> DEFINE o == [orders[id] EXCEPT !.status = status]
    <2>1. Sent(id) /\ orders[id] \in Order
      BY <1>0, <1>4 DEF StoreRejects, StaffMoves, Sent, TypeOK
    <2>2. /\ o \in Order /\ o.status = status
          /\ o.customer = orders[id].customer /\ o.product = orders[id].product
          /\ o.quantity = orders[id].quantity /\ o.agreed = orders[id].agreed
      BY <2>1 DEF Order
    <2>3. orders' = [orders EXCEPT ![id] = o] /\ UNCHANGED <<memoryVars, chatVars>>
      BY <1>4 DEF StoreRejects, StaffMoves
    <2>4. \/ orders[id].status = "sent" /\ status # "sent"
          \/ orders[id].status \in {"on-hold", "processing"} /\ status \in StoreStatus
      BY <1>4 DEF StoreRejects, StaffMoves, StoreStatus
    <2> HIDE DEF o
    <2> QED
      BY <1>3, <2>1, <2>2, <2>3, <2>4
  <1>5. ASSUME NEW id \in OrderId, StoreCreates(id)
        PROVE  [Contract!Next]_(Contract!vars)
    <2> DEFINE charged == price[orders[id].product] * orders[id].quantity
               o == [orders[id] EXCEPT !.status = "on-hold", !.total = charged]
    <2>1. Sent(id) /\ orders[id] \in Order /\ orders[id].status = "sent"
      BY <1>0, <1>5 DEF StoreCreates, Sent, TypeOK
    <2>2. charged \in Totals
      BY <1>0, <2>1 DEF Order, Totals, TypeOK
    <2>3. orders' = [orders EXCEPT ![id] = o] /\ UNCHANGED <<memoryVars, chatVars>>
      BY <1>5 DEF StoreCreates
    <2> HIDE DEF charged
    <2>4. /\ o \in Order /\ o.status = "on-hold"
          /\ o.customer = orders[id].customer /\ o.product = orders[id].product
          /\ o.quantity = orders[id].quantity /\ o.agreed = orders[id].agreed
      BY <2>1, <2>2 DEF Order, StoreStatus
    <2> HIDE DEF o
    <2> QED
      BY <1>3, <2>1, <2>3, <2>4
  <1>6. ASSUME NEW c \in Customer, ReplyArrives(c)
        PROVE  [Contract!Next]_(Contract!vars)
    BY <1>6
    DEF ReplyArrives, memoryVars, storeVars, StandingOffer, LastQuote, AskedOrders, Contract!vars
  <1> QED
    BY <1>1, <1>2, <1>4, <1>5, <1>6 DEF Environment

LEMMA StepImplements ==
  ASSUME IInv, OffersTold, [Next]_vars
  PROVE  [Contract!Next]_(Contract!vars)
  <1>1. CASE UNCHANGED vars
    BY <1>1
    DEF vars, memoryVars, storeVars, chatVars, StandingOffer, LastQuote, AskedOrders,
        Contract!vars
  <1>2. ASSUME NEW c \in Customer, TurnStep(c)
        PROVE  [Contract!Next]_(Contract!vars)
    <2>1. CASE GoesOn(c) /\ UNCHANGED orders
      <3>1. \A d \in Customer : StandingOffer'[d] \in {StandingOffer[d], None}
        BY <2>1 DEF GoesOn, OtherSessionsKept, NoNewOffer, StandingOffer, LastQuote
      <3> QED
        BY <2>1, <3>1, OffersLapse
    <2> QED
      BY <1>2, <2>1, SessionShapes, ReplyImplements, OfferImplements, SubmitImplements
  <1>3. ASSUME NEW c \in Customer, Receive(c)
        PROVE  [Contract!Next]_(Contract!vars)
    BY <1>3, ReceiveOffersNothing DEF StandingOffer, LastQuote, AskedOrders, Contract!vars
  <1> QED
    BY <1>1, <1>2, <1>3, EnvironmentImplements DEF Next

\* Each order asked of the store uses up the quote made last and is for exactly
\* that, for any number of requests per message.
THEOREM QuotesAreTheContract == Spec => ImplementsContract
  <1>1. Init => Contract!Init
    BY DEF Init, Contract!Init, StandingOffer, AskedOrders
  <1>2. IInv /\ OffersTold /\ [Next]_vars => [Contract!Next]_(Contract!vars)
    BY StepImplements
  <1> QED
    BY <1>1, <1>2, ToldAlways, InvariantHolds, PTL
    DEF Spec, ImplementsContract, Contract!Spec

=============================================================================
