# KasaFlow in TLA+

KasaFlow is a WhatsApp ordering assistant for a jewellery shop: a FastAPI
process receives customer messages, a language model picks which tool answers
each one, and deterministic Python runs the tool. Two tools write to the shop's
WooCommerce store (`confirm_order`, `cancel_order`); everything else reads. The
modules here model the code that decides when such a write happens, what an
order is put together from, how messages and replies travel, how the catalogue
gets into the process and when a person takes over; they are checked with TLC,
and the central invariants are proved with TLAPS.

## The system

| Component | Keeps | Operations | Modelled in |
|---|---|---|---|
| Ordering, `services/order_tool.py` | `pending_order`, `last_confirmed_order` of each session | `propose_order`, `confirm_order`, `cancel_order`, `get_order_status` | OrderSession |
| Turn routing, `services/router.py` | nothing of its own | `route_customer` and, for each request, `_execute_single` | OrderSession |
| Session memory, `services/memory.py` | one entry of slots per session, 30-minute inactivity TTL, one turn lock per session, all in process memory | getters and setters, `session_lock`, `fill_missing_context`, `remember_context` | OrderSession (order, flag, counter slots), SessionContext (remembered arguments, lists, stash), WhatsAppChannel (the lock), Handoff (the TTL) |
| Guardrails, `services/guardrails.py` | nothing | `screen_message`, `gate_tool_request` | OrderSession |
| Escalation, `services/escalation.py` | escalation record, two counters | `escalate`, `holding_result`, `record_*` | OrderSession, Handoff |
| Language model, `services/llm.py` | nothing | `understand_customer` | OrderSession and SessionContext, as a free choice |
| Product lookup, `services/product_tool.py`, `product_search.py`, `embeddings_client.py` | the exported catalogue file, a lazily built index | exact, karat, near and id matches | ProductLookup (the matches), SearchIndex (the index), OrderSession (price and row) |
| Delivery, `services/delivery_tool.py`, `geocoding_tool.py` | nothing | zone of an address, option against address | DeliveryZones |
| Catalogue sync, `services/woocommerce_sync.py` | `products.json` | a paged download, then a file replaced in place | CatalogueSync, OrderSession (begin/end of the write) |
| WhatsApp, `app/whatsapp_routes.py`, `services/whatsapp_client.py`, `voice_tool.py`, `vision_tool.py` | nothing | webhook, background threads, media, sends with retries | WhatsAppChannel |
| Demo page, `app/demo_routes.py`, `services/photo_match_tool.py` | nothing | turns like any other, photos recognised without one | SessionContext (the photo) |
| Start-up, `app/main.py` | the warm-up thread | loads the index | SearchIndex |
| Recommendations, wording, `services/recommendation_service.py`, `response_formatter.py` | nothing | what a list shows | SessionContext (as far as it is remembered) |
| Policy answers, image index | indexes | reads | not modelled, see below |

How they meet: a webhook starts a thread, the thread calls `route_customer()`,
which takes the session's lock for the whole turn. Inside, the router reads the
slots, asks the model (or bypasses it for a bare answer to a question it just
asked), gates the chosen tools, and runs them one after the other, each
through resets, tool, re-asserted flags and a verdict that feeds the failure
counter. Turns of different customers, the store's staff, the catalogue sync,
the expiry of a session and a restart of the process happen in between at any
call that leaves the process.

What is hard here, and what the properties are aimed at:

* the *yes* problem: three slots (`pending_order`, `awaiting_confirmation`,
  `awaiting_field`) written at different places have to agree, through failed
  turns, corrections, re-quotes and expiry, on which quote a bare "yes" accepts;
* the store's API: a POST that times out or loses its reply may have created
  the order; the search that should settle it may fail;
* stale prices: the file and the index a proposal is priced from lag the store;
* check-then-act against staff who work in the store directly;
* several requests in one model answer, which run against the same slots
  without a reply in between;
* locks held across slow calls, and made on first use;
* a lock that is released before the reply is sent, which may then not arrive;
* memory that fills in what a message leaves out: details of one product or
  address must not end up on another;
* replies in parts, over calls that are retried, refused or unanswered;
* an index loaded without a lock from a file another process rewrites in place;
* two expiries on one conversation: the session's and the notification's.

The full list is in `PROJECT.json` under `hazards`, each at its line.

## Modules

**OrderContract** is the promise without the mechanism: each customer has at
most one standing offer; an order comes into being only by accepting the offer
that stands, uses it up, and is for exactly what it said; the store opens or
refuses an order, and an order once closed stays closed.

**OrderSession** is the mechanism. Its variables are the session's slots, the
turn thread of each customer, the store with its exported catalogue, and what
the customer has seen.

| Code | OrderSession |
|---|---|
| lock held, `_route_customer_locked()` up to the model | `Held`, `HandsOff`, `BareYes`, `BareAnswer`, `AskModel` (pc `idle` to `deciding` or `execute`) |
| `understand_customer()` | `ModelDecides`, `ModelFails`, `EmptyMessage` |
| `gate_tool_request()` | `Executes`, the guard of every tool |
| `_execute_single()`: resets, verdict, reply | `Await`, `Succeeded`, `NoVerdict`, `Failed`, `FailedAction`, `Return`, used by every tool |
| `propose_order()` | `ProposeAsksProduct`, `ProposeAsksDetail`, `ProposeNotFound`, `ProposeNotLinked`, `Propose` |
| `confirm_order()` | `ConfirmRefused`, `ConfirmRepeated`, `ConfirmNeedsReview`, `ConfirmReprices`, `ConfirmSubmits`, then `PostReturns`, `PostFails`, `PostTimesOut`, then `LookupFinds`, `LookupFindsNothing`; `AnswerHasNoId` from either; `Finalize` with `StoreTotalMatches` |
| `cancel_order()` | `CancelFindsNoOrder`, `CancelDeclines`, `CancelProceeds`, then `CancelReturns`, `CancelFails` |
| the other tools, `converse`, a tool that raises | `ReadOnlyTool`, `EscalateToHuman`, `Converse`, `ToolRaises` |
| TTL, restart | `Expire`, `Restart` |
| the send of the reply in `_handle_message()`, after the lock is released | `ReplyArrives` |
| WooCommerce and its staff (external) | `StoreCreates`, `StoreRejects`, `StaffMoves`, `StoreReprices` |
| `woocommerce_sync.main()` | `SyncBegins`, `SyncEnds` |

A step of the model is a stretch of code between two calls that leave the
process; each such call (model, POST, search, PUT) is a program counter value at
which everything else may happen. Calls that only read the catalogue file are
one step with the code around them.

The data is cut down to what the properties tell apart. A product stands for a
catalogue row with its karat, address and delivery option; a proposal's total
is its unit price times its quantity, as in the code. `awaiting_field` keeps
"detail" for a karat, quantity, address or delivery option, since the code
treats them alike, and reads an awaited product name as none, since the bypass
never resolves one. The model's answer is a number of requests, each drawn when
it is executed: nothing constrains it earlier. Counters saturate at their
thresholds, past which they have no effect. POSTs get their order id when they
leave, so that two POSTs of one proposal would stay distinguishable. `Simple`
rows have no variation id, which is what `_catalogue_unit_price()` matches on;
their price is never compared again. Four faults of the store's API can be
switched on: a reply lost for another reason than a timeout ("lost_reply"), a
2xx answer that is JSON but no order ("no_id"), whatever became of the POST; an
order whose answer carries no usable total ("no_total"); and a search that fails
("lookup_fails").

A reply and its arrival are two things. `Return` ends the turn: the lock is
free, the reply is decided, and `replied` is the quote of the last reply that
had one. The send comes after that, in the webhook's thread, and may be refused
or lost; `delivered` says whether that reply has arrived, and `ReplyArrives` may
come at any time or never. The customer's next message, waiting for the lock or
delivered a second time, does not wait for it. The properties are stated over
`replied`, except `NothingIsOrderedUnseen`.

Two abstractions rest on the code's constants. A session expires only while it
is idle or while the model thinks, because a turn writes its session before
each tool and every store call is bounded (30 s for the POST, 15 s for the
search) far below the 30-minute TTL. And `escalate()` keeps the first record of
a session, because a turn is far shorter than the renotify window.

**MCOrderSession** adds the symmetry of customers, tokens and order ids, and the
constraints of two runs: `NoArrival` in both, and with it `NoSync` or
`StaffOnlyCancel`.

**OrderSessionProofs** holds the inductive invariant and the theorems about
states, **OrderTurnProofs** the ones about turns and the refinement.

**ProductLookup** and **DeliveryZones** are pure: the matches of
`product_tool.py` over a catalogue of rows, and the zones of
`geocoding_tool.py` with the curated lists it falls back to. A name is told
apart by the rows of that name, the pending products it truncates and the
products its words overlap with; the words of a material count there too, since
the search is for "{material} {product_name}"; an address by the places its text names and by
what the geocoder knows of it. Every row has a karat, as all 3,918 of
`data/products.json` have, and the rows of one id have one name, as they do
there.

**SessionContext** puts them together with what a session remembers. A turn is
one step, since the session's lock is held for all of it; several requests in
one answer are several steps.

| Code | SessionContext |
|---|---|
| `fill_missing_context()`, `remember_context()` | `FillMissingContext`, `RememberContext`, used by every tool |
| `_override_unresolved_ambiguous_reference()`, `_apply_pending_clarification_details()` | `AskWhich`, `Recovered` |
| the read-only tools | `PriceProduct`, `QuoteProduct`, `DescribeProduct`, `Browse`, `Converse` |
| `propose_order()` from its arguments to the proposal | `ProposeAsks`, `ProposeRefuses`, `ProposeOffers`, with `Surviving`, `LookupToOrder`, `Overrides` |
| a photo recognised by `demo_message()` | `PhotoMatch` |
| `_finalize_confirmation()`; TTL and restart | `Confirm`; `Expire` |

The code keeps values without saying what they were said about. The model keeps
that too: every detail carries the set of products or addresses it may have
been meant for when the message was read, and the properties compare it with
what it is remembered with. A message that leaves the product open may mean the
session's product or any item of the list it was shown; a category names all.

**WhatsAppChannel** has one worker for each delivery of a payload. Its `pc`
follows `_handle_message()`: `start`, `media`, then `lookup` and `lock` in
`SessionStore.session_lock()`, `wait` and `turn` in `route_customer()`, `speak`
and `upload` for a spoken reply, `post` for each send, `finished`. What a turn
decides is a free choice between nothing, a text, a photo with a caption and a
browse. `due` and `shown` record what the customer was to see and has seen.
A message is one place of one payload; a delivery made twice is the payload
taken up by a second worker. `Changes` gives the changes of a payload's entries,
of which `receive_message()` reads the first (`Batch`); the others are
acknowledged with it and never handled. A message that lacks its sender or its
type ("malformed") raises outside the try of `_handle_message()`, and the
messages behind it are not handled either (`NextMessage`).

**MessageTurns** is the channel's promise without threads, locks, services and
sends: the messages of a delivery are taken up in order, each is settled with
at most one turn before the next, and no two turns of one customer overlap.
WhatsAppChannel implements it: a message is open until its worker has the lock,
in its turn until `route_customer()` returns, and settled from then on.

**CatalogueSync** is `woocommerce_sync.py` step by step: pages, variations, the
check for an empty catalogue, the file opened (which empties it) and written.
The store changes between pages. **SearchIndex** extends it with the product
index: `_entries` and `_embeddings` are written in steps of their own by the
warm-up thread and by searches, with no lock.

**Handoff** is a session that a person has, on one clock: `Set` renews the TTL,
`Escalate` and `Hold` are the two ways through `escalate()`, `Act` any turn of
the assistant's own. `Notify` is an attempt to tell staff and may send nothing,
because no number is configured or the send fails; `notified_at` dates the
attempt, `staff_notified` says how it went, and within the window of it
(`WithinWindow`) the reply repeats what the record says. `noticed` and
`promised` are what reached staff and what the customer was told. A photo that
the demo page recognises is answered in an escalated session too; Handoff leaves
it out, as it is no turn and changes no escalation.

**WhatsAppChannelProofs** and **WhatsAppReplyProofs**, **HandoffProofs**,
**SessionContextProofs** and **SearchIndexProofs** (for CatalogueSync too) prove
the invariants of their systems, WhatsAppReplyProofs the refinement as well.

## Runs

Deadlock is checked in the runs of MCOrderSession. The other systems may stop:
every payload worked off, the bounds of the clock, the store and the syncs used
up.

| Run | Bounds | Shows |
|---|---|---|
| session | 1 customer, 1 row with 2 prices, 2 tokens and 2 POSTs, lost replies, failing lookups; staff only cancel, and nothing is looked at behind the arrival of a reply (`StaffOnlyCancel`) | `OrdersMatchTheLastReply`, `OnePostPerProposal`, `BareYesReachesItsProposal`, `SubmittingMeansInFlight`, `EscalatedSessionsAreLeftAlone`; `ImplementsContract`, the refinement of OrderContract |
| bursts | 2 requests per message, quantities up to 3, a row without variation id, 1 token and POST, all faults, staff move orders on, replies arrive at any time; fairness of turn steps | `TypeOK`, `NothingOverTheLimit`, `MismatchesReachAPerson`, `FlaggedMessagesNeverWrite`, `TurnsEnd`; `ImplementsContract` |
| customers | 2 customers whose turns interleave, one price, catalogue always readable, arrivals as in session (`NoSync`) | `ConfirmedOrdersExist` |
| turns | 1 session; 2 products, one in 2 karats and one with the material "gold" in its name, and a truncated name; a karat or "gold" as a message's material; 3 addresses, one that only the geocoder knows; 1 detail per message, 1 list, geocoder answering or failing at each call | `TypeOK`, `DetailsBelongToTheirProduct`, `OptionFitsItsAddress`, `ProposalsAreForWhatWasNamed` |
| deliveries | a payload with a message of each type, of 2 customers, delivered twice, and a second change that is not read; one with a message that cannot be handled and one behind it; 1 retry; a browse of a product with a photo and one without | `TypeOK`, `OneTurnAtATime`, `TurnsMatchDeliveries`, `RepliesReachTheCustomer`, `RepliesFallBackToWords`, `PayloadsAreWorkedOff`; `ImplementsTurns`, the refinement of MessageTurns |
| syncs | pages of 2; 3 products, one with more variations than a page, one row without a price; 1 change of the store, 2 syncs, 1 restart, the warm-up and 2 searches | `TypeOK`, `CatalogueIsComplete`, `AnswersScoreTheirOwnRows`, `MissingEmbeddingsAreExplained` |
| clock | TTL 6, window 2, 20 ticks, 1 restart | `TypeOK`, `PromisesAreKept`, `ActsOnlyAfterSilence`, `NotificationsKeepTheirDistance` |

One customer is enough for what happens inside a session, because sessions
share nothing but the store, the catalogue and the supply of tokens; the
customers run puts two sessions on one store. Two prices suffice to tell a
fresh price from a stale one. Two tokens give a proposal and its replacement,
with re-quotes of both, and two order ids a failed confirmation and one more
after it. Thresholds are 1 or 2, so that both the turn that reaches them and the
one before it occur. The limits lie so that a total is over them with a quantity
that is not, and a quantity with a total that is not. The bursts run has as many
order ids as tokens, so that a confirmation never waits for one, which would be
a bound and not the code. `NoArrival` keeps out what follows the arrival of a
reply, in the two runs whose properties do not read `delivered`: nothing but
`ReplyArrives` and `Return` does, so no behaviour of the other variables is
lost. The four passing runs with more than a hundred thousand states take one to
three minutes each: session has 796,688 states, bursts 628,992, customers
1,125,551 and deliveries 330,360; turns has 21,241 and takes two, because each
step has many messages to choose from.

In the turns run messages are cut to one detail each, so that a proposal has to
be put together over several turns, which is what the memory is for; the
corrections run below has messages of four. The list is as long as what is
shown of one, so the cut of `SelectPresentedGroups` is not exercised, and no
address is outside both zones, so `ghana_other` is not. In the deliveries run
two threads race for the lock of a customer neither has met, find it made for a
second message, and turns of two customers overlap. One retry, where the code
has two, gives a send that is given up at once, one that goes through later and
one that is given up later; the proofs are for any number. In the syncs run a listing
has up to three products, so that the last page may be full, short or empty,
and one change is enough to shift it between two pages; two syncs give an old
file and a new one, one of which may be torn. In the clock run the TTL is three
windows, as it is in the code (30 and 10 minutes), and the clock runs through
more than three TTLs.

`OrdersMatchTheLastReply` and `EscalatedSessionsAreLeftAlone` are checked for one
request per message. With two they fail, which is what the first two runs of the
next table show. `ImplementsContract` holds for any number: its standing offer
is the quote made last (`LastQuote`), by an earlier entry of the same turn if
there is one, else by the last reply. What a turn may order unseen is still the
proposal, and its price, that was quoted last. None of the three says that the
quote has arrived: that is `NothingIsOrderedUnseen`, and false.

`MismatchesReachAPerson` excepts orders whose total the store did not report:
the code means that (order_tool.py:805-815, "can't verify"), so the hand-off on
a mismatch that the repository's README promises (README.md:118) is one on a
mismatch that could be read. `SubmittingMeansInFlight` is checked where answers
carry an id. `ConfirmedOrdersExist` says nothing of a cancelling PUT that was
applied and reported as failed (`CancelFails`): the cancelled order still exists
and is still called the last confirmed one. `TurnsMatchDeliveries` allows a
second turn for a second delivery, since nothing in the code recognises one.
`MissingEmbeddingsAreExplained` allows a load that failed as an explanation, and
`RepliesReachTheCustomer` a refusal by WhatsApp; `RepliesFallBackToWords` then
asks that words were tried last, except after a voice note.

The fairness of `FairSpec` is weak fairness of each customer's turn steps: every
call a turn makes has a timeout, so a thread that holds the lock keeps moving.
Nothing is assumed of the store, of staff or of customers. WhatsAppChannel
assumes weak fairness of each worker for the same reason; the lock need not be
a fair one, because the deliveries are finitely many and each worker takes the
lock once for a message.

### Where the source says something else

| Run | What the source says | What happens |
|---|---|---|
| unseen_order | order_tool.py:14-20, no path from one message to an order; a yes to a proposal the customer can see; :664-665, the total agreed to when they saw it | `[propose_order, confirm_order]` in one answer posts an order nobody saw |
| act_escalated | escalation.py:4-5, no order writes once escalated | the requests after the escalating one still write |
| flaky_lookup | order_tool.py:1206-1208, a flaky lookup is not read as absence | it is answered exactly like absence |
| corrections | order_tool.py:501-510, the override trusts an explicitly stated option, never one that was filled in | an option from memory replaces the address: the rider zone asked for with the first proposal is filled in for the second, the geocoder does not answer and the curated lists do not know the address, so it is taken for stale |
| confirm_alone | guardrails.py:130-133, reply CONFIRM on its own | that CONFIRM is refused, the flag was reset |

The property of unseen_order fails with one request per message too: the lock is
released (router.py:757-770) before the reply is sent
(whatsapp_routes.py:174-238), so a yes that waits for the lock, or that WhatsApp
delivers again, can run before a re-quote has arrived, or after its send was
refused, and order it (`Return`, `ReplyArrives`).

Five more of the kind are visible in the modelled actions and have no run.
An answer to the create that is JSON but no order raises after the proposal was
marked submitting (order_tool.py:712, and :693 for the search): the mark stays
with nothing in flight, whether there is an order or not, while the comment at
:659-660 says the earlier call "is still in flight" (`AnswerHasNoId`).
A POST that fails for another reason than a timeout is not looked up, though
its reply may be lost after the order was created (`PostFails`;
order_tool.py:702-705 calls it "NOT ambiguous"). A failed confirmation hands
the proposal back "for a real retry" (order_tool.py:695-696), and the yes that
follows is refused for the reason of confirm_alone (`HandsBack`, `Await`). The
PUT of `cancel_order()` cancels an order that staff moved on after the GET
(`CancelReturns`; order_tool.py:845-847 leaves such orders to staff).
A turn that ends in an empty message or a `ToolSelectionError` returns at
router.py:980-998, before the resets of lines 1118 and 1126 (`EmptyMessage`,
`ModelFails`), so
`awaiting_confirmation` and `awaiting_field` survive an error reply, while
memory.py:669-671 says the router resets them "at the very start of handling
every turn".

The newer modules show more of them, again without a run each. main.py:39-42
says a failed warm-up is caught by the lazy path on the first request; the
entries stay set, so `_ensure_loaded()` returns (product_search.py:104) and every search raises until a
restart (`EmbeddingsFail`, `Score`). Staff are told that the assistant stays
away until about 30 minutes of quiet (escalation.py:148-151); it is more than
TTL minus window, 20 minutes, because messages within the window write nothing
(`Hold`, proved below). `_fetch_variations()` asks for one page, so variations
past the hundredth are never sold (`FetchVariations`), and a product removed
between two pages pulls another one over the page boundary, out of that
catalogue (`StoreUnpublishes`). Two threads that load the index while a sync
rewrites the file may pair one catalogue's rows with the other's embeddings
(the exception in `AnswersScoreTheirOwnRows`). A spoken reply whose upload
fails leaves no reply at all (`UploadAudio`), where whatsapp_routes.py:221-223
speaks of a rule "this codebase applies everywhere else" not to drop what failed
to send. A staff notification that did not go out is not tried again for a
window (`Notify`, escalation.py:98-108), though holding_result() is there so that
a customer "isn't silently ignored" (escalation.py:119-121). Messages in any
change of a payload but the first are acknowledged and dropped (`Batch`), and so
are those behind a message without sender or type. `generate_quote()` raises
`KeyError` for a product in several karats (`QuoteProduct`), which counts as a
failed tool. A refused correction is remembered like an accepted one
(`ProposeRefuses`), and its note "I've updated the karat" stands in front of
the refusal (router.py:1358). After a photo the demo page recognised, a bare
yes still confirms the product proposed before (`PhotoMatch` changes neither
the proposal nor the flag). The curated list of the country holds no
neighbourhoods, so "international" matches an Accra suburb while the geocoder
is down (`OptionMatchesOffline`). An option set aside by the clarification
stash is used for whatever address the answer gives (`Recovered`, where the
model takes it to be meant so).

Duplicates after flaky_lookup need a new proposal, which draws a new token; that
is why `OnePostPerProposal` holds all the same.

## Proofs

`OrderSessionProofs` proves, for any number of customers, rows, prices, tokens,
requests per message and any set of faults:

* `TypeCorrect`: `TypeOK`;
* `PostedOnce`: `OnePostPerProposal`;
* `BareYesConfirms`: `BareYesReachesItsProposal`;
* `ConfirmedOrdersAreReal`: `ConfirmedOrdersExist`;
* `MismatchesAreSeen`: `MismatchesReachAPerson`;
* `NoneOverTheLimit`: `NothingOverTheLimit`.

The assumptions are the ones OrderSession declares: prices are positive,
bounds and thresholds natural numbers, and None is not a value of anything
else.

None of the properties is inductive alone. A second POST of a proposal is ruled
out because the offer a yes would accept has never been posted; that holds
because a POST clears `awaiting_confirmation`, because only a fresh token or a
re-quote of an unposted proposal sets it again, and because no two sessions
hold proposals with one token. So the invariant `IInv` is `TypeOK` together
with `Core`:

* `PostInFlight(c)`: while c's POST or search is in flight, c's proposal is
  marked submitting, its yes is used up, and the order posted carries its token
  and its total;
* `CancelInFlight(c)`: the order being cancelled is c's and in the store;
* `OfferStands(c)`: a standing offer is a pending proposal never posted;
* `FieldMeansFlag(c)`: the field that bypasses the model implies the flag that
  permits the write, also across the step from one to the other;
* `TokensAreUsed`, `TokensDiffer`: tokens of proposals and orders are spent,
  and differ between sessions;
* the three safety properties themselves.

The proof has one lemma per group of actions for the types and one for `Core`.
Most steps are *quiet*: they touch one session, keep what the orders are for,
and leave the proposal alone or drop it; `QuietKeeps` settles `Core` for all of
them, `EndsQuietly` those that end in `Return`, and only `Propose`,
`ConfirmReprices`, `ConfirmSubmits`, `Finalize`, `HandsBack` and the
environment need arguments of their own. `StepOrders` says that nothing but
`ConfirmSubmits` changes what an order is for, from which `NoneOverTheLimit`
follows.

`OrderTurnProofs` builds on that invariant:

* `FlaggedTurnsOnlyRead`: `FlaggedMessagesNeverWrite`, for any number of requests
  per message. A turn that waits for the store was not flagged when it began to
  wait, and nothing flags it later;
* `SubmittingIsInFlight`: `SubmittingMeansInFlight`, when a 2xx answer always
  carries an id. The hypothesis is needed: such an answer without one raises
  `KeyError` after the proposal was marked, and the mark stays;
* `QuotesAreTheContract`: `ImplementsContract`, for any number of requests per
  message;
* `SingleTurnsLeaveEscalatedAlone`: `EscalatedSessionsAreLeftAlone`;
* `SingleTurnsOrderTheLastReply`: `OrdersMatchTheLastReply`.

For the marks, `MarkedSteps` says what a step may do to a proposal: drop it,
reset it to pending, leave it as it was, or leave it while its POST is in
flight. For the contract, `OffersTold` is the invariant: while a yes is awaited,
the quote made last is the quote of the pending proposal. It needs no bound on
the requests, because the end of a turn only moves the quote from the turn to
its reply (`ReturnQuotes`).

The last two theorems assume `MaxRequests = 1`, as the session run does, since
the runs act_escalated and unseen_order refute them for two requests. Their
invariant is `SingleTurns`: no turn is in progress while a person has the
session, none holds back a quote, and what a yes would accept is what the last
reply quoted. `SessionShapes` says that every step of a turn replies, makes an
offer, goes on, or posts an order and goes on. Under the refinement mapping an
offer is the contract's `Offer`, the POST its `Accept`, a change of an order's
status its `Progress` or a stutter, and everything else, expiry and restart
included, a `Lapse` of the offers that are gone; the arrival of a reply is a
stutter.

`WhatsAppChannelProofs` proves `TurnsDoNotOverlap` (`OneTurnAtATime`) for any
number of payloads, messages, deliveries, customers and retries. That two
workers in a turn of one customer cannot be two is not inductive: they might
hold two locks. `LockInv` says, of every worker, that it holds the guard once
it has looked the lock up; that what it saw is still true, because only the
holder of the guard writes `_session_locks`; and that from `wait` on
its lock is the one published for its customer, held by it in its turn. The
proof has one lemma per group of steps. Shapes of the worker's record are kept
apart in `Shaped`, so that the steps that only send need say no more than that
they stay out of the lock (`MovesOn`, `Answers`).

`WhatsAppReplyProofs` builds on that invariant and proves, for any payloads,
browses and retries:

* `ChannelIsTyped`: `TypeOK`;
* `TurnsAreCounted`: `TurnsMatchDeliveries`;
* `RepliesArrive`: `RepliesReachTheCustomer`;
* `ChannelImplementsTurns`: `ImplementsTurns`.

Its invariant `ChannelInv` adds two parts to `LockInv`. `TurnsMatchDeliveries`
is not inductive, since the number of deliveries does not tell which of them
are still to have their turn; `TurnsCounted` bounds a message's turns by the
number of deliveries that have given it one (`TurnedIn`), which a worker joins
once, `at` and `pc` never going back. The count is one for each message, which
is where the assumption that a message is one place of one payload is used.
`Owing` follows a reply through its phases: before
and in the turn nothing is due, while it is spoken only the reply is, and while
anything is posted all that is due has been shown, is in the post, or is one of
the cards without a picture or still to be sent. Speech that fails becomes text
and a picture that fails joins the cards without one, so a reply that ends
otherwise than by a refusal of WhatsApp owes nothing. For the refinement,
`Settles` says of each step how a message's phase may change; that a turn begins
only while no other of its customer is in progress follows from `LockInv`: the
other would hold the one lock the customer has.

`SearchIndexProofs` proves, for any products, variations, page length, changes
of the store, syncs, threads, searches and restarts:

* `FilesAreComplete`: `CatalogueIsComplete`;
* `IndexIsTyped`: `TypeOK`;
* `AnswersBelongToTheirRows`: `AnswersScoreTheirOwnRows`;
* `EmbeddingsAreOnTheirWay`: `MissingEmbeddingsAreExplained`.

What a file lists says nothing about the sync that is under way, so `SyncInv`
relates the two: every product that stayed in the listing has been fetched or
is listed on a page still to come (`Listing`). A product published moves the
others down, onto pages still to come; one removed moves up what follows it,
which is no longer counted as kept (`PublishedIsFirst`, `RemovedMovesUp`,
`PageBrings`). After the last page, told by its length, nothing is still to
come. For the index, `SameRows` says that as
long as no file was written during a load, all threads that load read the same
rows; `EntriesFirst`, that nobody embeds before there are entries, so that a
second loader finds the first one's. The assumptions are that the bounds and the
numbers of variations are natural numbers, that pages are not empty, that the
warm-up is one of the threads, and that `None` is no set of rows.

`SessionContextProofs` proves `TypeCorrect`, `RememberedDetailsBelong`
(`DetailsBelongToTheirProduct`), `RememberedOptionsFit` (`OptionFitsItsAddress`)
and `ProposalsAreNamed` for every catalogue, every address book and messages of
any length. The assumptions on the constants are that rows with one id are of
one product, which `propose_order()`'s recovery by id relies on, and that `None`
and `Unknown` are no values. The properties are not inductive: a karat
remembered without a product must fit whatever product comes next, so
`MemoryFits` asks that it was said about all of them; the stash outlives a turn,
so `StashFits` ties it to the list on display, every item of it; and a recovered
row is the pending one's product only because `PendingIsARow`. The proof follows
the data: a request's arguments fit (`HeardFits`), what is filled in keeps them
fitting (`FilledArgsFit`), what an offer changes too (`OfferedFits`), and then
what is remembered fits (`RememberedFits`); the steps cite these. One lemma per
lookup says that what it finds is of the name, near it, or of the id. Near is
what the search makes of it: it compares the words of material and name with the
row's name, so "gold" as a material can alone bring up a gold ring the message
did not name, and the property allows it (`IsForAnother`).

`HandoffProofs` proves `Typed`, `PromisesAreTrue` (`PromisesAreKept`),
`SilenceBeforeActing` and `NotificationsAreSpaced` for any TTL and window, longer
or shorter than each other, and whichever attempts to reach staff fail. The
invariant relates the times (`Clocked`): the expiry of an escalated session is
its last attempt plus the TTL, what staff received last is no later than that
attempt, and a session that forgot its escalation did so more than a TTL after
it. `RecordIsTrue` says that the record speaks of the attempt that dates it, not
of an earlier one, and `HeldWithinWindow` that what was not passed on came within
the window of that attempt; a promise rests on both.

Only model-checked: `TurnsEnd` and `PayloadsAreWorkedOff`, which are liveness
under fairness and out of the prover's reach, and `RepliesFallBackToWords`.
`OrdersMatchTheLastReply` and `EscalatedSessionsAreLeftAlone` are proved for one
request per message, for which alone they hold, and `SubmittingMeansInFlight` for
answers with an id. What the runs of the table above expect to be violated is
false and has nothing to prove.

## Not modelled, and why

Wording, prompts, logging, metrics and the evaluation scripts say nothing about
state. Malformed model output that raises something other than
`ToolSelectionError` ends a turn like an empty message or like an answer with
fewer requests. The slots `pending_intent`, `last_priced_product`, the weight
counter and `just_confirmed_order` only shape the prompt or the wording of a
reply. The category among the remembered keys only narrows a list.

Policy answers read an index that is loaded like the product index. The image
index and its offline build write a file of their own, which no turn writes and
only photos read; what they recognise is a free choice in `PhotoMatch`. Login,
webhook verification and the image proxy guard the doors and keep no state.

A process that stops after it acknowledged a payload loses its messages: nothing
is persisted, so there is nothing to recover and no property to state;
`Restart` of the other modules covers what the loss of the sessions does.
Wall-clock time that jumps would move the notifications of Handoff against its
expiry; the code uses two clocks, the module one.

## Plan

1. OrderContract, OrderSession and its proofs: done.
2. The session's lock, deliveries and sends (WhatsAppChannel), its promise
   (MessageTurns) and their proofs: done.
3. Remembered context over the lookups (SessionContext, ProductLookup,
   DeliveryZones), its proofs: done.
4. The clock of a handed-over conversation (Handoff), its proofs: done.
5. CatalogueSync and SearchIndex, their proofs: done. The image index and its
   batches are left.
6. Left: a composition of WhatsAppChannel with OrderSession, to relate one
   message delivered twice to the orders it leads to.
