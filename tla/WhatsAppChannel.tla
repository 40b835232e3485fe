--------------------------- MODULE WhatsAppChannel ---------------------------
(***************************************************************************)
(* The WhatsApp channel: the webhook of app/whatsapp_routes.py, the thread *)
(* that works off one payload, the session lock of services/memory.py that *)
(* router.route_customer() holds for a turn, and the sends of              *)
(* services/whatsapp_client.py.                                            *)
(*                                                                         *)
(* A payload is acknowledged before any of it is handled, so a worker is   *)
(* one delivery of one payload; its messages are handled one after the     *)
(* other.  What a turn decides is a free choice here (OrderSession and     *)
(* SessionContext model it): what matters is that it runs under the lock   *)
(* and what its result has to put in front of the customer.                *)
(*                                                                         *)
(* WhatsApp, the speech and the vision services are external.  A post may  *)
(* be accepted, rejected, or go unanswered, delivered or not.              *)
(***************************************************************************)
EXTENDS Integers, Sequences, SequencesExt

CONSTANTS
  Payload, Message, Customer,
  Changes,        \* payload -> the messages of each change of its entries, in order
  From, Type,     \* message -> its sender, and its type; "malformed" lacks either
  MaxDeliveries,  \* bound: how often WhatsApp delivers each payload
  MaxRetries,     \* _MAX_RETRIES
  Product,
  Browses,        \* what select_presented_groups() may pick, in order
  HasPhoto,       \* the products with a photo
  None

\* What receive_message() reads of a payload: the first change of its first
\* entry, and nothing when there is none.  The rest is acknowledged with it.
Batch == [p \in Payload |-> IF Changes[p] = <<>> THEN <<>> ELSE Changes[p][1]]

ASSUME ChannelAssumption ==
  /\ Changes \in [Payload -> Seq(Seq(Message))]
  /\ From \in [Message -> Customer]
  /\ Type \in [Message -> {"text", "audio", "image", "other", "malformed"}]
  /\ MaxDeliveries \in [Payload -> Nat] /\ MaxRetries \in Nat
  /\ Browses \subseteq Seq(Product) \ {<<>>}
  \* a message is one place of one payload
  /\ \A p, q \in Payload : \A i \in DOMAIN Batch[p], j \in DOMAIN Batch[q] :
       Batch[p][i] = Batch[q][j] => p = q /\ i = j

Worker == UNION {{p} \X (1 .. MaxDeliveries[p]) : p \in Payload}
Lock == Worker \X Customer       \* told apart by who made it, and for whom

ASSUME NoneAssumption == None \notin Lock /\ None \notin Worker

VARIABLES
  posted,    \* payload -> how often it was delivered
  worker,    \* the thread of each delivery
  guard,     \* _session_locks_guard: its holder
  locks,     \* _session_locks: customer -> lock
  holder,    \* lock -> the worker that holds it
  turns      \* message -> turns run for it

vars == <<posted, worker, guard, locks, holder, turns>>

-----------------------------------------------------------------------------
(* A worker: the message it is at, what it owes the customer for it, what  *)
(* it is saying now and what the customer has been shown.                  *)

Idle == [at |-> 0, pc |-> "off", lock |-> None, due |-> {}, cards |-> <<>>,
         missing |-> {}, saying |-> {}, form |-> "text", tries |-> 0,
         shown |-> {}, cause |-> "none"]

Starting(n) == [Idle EXCEPT !.at = n, !.pc = "start"]

Current(w) == Batch[w[1]][worker[w].at]
Sender(w) == From[Current(w)]

\* The worker is done with its message; "cause" is what stopped it, if
\* anything did.  _handle_message() lets no exception out but "raised".
Finished(r, cause) == [r EXCEPT !.pc = "finished", !.cause = cause]

Says(r, lines, form) ==
  [r EXCEPT !.pc = "post", !.saying = lines, !.form = form, !.tries = 0]

\* The browse loop: one picture for each product that has one, then one text
\* for those without and those whose picture failed.
Photos(cards) == {i \in DOMAIN cards : cards[i] \in HasPhoto}

ShowCard(r, i) ==
  Says([r EXCEPT !.cards = SubSeq(@, i + 1, Len(@))], {r.cards[i]}, "card")

NextCard(r) ==
  CASE Photos(r.cards) # {} -> ShowCard(r, Min(Photos(r.cards)))
    [] Photos(r.cards) = {} /\ r.missing # {} -> Says(r, r.missing, "text")
    [] OTHER -> Finished(r, "none")

-----------------------------------------------------------------------------
Init ==
  /\ posted = [p \in Payload |-> 0]
  /\ worker = [w \in Worker |-> Idle]
  /\ guard = None
  /\ locks = [c \in Customer |-> None]
  /\ holder = [l \in Lock |-> None]
  /\ turns = [m \in Message |-> 0]

\* receive_message(): nothing tells a payload delivered again from a new one.
ReceiveMessage(p) ==
  /\ posted[p] < MaxDeliveries[p]
  /\ posted' = [posted EXCEPT ![p] = @ + 1]
  /\ worker' = [worker EXCEPT ![<<p, posted[p] + 1>>] =
       IF Batch[p] = <<>> THEN [Idle EXCEPT !.pc = "done"] ELSE Starting(1)]
  /\ UNCHANGED <<guard, locks, holder, turns>>

Becomes(w, r) == worker' = [worker EXCEPT ![w] = r]
NoLocking == UNCHANGED <<guard, locks, holder>>

\* _handle_message(): text goes straight to its turn, a voice note or a photo
\* is read first, any other type is dropped.  The sender and the type are read
\* outside its try.
HandleMessage(w) ==
  /\ worker[w].pc = "start"
  /\ Becomes(w, CASE Type[Current(w)] = "text" -> [worker[w] EXCEPT !.pc = "lookup"]
                  [] Type[Current(w)] \in {"audio", "image"} ->
                       [worker[w] EXCEPT !.pc = "media"]
                  [] Type[Current(w)] = "malformed" -> Finished(worker[w], "raised")
                  [] OTHER -> Finished(worker[w], "none"))
  /\ UNCHANGED <<posted, turns>> /\ NoLocking

\* download_media() and transcribe_audio() or describe_product_image(): words,
\* no words, or an error of any of the three services.
ReadMedia(w) ==
  /\ worker[w].pc = "media"
  /\ \/ Becomes(w, [worker[w] EXCEPT !.pc = "lookup"])
     \/ Becomes(w, Says([worker[w] EXCEPT !.due = {"apology"}], {"apology"}, "text"))
     \/ Becomes(w, Finished(worker[w], "media"))
  /\ UNCHANGED <<posted, turns>> /\ NoLocking

TranscribeAudio(w) == ReadMedia(w) /\ Type[Current(w)] = "audio"
DescribeProductImage(w) == ReadMedia(w) /\ Type[Current(w)] = "image"

-----------------------------------------------------------------------------
(* The session's lock.                                                     *)

\* mutant: the guard is not taken
SessionLockUnguarded(w) ==
  /\ worker[w].pc = "lookup"
  /\ guard' = w
  /\ Becomes(w, [worker[w] EXCEPT !.pc = "lock", !.lock = locks[Sender(w)]])
  /\ UNCHANGED <<posted, locks, holder, turns>>

\* SessionStore.session_lock(): the look-up, with the guard taken ...
SessionLock(w) ==
  /\ worker[w].pc = "lookup" /\ guard = None
  /\ guard' = w
  /\ Becomes(w, [worker[w] EXCEPT !.pc = "lock", !.lock = locks[Sender(w)]])
  /\ UNCHANGED <<posted, locks, holder, turns>>

\* ... and the lock made when there is none, as the guard is given back.
SessionLockReturns(w) ==
  /\ worker[w].pc = "lock"
  /\ LET lock == IF worker[w].lock = None THEN <<w, Sender(w)>> ELSE worker[w].lock
     IN /\ locks' = [locks EXCEPT ![Sender(w)] = lock]
        /\ Becomes(w, [worker[w] EXCEPT !.pc = "wait", !.lock = lock])
  /\ guard' = None
  /\ UNCHANGED <<posted, holder, turns>>

\* mutant: the lock is waited for only so long, and the turn runs without it
RouteCustomerTimesOut(w) ==
  /\ worker[w].pc = "wait"
  /\ holder' = [holder EXCEPT ![worker[w].lock] = w]
  /\ turns' = [turns EXCEPT ![Current(w)] = @ + 1]
  /\ Becomes(w, [worker[w] EXCEPT !.pc = "turn"])
  /\ UNCHANGED <<posted, guard, locks>>

\* route_customer(): the lock is not handed out first come, first served.
RouteCustomer(w) ==
  /\ worker[w].pc = "wait" /\ holder[worker[w].lock] = None
  /\ holder' = [holder EXCEPT ![worker[w].lock] = w]
  /\ turns' = [turns EXCEPT ![Current(w)] = @ + 1]
  /\ Becomes(w, [worker[w] EXCEPT !.pc = "turn"])
  /\ UNCHANGED <<posted, guard, locks>>

\* What a browse owes: a picture of each product that has one, in order, and
\* the rest in words.
Browsing(r, browse) ==
  [r EXCEPT !.due = ToSet(browse), !.missing = ToSet(browse) \ HasPhoto, !.cards = browse]

\* What a turn's result makes the worker do: a voice note is answered by one
\* whatever the result, a browse by pictures, a product with a photo by that.
Replying(r, type, browse, form) ==
  CASE type = "audio" -> [r EXCEPT !.pc = "speak", !.due = {"reply"}]
    [] type # "audio" /\ browse # <<>> ->
         NextCard(Browsing(r, browse))
    [] OTHER -> Says([r EXCEPT !.due = {"reply"}], {"reply"}, form)

\* The turn ends, or raises; the lock is released before anything is sent.
RouteCustomerReturns(w) ==
  /\ worker[w].pc = "turn"
  /\ holder' = [holder EXCEPT ![worker[w].lock] = None]
  /\ \/ \E browse \in Browses \cup {<<>>}, form \in {"text", "photo"} :
          Becomes(w, Replying(worker[w], Type[Current(w)], browse, form))
     \/ Becomes(w, Finished(worker[w], "turn"))
  /\ UNCHANGED <<posted, guard, locks, turns>>

-----------------------------------------------------------------------------
(* The reply.                                                              *)

\* synthesize_speech(), or the same words as text.
SynthesizeSpeech(w) ==
  /\ worker[w].pc = "speak"
  /\ \/ Becomes(w, [worker[w] EXCEPT !.pc = "upload"])
     \/ Becomes(w, Says(worker[w], {"reply"}, "text"))
  /\ UNCHANGED <<posted, turns>> /\ NoLocking

\* send_audio_message(): one upload, no retry; its errors are not
\* VoiceServiceErrors, so nothing falls back to text.
UploadAudio(w) ==
  /\ worker[w].pc = "upload"
  /\ \/ Becomes(w, Says(worker[w], {"reply"}, "voice"))
     \/ Becomes(w, Finished(worker[w], "whatsapp"))
  /\ UNCHANGED <<posted, turns>> /\ NoLocking

\* What follows a send that went through, and one that raised WhatsAppError.
Sent(r) == IF r.form = "card" THEN NextCard(r) ELSE Finished(r, "none")

\* mutant: a picture that failed is not put in the trailing text
SendFailedDropsCard(r) ==
  CASE r.form = "card" -> NextCard(r)
    [] r.form = "photo" -> Says(r, r.saying, "text")
    [] OTHER -> Finished(r, "whatsapp")

\* mutant: the words under a photo go down with it
SendFailedGivesUp(r) ==
  CASE r.form = "card" -> NextCard([r EXCEPT !.missing = @ \cup r.saying])
    [] OTHER -> Finished(r, "whatsapp")

\* mutant: the message is handled again when its reply cannot be sent
SendFailedHandlesAgain(r) ==
  CASE r.form = "card" -> NextCard([r EXCEPT !.missing = @ \cup r.saying])
    [] r.form = "photo" -> Says(r, r.saying, "text")
    [] OTHER -> [Idle EXCEPT !.at = r.at, !.pc = "lookup"]

SendFailed(r) ==
  CASE r.form = "card" -> NextCard([r EXCEPT !.missing = @ \cup r.saying])
    [] r.form = "photo" -> Says(r, r.saying, "text")
    [] OTHER -> Finished(r, "whatsapp")

Shown(r) == [r EXCEPT !.shown = @ \cup r.saying]

PostAccepted(w) ==
  /\ worker[w].pc = "post"
  /\ Becomes(w, Sent(Shown(worker[w])))
  /\ UNCHANGED <<posted, turns>> /\ NoLocking

PostRejected(w) ==
  /\ worker[w].pc = "post"
  /\ Becomes(w, SendFailed(worker[w]))
  /\ UNCHANGED <<posted, turns>> /\ NoLocking

\* mutant: one attempt too many
PostUnansweredOnceMore(w) ==
  /\ worker[w].pc = "post"
  /\ \E r \in {worker[w], Shown(worker[w])} :
       Becomes(w, IF r.tries > MaxRetries THEN SendFailed(r)
                  ELSE [r EXCEPT !.tries = @ + 1])
  /\ UNCHANGED <<posted, turns>> /\ NoLocking

\* _post_with_retry() after a timeout or a broken connection: the message may
\* be with the customer all the same.
PostUnanswered(w) ==
  /\ worker[w].pc = "post"
  /\ \E r \in {worker[w], Shown(worker[w])} :
       Becomes(w, IF r.tries = MaxRetries THEN SendFailed(r)
                  ELSE [r EXCEPT !.tries = @ + 1])
  /\ UNCHANGED <<posted, turns>> /\ NoLocking

\* mutant: an error ends the payload
NextMessageUnlessFailed(w) ==
  /\ worker[w].pc = "finished"
  /\ Becomes(w, IF worker[w].at < Len(Batch[w[1]]) /\ worker[w].cause = "none"
                THEN Starting(worker[w].at + 1)
                ELSE [Idle EXCEPT !.at = worker[w].at, !.pc = "done"])
  /\ UNCHANGED <<posted, turns>> /\ NoLocking

\* The payload's next background task.  An exception that leaves one leaves
\* those after it undone.
NextMessage(w) ==
  /\ worker[w].pc = "finished"
  /\ Becomes(w, IF worker[w].at < Len(Batch[w[1]]) /\ worker[w].cause # "raised"
                THEN Starting(worker[w].at + 1)
                ELSE [Idle EXCEPT !.at = worker[w].at, !.pc = "done"])
  /\ UNCHANGED <<posted, turns>> /\ NoLocking

-----------------------------------------------------------------------------
Step(w) ==
  \/ HandleMessage(w) \/ TranscribeAudio(w) \/ DescribeProductImage(w)
  \/ SessionLock(w) \/ SessionLockReturns(w) \/ RouteCustomer(w)
  \/ RouteCustomerReturns(w)
  \/ SynthesizeSpeech(w) \/ UploadAudio(w)
  \/ PostAccepted(w) \/ PostRejected(w) \/ PostUnanswered(w)
  \/ NextMessage(w)

Next == (\E p \in Payload : ReceiveMessage(p)) \/ (\E w \in Worker : Step(w))

\* Every thread keeps running and every call it makes has a timeout.  With
\* finitely many deliveries weak fairness is enough for the lock, which is not
\* a fair one.
Spec == Init /\ [][Next]_vars /\ \A w \in Worker : WF_vars(Step(w))

-----------------------------------------------------------------------------
(* Properties.                                                             *)

Turning(w) == worker[w].pc = "turn"

TypeOK ==
  /\ \A p \in Payload : posted[p] \in 0 .. MaxDeliveries[p]
  /\ guard \in Worker \cup {None}
  /\ locks \in [Customer -> Lock \cup {None}]
  /\ holder \in [Lock -> Worker \cup {None}]
  /\ \A w \in Worker :
       /\ worker[w].at \in 0 .. Len(Batch[w[1]])
       /\ worker[w].lock \in Lock \cup {None}
       /\ worker[w].tries \in 0 .. MaxRetries
       /\ worker[w].pc \in {"off", "start", "media", "lookup", "lock", "wait", "turn",
                            "speak", "upload", "post", "finished", "done"}

\* Turns of one customer never overlap, although the lock that keeps them
\* apart is made on first use by whichever thread comes first
\* (SessionStore.session_lock()).
OneTurnAtATime ==
  \A v, w \in Worker :
    Turning(v) /\ Turning(w) /\ Sender(v) = Sender(w) => v = w

\* However its sends went, a message is turned into at most one turn for each
\* time it was delivered: retries and fallbacks never run a turn again.
TurnsMatchDeliveries ==
  \A p \in Payload : \A i \in DOMAIN Batch[p] : turns[Batch[p][i]] <= posted[p]

\* What a turn decided to say, every product of a browse included, has been
\* shown to the customer, unless WhatsApp itself refused the last thing tried:
\* speech that failed and pictures that failed come as text.
RepliesReachTheCustomer ==
  \A w \in Worker :
    worker[w].pc = "finished" /\ worker[w].cause # "whatsapp" =>
      worker[w].due \subseteq worker[w].shown

\* Every message that was read of a payload is reached in the end, up to one
\* without a sender or a type, whatever became of the ones before it and
\* whoever else waits for the same session.
PayloadsAreWorkedOff ==
  \A w \in Worker :
    worker[w].pc = "start" ~>
      /\ worker[w].pc = "done"
      /\ worker[w].at = Len(Batch[w[1]]) \/ Type[Current(w)] = "malformed"

\* When WhatsApp refused the last thing tried, that was a text with all the
\* customer had not been shown by then, each product of a browse included,
\* whichever pictures failed before it.  A reply to a voice note is excepted:
\* once it is speech, nothing turns a failed upload or send back into words.
RepliesFallBackToWords ==
  \A w \in Worker :
    worker[w].pc = "finished" /\ worker[w].cause = "whatsapp" =>
      \/ Type[Current(w)] = "audio"
      \/ /\ worker[w].form = "text"
         /\ worker[w].due \subseteq worker[w].shown \cup worker[w].saying

-----------------------------------------------------------------------------
(* The channel keeps its promise.                                          *)

Senders == [w \in Worker |-> [i \in DOMAIN Batch[w[1]] |-> From[Batch[w[1]][i]]]]

Phase(r) ==
  CASE r.pc \in {"start", "media", "lookup", "lock", "wait"} -> "open"
    [] r.pc = "turn" -> "turn"
    [] OTHER -> "settled"

Places == [w \in Worker |-> worker[w].at]
Phases == [w \in Worker |-> Phase(worker[w])]

Turns == INSTANCE MessageTurns WITH Delivery <- Worker, at <- Places, phase <- Phases

\* A delivery's messages are handled in order and get at most one turn each,
\* never two of one customer at once, whatever is read, waited for, sent,
\* retried or given up on the way.
ImplementsTurns == Turns!Spec
=============================================================================
