------------------------- MODULE WhatsAppReplyProofs -------------------------
(***************************************************************************)
(* A delivery gives each of its messages at most one turn, and what a turn *)
(* decided to say reaches the customer, for any payloads, deliveries,      *)
(* browses and numbers of retries.                                         *)
(***************************************************************************)
EXTENDS WhatsAppChannelProofs, FiniteSetTheorems, SequenceTheorems

\* The phases before a message's turn, and those from it on.
BeforeTurn == {"off", "start", "media", "lookup", "lock", "wait"}
FromTurn == {"turn", "speak", "upload", "post", "finished", "done"}

\* The pictures the browse loop has still to send.
ToSend(r) == {r.cards[i] : i \in Photos(r.cards)}

\* What a message owes its customer has been shown, is being said, or is still
\* to come in one of the ways the phase allows.
Owing(r) ==
  /\ r.pc \in BeforeTurn \cup {"turn"} => r.due = {}
  /\ r.pc \in {"speak", "upload"} => r.due = {"reply"}
  /\ r.pc = "post" =>
       r.due \subseteq r.shown \cup r.saying
                       \cup (IF r.form = "card" THEN r.missing \cup ToSend(r) ELSE {})
  /\ r.pc = "finished" /\ r.cause # "whatsapp" => r.due \subseteq r.shown

Fits(w, r) ==
  /\ DOMAIN r = DOMAIN Idle
  /\ r.at \in 0 .. Len(Batch[w[1]])
  /\ r.lock \in Lock \cup {None}
  /\ r.tries \in 0 .. MaxRetries
  /\ r.cards \in Seq(Product)

WorkerOK(w, r) == Fits(w, r) /\ r.pc \in BeforeTurn \cup FromTurn /\ Owing(r)

\* Delivery w has given message i of its payload its turn.
Turned(w, i) ==
  \/ worker[w].at > i
  \/ worker[w].at = i /\ worker[w].pc \in FromTurn

TurnedIn(p, i) == {n \in 1 .. posted[p] : Turned(<<p, n>>, i)}

ChannelTyped ==
  /\ posted \in [Payload -> Nat]
  /\ \A p \in Payload : posted[p] <= MaxDeliveries[p]
  /\ guard \in Worker \cup {None}
  /\ locks \in [Customer -> Lock \cup {None}]
  /\ holder \in [Lock -> Worker \cup {None}]
  /\ turns \in [Message -> Nat]
  /\ DOMAIN worker = Worker
  /\ \A w \in Worker : WorkerOK(w, worker[w])

\* Only deliveries that were made run, and a message had no more turns than
\* deliveries that have given it one.
TurnsCounted ==
  /\ \A w \in Worker : worker[w].pc # "off" => w[2] <= posted[w[1]]
  /\ \A p \in Payload : \A i \in DOMAIN Batch[p] :
       turns[Batch[p][i]] <= Cardinality(TurnedIn(p, i))

ChannelInv == LockInv /\ ChannelTyped /\ TurnsCounted

-----------------------------------------------------------------------------
(* The reply.                                                              *)

LEMMA LeastIndex ==
  ASSUME NEW S \in SUBSET Nat, S # {}
  PROVE  Min(S) \in S /\ \A x \in S : Min(S) <= x
<1> DEFINE R == {ss \in Nat \X Nat : ss[1] < ss[2]}
<1>1. IsWellFoundedOn(R, Nat)
      BY NatLessThanWellFounded DEF OpToRel
<1> HIDE DEF R
<1>2. \E x \in S : \A y \in S : ~(<<y, x>> \in R)
      BY <1>1, WFMin, Zenon
<1>3. PICK x \in S : \A y \in S : ~(<<y, x>> \in R)
      BY <1>2
<1>4. \A y \in S : x <= y
  <2> TAKE y \in S
  <2>1. x \in Nat /\ y \in Nat
        OBVIOUS
  <2>2. ~(y < x)
        BY <1>3, <2>1 DEF R
  <2>   QED
        BY <2>1, <2>2
<1>   QED
      BY <1>4 DEF Min

LEMMA SaysOK ==
  ASSUME NEW w, NEW r, Fits(w, r), NEW lines, NEW form,
         r.due \subseteq r.shown \cup lines
                         \cup (IF form = "card" THEN r.missing \cup ToSend(r) ELSE {})
  PROVE  WorkerOK(w, Says(r, lines, form))
<1> DEFINE s == Says(r, lines, form)
<1>1. /\ DOMAIN s = DOMAIN Idle /\ s.pc = "post" /\ s.saying = lines /\ s.form = form
      /\ s.tries = 0 /\ s.at = r.at /\ s.lock = r.lock /\ s.cards = r.cards
      /\ s.due = r.due /\ s.shown = r.shown /\ s.missing = r.missing
      BY DEF Fits, Says, Idle
<1> HIDE DEF s
<1>2. Fits(w, s)
      BY <1>1, ChannelFacts DEF Fits
<1>3. ToSend(s) = ToSend(r)
      BY <1>1 DEF ToSend
<1>4. Owing(s)
      BY <1>1, <1>3 DEF Owing, BeforeTurn
<1>   QED
      BY <1>1, <1>2, <1>4 DEF WorkerOK, FromTurn, s

LEMMA FinishedOK ==
  ASSUME NEW w, NEW r, Fits(w, r), NEW cause,
         cause # "whatsapp" => r.due \subseteq r.shown
  PROVE  WorkerOK(w, Finished(r, cause))
<1> DEFINE s == Finished(r, cause)
<1>1. /\ DOMAIN s = DOMAIN Idle /\ s.pc = "finished" /\ s.cause = cause
      /\ s.tries = r.tries /\ s.at = r.at /\ s.lock = r.lock /\ s.cards = r.cards
      /\ s.due = r.due /\ s.shown = r.shown
      BY DEF Fits, Finished, Idle
<1> HIDE DEF s
<1>2. Fits(w, s) /\ Owing(s)
      BY <1>1 DEF Fits, Owing, BeforeTurn
<1>   QED
      BY <1>1, <1>2 DEF WorkerOK, FromTurn, s

\* The browse loop sends the first picture that is left; those before it are
\* of products without one, which the trailing text lists.
LEMMA ShowCardOK ==
  ASSUME NEW w, NEW r, Fits(w, r), Photos(r.cards) # {},
         r.due \subseteq r.shown \cup r.missing \cup ToSend(r)
  PROVE  WorkerOK(w, ShowCard(r, Min(Photos(r.cards))))
<1> DEFINE i == Min(Photos(r.cards))
           rest == SubSeq(r.cards, i + 1, Len(r.cards))
           q == [r EXCEPT !.cards = rest]
<1>1. r.cards \in Seq(Product) /\ Len(r.cards) \in Nat /\ DOMAIN r.cards = 1 .. Len(r.cards)
      BY DEF Fits
<1>2. i \in Photos(r.cards) /\ \A j \in Photos(r.cards) : i <= j
  <2>1. Photos(r.cards) \in SUBSET Nat
        BY <1>1 DEF Photos
  <2>   QED
        BY <2>1, LeastIndex
<1> HIDE DEF i
<1>3. i \in 1 .. Len(r.cards)
      BY <1>1, <1>2 DEF Photos
<1>4. /\ rest \in Seq(Product) /\ Len(rest) = Len(r.cards) - i
      /\ \A j \in 1 .. Len(r.cards) - i : rest[j] = r.cards[i + j]
  <2>1. \A j \in i + 1 .. Len(r.cards) : r.cards[j] \in Product
        BY <1>1, <1>3
  <2>2. i + 1 \in Int /\ Len(r.cards) \in Int
        BY <1>1, <1>3
  <2>3. /\ rest \in Seq(Product)
        /\ Len(rest) = IF i + 1 <= Len(r.cards) THEN Len(r.cards) - (i + 1) + 1 ELSE 0
        /\ \A j \in 1 .. Len(r.cards) - (i + 1) + 1 : rest[j] = r.cards[i + 1 + j - 1]
        BY <2>1, <2>2, SubSeqProperties
  <2> HIDE DEF rest
  <2>   QED
        BY <1>1, <1>3, <2>3
<1> HIDE DEF rest
<1>5. /\ DOMAIN q = DOMAIN Idle /\ q.cards = rest /\ q.at = r.at /\ q.lock = r.lock
      /\ q.tries = r.tries /\ q.due = r.due /\ q.shown = r.shown /\ q.missing = r.missing
      BY DEF Fits, Idle
<1> HIDE DEF q
<1>6. Fits(w, q)
      BY <1>4, <1>5 DEF Fits
<1>7. ToSend(r) \subseteq {r.cards[i]} \cup ToSend(q)
  <2> SUFFICES ASSUME NEW j \in Photos(r.cards), r.cards[j] # r.cards[i]
               PROVE  r.cards[j] \in ToSend(q)
      BY DEF ToSend
  <2>1. j \in 1 .. Len(r.cards) /\ r.cards[j] \in HasPhoto /\ i <= j /\ j # i
        BY <1>1, <1>2 DEF Photos
  <2>2. j - i \in 1 .. Len(r.cards) - i /\ i + (j - i) = j
        BY <1>1, <1>3, <2>1
  <2>3. j - i \in DOMAIN q.cards /\ q.cards[j - i] = r.cards[j]
        BY <1>4, <1>5, <2>2
  <2>   QED
        BY <2>1, <2>3 DEF ToSend, Photos
<1>8. WorkerOK(w, Says(q, {r.cards[i]}, "card"))
      BY <1>5, <1>6, <1>7, SaysOK
<1>   QED
      BY <1>8 DEF ShowCard, q, rest, i

LEMMA NextCardOK ==
  ASSUME NEW w, NEW r, Fits(w, r),
         r.due \subseteq r.shown \cup r.missing \cup ToSend(r)
  PROVE  WorkerOK(w, NextCard(r))
<1>1. CASE Photos(r.cards) # {}
      BY <1>1, ShowCardOK DEF NextCard
<1>2. CASE Photos(r.cards) = {}
  <2>1. ToSend(r) = {}
        BY <1>2 DEF ToSend
  <2>2. CASE r.missing # {}
    <3>1. NextCard(r) = Says(r, r.missing, "text")
          BY <1>2, <2>2 DEF NextCard
    <3>   QED
          BY <2>1, <3>1, SaysOK
  <2>3. CASE r.missing = {}
    <3>1. NextCard(r) = Finished(r, "none")
          BY <1>2, <2>3 DEF NextCard
    <3>   QED
          BY <2>1, <2>3, <3>1, FinishedOK
  <2>   QED
        BY <2>2, <2>3
<1>   QED
      BY <1>1, <1>2

LEMMA ShownOK ==
  ASSUME NEW w, NEW r, WorkerOK(w, r), r.pc = "post"
  PROVE  /\ WorkerOK(w, Shown(r)) /\ Shown(r).pc = "post" /\ Shown(r).at = r.at
         /\ Shown(r).saying \subseteq Shown(r).shown
<1> DEFINE s == Shown(r)
<1>1. /\ DOMAIN s = DOMAIN Idle /\ s.pc = "post" /\ s.saying = r.saying /\ s.form = r.form
      /\ s.tries = r.tries /\ s.at = r.at /\ s.lock = r.lock /\ s.cards = r.cards
      /\ s.due = r.due /\ s.shown = r.shown \cup r.saying /\ s.missing = r.missing
      BY DEF WorkerOK, Fits, Shown, Idle
<1> HIDE DEF s
<1>2. Fits(w, s) /\ ToSend(s) = ToSend(r)
      BY <1>1 DEF WorkerOK, Fits, ToSend
<1>3. Owing(s)
      BY <1>1, <1>2 DEF WorkerOK, Owing, BeforeTurn
<1>   QED
      BY <1>1, <1>2, <1>3 DEF WorkerOK, FromTurn, s

LEMMA SentOK ==
  ASSUME NEW w, NEW r, WorkerOK(w, r), r.pc = "post", r.saying \subseteq r.shown
  PROVE  WorkerOK(w, Sent(r))
<1>1. CASE r.form = "card"
      BY <1>1, NextCardOK DEF Sent, WorkerOK, Owing
<1>2. CASE r.form # "card"
      BY <1>2, FinishedOK DEF Sent, WorkerOK, Owing
<1>   QED
      BY <1>1, <1>2

\* A picture that cannot be sent is left to the trailing text, and a photo's
\* caption is sent as text.
LEMMA SendFailedOK ==
  ASSUME NEW w, NEW r, WorkerOK(w, r), r.pc = "post"
  PROVE  WorkerOK(w, SendFailed(r))
<1>1. CASE r.form = "card"
  <2> DEFINE q == [r EXCEPT !.missing = @ \cup r.saying]
  <2>1. /\ DOMAIN q = DOMAIN Idle /\ q.tries = r.tries /\ q.at = r.at /\ q.lock = r.lock
        /\ q.cards = r.cards /\ q.due = r.due /\ q.shown = r.shown
        /\ q.missing = r.missing \cup r.saying
        BY DEF WorkerOK, Fits, Idle
  <2>2. SendFailed(r) = NextCard(q)
        BY <1>1 DEF SendFailed
  <2> HIDE DEF q
  <2>3. Fits(w, q) /\ ToSend(q) = ToSend(r)
        BY <2>1 DEF WorkerOK, Fits, ToSend
  <2>4. q.due \subseteq q.shown \cup q.missing \cup ToSend(q)
        BY <1>1, <2>1, <2>3 DEF WorkerOK, Owing
  <2>   QED
        BY <2>2, <2>3, <2>4, NextCardOK
<1>2. CASE r.form = "photo"
  <2>1. SendFailed(r) = Says(r, r.saying, "text")
        BY <1>2 DEF SendFailed
  <2>   QED
        BY <1>2, <2>1, SaysOK DEF WorkerOK, Owing
<1>3. CASE r.form \notin {"card", "photo"}
  <2>1. SendFailed(r) = Finished(r, "whatsapp")
        BY <1>3 DEF SendFailed
  <2>   QED
        BY <2>1, FinishedOK DEF WorkerOK
<1>   QED
      BY <1>1, <1>2, <1>3

LEMMA ReplyingOK ==
  ASSUME NEW w, NEW r, WorkerOK(w, r), r.pc = "turn",
         NEW type, NEW browse \in Browses \cup {<<>>}, NEW form \in {"text", "photo"}
  PROVE  WorkerOK(w, Replying(r, type, browse, form))
<1>1. Fits(w, r)
      BY DEF WorkerOK
<1>2. CASE type = "audio"
  <2> DEFINE s == [r EXCEPT !.pc = "speak", !.due = {"reply"}]
  <2>1. /\ DOMAIN s = DOMAIN Idle /\ s.pc = "speak" /\ s.due = {"reply"} /\ s.tries = r.tries
        /\ s.at = r.at /\ s.lock = r.lock /\ s.cards = r.cards
        BY <1>1 DEF Fits, Idle
  <2>2. Replying(r, type, browse, form) = s
        BY <1>2 DEF Replying
  <2> HIDE DEF s
  <2>   QED
        BY <1>1, <2>1, <2>2 DEF WorkerOK, Fits, Owing, BeforeTurn, FromTurn
<1>3. CASE type # "audio" /\ browse # <<>>
  <2> DEFINE q == Browsing(r, browse)
  <2>1. /\ DOMAIN q = DOMAIN Idle /\ q.tries = r.tries /\ q.at = r.at /\ q.lock = r.lock
        /\ q.cards = browse /\ q.due = ToSet(browse) /\ q.missing = ToSet(browse) \ HasPhoto
        BY <1>1 DEF Fits, Browsing, Idle
  <2>2. Replying(r, type, browse, form) = NextCard(q)
        BY <1>3 DEF Replying
  <2> HIDE DEF q
  <2>3. browse \in Seq(Product)
        BY <1>3, ChannelFacts
  <2>4. Fits(w, q)
        BY <1>1, <2>1, <2>3 DEF Fits
  <2>5. q.due \subseteq q.missing \cup ToSend(q)
        BY <2>1 DEF ToSend, Photos, ToSet
  <2>   QED
        BY <2>2, <2>4, <2>5, NextCardOK
<1>4. CASE type # "audio" /\ browse = <<>>
  <2> DEFINE q == [r EXCEPT !.due = {"reply"}]
  <2>1. /\ DOMAIN q = DOMAIN Idle /\ q.tries = r.tries /\ q.at = r.at /\ q.lock = r.lock
        /\ q.cards = r.cards /\ q.due = {"reply"}
        BY <1>1 DEF Fits, Idle
  <2>2. Replying(r, type, browse, form) = Says(q, {"reply"}, form)
        BY <1>4 DEF Replying
  <2> HIDE DEF q
  <2>3. Fits(w, q)
        BY <1>1, <2>1 DEF Fits
  <2>   QED
        BY <2>1, <2>2, <2>3, SaysOK
<1>   QED
      BY <1>2, <1>3, <1>4

\* A worker that has said nothing yet, and owes nothing.
LEMMA MovedOK ==
  ASSUME NEW w, NEW r, WorkerOK(w, r), NEW s, Fits(w, s), s.due = r.due,
         \/ r.pc \in BeforeTurn /\ s.pc \in BeforeTurn \cup {"turn"}
         \/ r.pc = "speak" /\ s.pc = "upload"
  PROVE  WorkerOK(w, s)
BY DEF WorkerOK, Owing, BeforeTurn, FromTurn

-----------------------------------------------------------------------------
(* A worker's step.                                                        *)

LEMMA TypedStep ==
  ASSUME ChannelTyped, NEW w \in Worker, NEW s, WorkerOK(w, s), Becomes(w, s),
         UNCHANGED posted, guard' \in Worker \cup {None},
         locks' \in [Customer -> Lock \cup {None}],
         holder' \in [Lock -> Worker \cup {None}],
         turns' \in [Message -> Nat]
  PROVE  ChannelTyped'
<1>1. /\ DOMAIN worker' = Worker /\ worker'[w] = s
      /\ \A v \in Worker : v # w => worker'[v] = worker[v]
      BY DEF Becomes, ChannelTyped
<1>2. ASSUME NEW v \in Worker
      PROVE  WorkerOK(v, worker'[v])
  <2>1. WorkerOK(v, worker[v])
        BY DEF ChannelTyped
  <2>   QED
        BY <1>1, <2>1
<1>3. (\A v \in Worker : WorkerOK(v, worker[v]))'
      BY <1>2 DEF WorkerOK, Fits, Owing, ToSend
<1>   QED
      BY <1>1, <1>3 DEF ChannelTyped

LEMMA TurnedAreFinite ==
  ASSUME ChannelTyped, NEW p \in Payload, NEW i
  PROVE  /\ IsFiniteSet(TurnedIn(p, i)) /\ Cardinality(TurnedIn(p, i)) \in Nat
         /\ Cardinality(TurnedIn(p, i)) <= posted[p]
<1>1. posted[p] \in Nat
      BY DEF ChannelTyped
<1>2. IsFiniteSet(1 .. posted[p]) /\ Cardinality(1 .. posted[p]) = posted[p]
      BY <1>1, FS_Interval
<1>3. TurnedIn(p, i) \subseteq 1 .. posted[p]
      BY DEF TurnedIn
<1>   QED
      BY <1>2, <1>3, FS_Subset, FS_CardinalityType

LEMMA TurnedStayFinite ==
  ASSUME ChannelTyped', NEW p \in Payload, NEW i
  PROVE  IsFiniteSet(TurnedIn(p, i)') /\ Cardinality(TurnedIn(p, i))' \in Nat
<1> DEFINE B == TurnedIn(p, i)'
<1>1. posted'[p] \in Nat
      BY DEF ChannelTyped
<1>2. IsFiniteSet(1 .. posted'[p])
      BY <1>1, FS_Interval
<1>3. B \subseteq 1 .. posted'[p]
      BY DEF TurnedIn
<1> HIDE DEF B
<1>4. IsFiniteSet(B) /\ Cardinality(B) \in Nat
      BY <1>2, <1>3, FS_Subset, FS_CardinalityType
<1>   QED
      BY <1>4 DEF B

\* Deliveries that have given a message its turn stay deliveries that have.
LEMMA CountGrows ==
  ASSUME ChannelTyped, ChannelTyped', NEW p \in Payload, NEW i, posted[p] <= posted'[p],
         \A n \in 1 .. posted[p] : Turned(<<p, n>>, i) => Turned(<<p, n>>, i)'
  PROVE  Cardinality(TurnedIn(p, i)) <= Cardinality(TurnedIn(p, i))'
<1> DEFINE A == TurnedIn(p, i)
           B == TurnedIn(p, i)'
<1>1. posted[p] \in Nat /\ posted'[p] \in Nat
      BY DEF ChannelTyped
<1>2. IsFiniteSet(B)
      BY TurnedStayFinite
<1>3. A \subseteq B
      BY <1>1 DEF TurnedIn
<1> HIDE DEF A, B
<1>4. Cardinality(A) <= Cardinality(B)
      BY <1>2, <1>3, FS_Subset
<1>   QED
      BY <1>4 DEF A, B

\* A step that runs no turn: its worker goes on with its message, or to the next.
LEMMA CountedStep ==
  ASSUME ChannelInv, ChannelTyped', NEW w \in Worker, NEW s, Becomes(w, s),
         UNCHANGED <<posted, turns>>, worker[w].pc # "off",
         \/ s.at = worker[w].at /\ (worker[w].pc \in FromTurn => s.pc \in FromTurn)
         \/ s.at = worker[w].at + 1
  PROVE  TurnsCounted'
<1>1. /\ worker'[w] = s /\ \A v \in Worker : v # w => worker'[v] = worker[v]
      BY DEF Becomes, ChannelInv, ChannelTyped
<1>2. ASSUME NEW v \in Worker, NEW i \in Nat, Turned(v, i)
      PROVE  Turned(v, i)'
  <2>1. CASE v # w
        BY <1>1, <1>2, <2>1 DEF Turned
  <2>2. CASE v = w
    <3>1. worker[w].at \in Nat
          BY DEF ChannelInv, ChannelTyped, WorkerOK, Fits
    <3>   QED
          BY <1>1, <1>2, <2>2, <3>1 DEF Turned
  <2>   QED
        BY <2>1, <2>2
<1>3. ASSUME NEW p \in Payload, NEW i \in DOMAIN Batch[p]
      PROVE  turns'[Batch[p][i]] <= Cardinality(TurnedIn(p, i))'
  <2>1. Batch[p] \in Seq(Message) /\ i \in Nat /\ Batch[p][i] \in Message
        BY <1>3, ChannelFacts
  <2>2. posted[p] \in Nat /\ posted[p] <= MaxDeliveries[p] /\ MaxDeliveries[p] \in Nat
        BY ChannelFacts DEF ChannelInv, ChannelTyped
  <2>3. \A n \in 1 .. posted[p] : <<p, n>> \in Worker
        BY <2>2 DEF Worker
  <2>4. Cardinality(TurnedIn(p, i)) <= Cardinality(TurnedIn(p, i))'
        BY <1>2, <2>1, <2>2, <2>3, CountGrows DEF ChannelInv
  <2>5. turns'[Batch[p][i]] = turns[Batch[p][i]] /\ turns[Batch[p][i]] \in Nat
        BY <2>1 DEF ChannelInv, ChannelTyped
  <2>6. turns[Batch[p][i]] <= Cardinality(TurnedIn(p, i))
        BY DEF ChannelInv, TurnsCounted
  <2>7. Cardinality(TurnedIn(p, i)) \in Nat /\ Cardinality(TurnedIn(p, i))' \in Nat
    <3>1. Cardinality(TurnedIn(p, i)) \in Nat
          BY TurnedAreFinite DEF ChannelInv
    <3>2. Cardinality(TurnedIn(p, i))' \in Nat
          BY TurnedStayFinite
    <3>   QED
          BY <3>1, <3>2
  <2>   QED
        BY <2>4, <2>5, <2>6, <2>7
<1>4. ASSUME NEW v \in Worker, worker'[v].pc # "off"
      PROVE  v[2] <= posted'[v[1]]
      BY <1>1, <1>4 DEF ChannelInv, TurnsCounted
<1>   QED
      BY <1>3, <1>4 DEF TurnsCounted

\* A step that changes nothing but its worker and, with the lock's, the tables.
LEMMA WorkerStep ==
  ASSUME ChannelInv, NEW w \in Worker, NEW s, WorkerOK(w, s), Becomes(w, s),
         UNCHANGED <<posted, turns>>, worker[w].pc # "off",
         guard' \in Worker \cup {None},
         locks' \in [Customer -> Lock \cup {None}],
         holder' \in [Lock -> Worker \cup {None}],
         \/ s.at = worker[w].at /\ (worker[w].pc \in FromTurn => s.pc \in FromTurn)
         \/ s.at = worker[w].at + 1
  PROVE  ChannelTyped' /\ TurnsCounted'
<1>1. ChannelTyped'
  <2>1. turns' \in [Message -> Nat] /\ UNCHANGED posted
        BY DEF ChannelInv, ChannelTyped
  <2>   QED
        BY <2>1, TypedStep DEF ChannelInv
<1>   QED
      BY <1>1, CountedStep

LEMMA TablesStay ==
  ASSUME ChannelInv, NoLocking
  PROVE  /\ guard' \in Worker \cup {None}
         /\ locks' \in [Customer -> Lock \cup {None}]
         /\ holder' \in [Lock -> Worker \cup {None}]
BY DEF NoLocking, ChannelInv, ChannelTyped

LEMMA WorkerIsOK ==
  ASSUME ChannelInv, NEW w \in Worker
  PROVE  WorkerOK(w, worker[w]) /\ Fits(w, worker[w]) /\ DOMAIN worker[w] = DOMAIN Idle
BY DEF ChannelInv, ChannelTyped, WorkerOK, Fits

LEMMA HandleKeepsChannel ==
  ASSUME ChannelInv, NEW w \in Worker, HandleMessage(w)
  PROVE  ChannelTyped' /\ TurnsCounted'
<1> DEFINE r == worker[w]
<1>1. r.pc = "start" /\ NoLocking /\ UNCHANGED <<posted, turns>>
      BY DEF HandleMessage
<1>2. WorkerOK(w, r) /\ Fits(w, r) /\ DOMAIN r = DOMAIN Idle
      BY WorkerIsOK
<1>3. \E s : Becomes(w, s) /\ WorkerOK(w, s) /\ s.at = r.at
  <2>1. ASSUME NEW pc \in {"lookup", "media"}
        PROVE  WorkerOK(w, [r EXCEPT !.pc = pc]) /\ [r EXCEPT !.pc = pc].at = r.at
    <3> DEFINE s == [r EXCEPT !.pc = pc]
    <3>1. /\ DOMAIN s = DOMAIN Idle /\ s.pc = pc /\ s.at = r.at /\ s.lock = r.lock
          /\ s.tries = r.tries /\ s.cards = r.cards /\ s.due = r.due
          BY <1>2 DEF Idle
    <3> HIDE DEF s
    <3>2. Fits(w, s)
          BY <1>2, <3>1 DEF Fits
    <3>3. WorkerOK(w, s)
          BY <1>1, <1>2, <3>1, <3>2, MovedOK DEF BeforeTurn
    <3>   QED
          BY <3>1, <3>3 DEF s
  <2>2. ASSUME NEW cause
        PROVE  WorkerOK(w, Finished(r, cause)) /\ Finished(r, cause).at = r.at
    <3>1. r.due = {}
          BY <1>1, <1>2 DEF WorkerOK, Owing, BeforeTurn
    <3>2. Finished(r, cause).at = r.at
          BY <1>2, FinishedFollows DEF Follows
    <3>   QED
          BY <1>2, <3>1, <3>2, FinishedOK
  <2>3. CASE Type[Current(w)] = "text"
        BY <2>1, <2>3 DEF HandleMessage
  <2>4. CASE Type[Current(w)] \in {"audio", "image"}
        BY <2>1, <2>4 DEF HandleMessage
  <2>5. CASE Type[Current(w)] \notin {"text", "audio", "image"}
        BY <2>2, <2>5 DEF HandleMessage
  <2>   QED
        BY <2>3, <2>4, <2>5
<1>   QED
      BY <1>1, <1>3, TablesStay, WorkerStep DEF FromTurn

LEMMA ReadKeepsChannel ==
  ASSUME ChannelInv, NEW w \in Worker, ReadMedia(w)
  PROVE  ChannelTyped' /\ TurnsCounted'
<1> DEFINE r == worker[w]
<1>1. r.pc = "media" /\ NoLocking /\ UNCHANGED <<posted, turns>>
      BY DEF ReadMedia
<1>2. WorkerOK(w, r) /\ Fits(w, r) /\ DOMAIN r = DOMAIN Idle /\ r.due = {}
      BY <1>1, WorkerIsOK DEF WorkerOK, Owing, BeforeTurn
<1>3. \E s : Becomes(w, s) /\ WorkerOK(w, s) /\ s.at = r.at
  <2>1. CASE Becomes(w, [r EXCEPT !.pc = "lookup"])
    <3> DEFINE s == [r EXCEPT !.pc = "lookup"]
    <3>1. /\ DOMAIN s = DOMAIN Idle /\ s.pc = "lookup" /\ s.at = r.at /\ s.lock = r.lock
          /\ s.tries = r.tries /\ s.cards = r.cards /\ s.due = r.due
          BY <1>2 DEF Idle
    <3>2. Becomes(w, s)
          BY <2>1
    <3> HIDE DEF s
    <3>3. Fits(w, s)
          BY <1>2, <3>1 DEF Fits
    <3>4. WorkerOK(w, s)
          BY <1>1, <1>2, <3>1, <3>3, MovedOK DEF BeforeTurn
    <3>   QED
          BY <3>1, <3>2, <3>4
  <2>2. CASE Becomes(w, Says([r EXCEPT !.due = {"apology"}], {"apology"}, "text"))
    <3> DEFINE q == [r EXCEPT !.due = {"apology"}]
    <3>1. /\ DOMAIN q = DOMAIN Idle /\ q.due = {"apology"} /\ q.at = r.at /\ q.lock = r.lock
          /\ q.tries = r.tries /\ q.cards = r.cards
          BY <1>2 DEF Idle
    <3>2. Becomes(w, Says(q, {"apology"}, "text"))
          BY <2>2
    <3> HIDE DEF q
    <3>3. Fits(w, q)
          BY <1>2, <3>1 DEF Fits
    <3>4. WorkerOK(w, Says(q, {"apology"}, "text"))
          BY <3>1, <3>3, SaysOK
    <3>5. Says(q, {"apology"}, "text").at = r.at
          BY <3>1, SaysFollows DEF Follows
    <3>   QED
          BY <3>2, <3>4, <3>5
  <2>3. CASE Becomes(w, Finished(r, "media"))
    <3>1. Finished(r, "media").at = r.at
          BY <1>2, FinishedFollows DEF Follows
    <3>   QED
          BY <1>2, <2>3, <3>1, FinishedOK
  <2>   QED
        BY <2>1, <2>2, <2>3 DEF ReadMedia
<1>   QED
      BY <1>1, <1>3, TablesStay, WorkerStep DEF FromTurn

\* The steps that look the lock up, before the turn.
LEMMA LookupKeepsChannel ==
  ASSUME ChannelInv, NEW w \in Worker, SessionLock(w) \/ SessionLockReturns(w)
  PROVE  ChannelTyped' /\ TurnsCounted'
<1> DEFINE r == worker[w]
<1>1. WorkerOK(w, r) /\ Fits(w, r) /\ DOMAIN r = DOMAIN Idle
      BY WorkerIsOK
<1>2. /\ r.pc \in {"lookup", "lock"} /\ UNCHANGED <<posted, turns, holder>>
      BY DEF SessionLock, SessionLockReturns
<1>3. Sender(w) \in Customer
      BY <1>2, SenderIsCustomer DEF ChannelInv
<1>4. PICK l \in Lock \cup {None}, pc \in {"lock", "wait"} :
        /\ Becomes(w, [r EXCEPT !.pc = pc, !.lock = l])
        /\ guard' \in Worker \cup {None}
        /\ locks' \in [Customer -> Lock \cup {None}]
  <2>1. locks \in [Customer -> Lock \cup {None}]
        BY DEF ChannelInv, ChannelTyped
  <2>2. CASE SessionLock(w)
    <3>1. /\ Becomes(w, [r EXCEPT !.pc = "lock", !.lock = locks[Sender(w)]])
          /\ guard' = w /\ locks' = locks /\ locks[Sender(w)] \in Lock \cup {None}
          BY <1>3, <2>1, <2>2 DEF SessionLock
    <3>   QED
          BY <2>1, <3>1
  <2>3. CASE SessionLockReturns(w)
    <3> DEFINE lock == IF worker[w].lock = None THEN <<w, Sender(w)>> ELSE worker[w].lock
    <3>1. lock \in Lock \cup {None}
          BY <1>1, <1>3 DEF Fits, Lock
    <3>2. /\ Becomes(w, [r EXCEPT !.pc = "wait", !.lock = lock])
          /\ guard' = None /\ locks' = [locks EXCEPT ![Sender(w)] = lock]
          BY <2>3 DEF SessionLockReturns
    <3> HIDE DEF lock
    <3>3. locks' \in [Customer -> Lock \cup {None}]
          BY <2>1, <3>1, <3>2
    <3>   QED
          BY <3>1, <3>2, <3>3
  <2>   QED
        BY <2>2, <2>3
<1> DEFINE s == [r EXCEPT !.pc = pc, !.lock = l]
<1>5. /\ DOMAIN s = DOMAIN Idle /\ s.pc = pc /\ s.at = r.at /\ s.lock = l
      /\ s.tries = r.tries /\ s.cards = r.cards /\ s.due = r.due
      BY <1>1 DEF Idle
<1>6. Becomes(w, s)
      BY <1>4
<1> HIDE DEF s
<1>7. Fits(w, s)
      BY <1>1, <1>5 DEF Fits
<1>8. WorkerOK(w, s)
      BY <1>1, <1>2, <1>5, <1>7, MovedOK DEF BeforeTurn
<1>9. holder' \in [Lock -> Worker \cup {None}]
      BY <1>2 DEF ChannelInv, ChannelTyped
<1>   QED
      BY <1>2, <1>4, <1>5, <1>6, <1>8, <1>9, WorkerStep DEF FromTurn

\* The delivery whose worker gets the lock had not given the message its turn.
LEMMA TurnIsCounted ==
  ASSUME ChannelInv, ChannelTyped', NEW w \in Worker, RouteCustomer(w)
  PROVE  TurnsCounted'
<1> DEFINE s == [worker[w] EXCEPT !.pc = "turn"]
           p == w[1]
           n == w[2]
           k == worker[w].at
<1>1. /\ worker[w].pc = "wait" /\ UNCHANGED posted
      /\ turns' = [turns EXCEPT ![Current(w)] = @ + 1]
      /\ Becomes(w, s)
      BY DEF RouteCustomer
<1>2. p \in Payload /\ w = <<p, n>> /\ n \in 1 .. MaxDeliveries[p]
      BY DEF Worker
<1>3. k \in DOMAIN Batch[p] /\ Batch[p] \in Seq(Message) /\ k \in Nat
  <2>1. Batch[p] \in Seq(Message)
        BY <1>2, ChannelFacts
  <2>2. k \in DOMAIN Batch[p]
        BY <1>1 DEF ChannelInv, LockInv, Shaped, Placed
  <2> HIDE DEF p, k
  <2>   QED
        BY <2>1, <2>2
<1>4. Current(w) = Batch[p][k] /\ Batch[p][k] \in Message
      BY <1>3 DEF Current
<1>5. /\ worker'[w].pc = "turn" /\ worker'[w].at = k
      /\ \A v \in Worker : v # w => worker'[v] = worker[v]
  <2>1. DOMAIN worker = Worker /\ DOMAIN worker[w] = DOMAIN Idle
        BY DEF ChannelInv, ChannelTyped, WorkerOK, Fits
  <2>   QED
        BY <1>1, <2>1 DEF Becomes, Idle
<1>6. ASSUME NEW v \in Worker, NEW i \in Nat, Turned(v, i)
      PROVE  Turned(v, i)'
      BY <1>1, <1>3, <1>5, <1>6 DEF Turned, FromTurn
<1> HIDE DEF s, p, n, k
<1>7. ASSUME NEW q \in Payload, NEW i \in DOMAIN Batch[q]
      PROVE  turns'[Batch[q][i]] <= Cardinality(TurnedIn(q, i))'
  <2>1. Batch[q] \in Seq(Message) /\ i \in Nat /\ Batch[q][i] \in Message
        BY <1>7, ChannelFacts
  <2>2. posted[q] \in Nat /\ posted[q] <= MaxDeliveries[q] /\ MaxDeliveries[q] \in Nat
        BY ChannelFacts DEF ChannelInv, ChannelTyped
  <2>3. \A j \in 1 .. posted[q] : <<q, j>> \in Worker
        BY <2>2 DEF Worker
  <2>4. turns \in [Message -> Nat] /\ turns[Batch[q][i]] <= Cardinality(TurnedIn(q, i))
        BY DEF ChannelInv, ChannelTyped, TurnsCounted
  <2>5. Cardinality(TurnedIn(q, i)) \in Nat /\ IsFiniteSet(TurnedIn(q, i))
        BY TurnedAreFinite DEF ChannelInv
  <2>6. Cardinality(TurnedIn(q, i))' \in Nat /\ IsFiniteSet(TurnedIn(q, i)')
        BY TurnedStayFinite
  <2>7. CASE Batch[q][i] # Current(w)
    <3>1. turns'[Batch[q][i]] = turns[Batch[q][i]]
          BY <1>1, <1>4, <2>1, <2>4, <2>7
    <3>2. Cardinality(TurnedIn(q, i)) <= Cardinality(TurnedIn(q, i))'
          BY <1>1, <1>6, <2>1, <2>2, <2>3, CountGrows DEF ChannelInv
    <3>   QED
          BY <2>1, <2>4, <2>5, <2>6, <3>1, <3>2
  <2>8. CASE Batch[q][i] = Current(w)
    <3> DEFINE A == TurnedIn(q, i)
               B == TurnedIn(q, i)'
    <3>1. q = p /\ i = k
          BY <1>2, <1>3, <1>4, <2>8, ChannelFacts
    <3>2. n \in 1 .. posted[q]
      <4>1. n <= posted[p]
            BY <1>1 DEF ChannelInv, TurnsCounted, n, p
      <4>   QED
            BY <1>2, <2>2, <3>1, <4>1, ChannelFacts
    <3>3. n \notin A
          BY <1>1, <1>2, <1>3, <3>1 DEF TurnedIn, Turned, FromTurn, k
    <3>4. n \in B
          BY <1>1, <1>2, <1>5, <3>1, <3>2 DEF TurnedIn, Turned, FromTurn
    <3>5. A \subseteq B
          BY <1>1, <1>6, <2>1, <2>3 DEF TurnedIn
    <3>6. IsFiniteSet(A) /\ IsFiniteSet(B)
          BY <2>5, <2>6
    <3> HIDE DEF A, B
    <3>7. Cardinality(A \cup {n}) = Cardinality(A) + 1
          BY <3>3, <3>6, FS_AddElement
    <3>8. Cardinality(A \cup {n}) <= Cardinality(B)
          BY <3>4, <3>5, <3>6, FS_Subset
    <3>9. Cardinality(A) + 1 <= Cardinality(B)
          BY <3>7, <3>8
    <3>10. turns'[Batch[q][i]] = turns[Batch[q][i]] + 1
          BY <1>1, <1>4, <2>1, <2>4, <2>8
    <3>11. turns[Batch[q][i]] <= Cardinality(A) /\ Cardinality(A) \in Nat
           BY <2>4, <2>5 DEF A
    <3>12. turns[Batch[q][i]] \in Nat /\ Cardinality(B) \in Nat
           BY <2>1, <2>4, <2>6 DEF B
    <3>13. turns'[Batch[q][i]] <= Cardinality(B)
           BY <3>9, <3>10, <3>11, <3>12
    <3>   QED
          BY <3>13 DEF B
  <2>   QED
        BY <2>7, <2>8
<1>8. ASSUME NEW v \in Worker, worker'[v].pc # "off"
      PROVE  v[2] <= posted'[v[1]]
      BY <1>1, <1>5, <1>8 DEF ChannelInv, TurnsCounted
<1>   QED
      BY <1>7, <1>8 DEF TurnsCounted

LEMMA RouteKeepsChannel ==
  ASSUME ChannelInv, NEW w \in Worker, RouteCustomer(w)
  PROVE  ChannelTyped' /\ TurnsCounted'
<1> DEFINE r == worker[w]
           s == [r EXCEPT !.pc = "turn"]
<1>1. WorkerOK(w, r) /\ Fits(w, r) /\ DOMAIN r = DOMAIN Idle
      BY WorkerIsOK
<1>2. /\ r.pc = "wait" /\ Becomes(w, s) /\ UNCHANGED <<posted, guard, locks>>
      /\ holder' = [holder EXCEPT ![r.lock] = w]
      /\ turns' = [turns EXCEPT ![Current(w)] = @ + 1]
      BY DEF RouteCustomer
<1>3. /\ DOMAIN s = DOMAIN Idle /\ s.pc = "turn" /\ s.at = r.at /\ s.lock = r.lock
      /\ s.tries = r.tries /\ s.cards = r.cards /\ s.due = r.due
      BY <1>1 DEF Idle
<1> HIDE DEF s
<1>4. Fits(w, s)
      BY <1>1, <1>3 DEF Fits
<1>5. WorkerOK(w, s)
      BY <1>1, <1>2, <1>3, <1>4, MovedOK DEF BeforeTurn
<1>6. /\ guard' \in Worker \cup {None} /\ locks' \in [Customer -> Lock \cup {None}]
      /\ holder' \in [Lock -> Worker \cup {None}] /\ turns' \in [Message -> Nat]
  <2>1. /\ guard \in Worker \cup {None} /\ locks \in [Customer -> Lock \cup {None}]
        /\ holder \in [Lock -> Worker \cup {None}] /\ turns \in [Message -> Nat]
        BY DEF ChannelInv, ChannelTyped
  <2>2. holder' \in [Lock -> Worker \cup {None}]
        BY <1>2, <2>1
  <2>3. turns' \in [Message -> Nat]
    <3>1. turns[Current(w)] + 1 \in Nat \/ Current(w) \notin Message
          BY <2>1
    <3>   QED
          BY <1>2, <2>1, <3>1
  <2>   QED
        BY <1>2, <2>1, <2>2, <2>3
<1>7. ChannelTyped'
      BY <1>2, <1>5, <1>6, TypedStep DEF ChannelInv
<1>   QED
      BY <1>7, TurnIsCounted

\* A step of the reply: the worker stays at its message, and the turn is behind it.
LEMMA ReplyStep ==
  ASSUME ChannelInv, NEW w \in Worker, NEW s, WorkerOK(w, s), Becomes(w, s),
         s.at = worker[w].at, s.pc \in FromTurn, worker[w].pc # "off",
         UNCHANGED <<posted, turns>>, NoLocking
  PROVE  ChannelTyped' /\ TurnsCounted'
BY TablesStay, WorkerStep

LEMMA ReturnKeepsChannel ==
  ASSUME ChannelInv, NEW w \in Worker, RouteCustomerReturns(w)
  PROVE  ChannelTyped' /\ TurnsCounted'
<1> DEFINE r == worker[w]
<1>1. WorkerOK(w, r) /\ Fits(w, r) /\ DOMAIN r = DOMAIN Idle
      BY WorkerIsOK
<1>2. /\ r.pc = "turn" /\ UNCHANGED <<posted, turns, guard, locks>>
      /\ holder' = [holder EXCEPT ![r.lock] = None]
      BY DEF RouteCustomerReturns
<1>3. /\ guard' \in Worker \cup {None} /\ locks' \in [Customer -> Lock \cup {None}]
      /\ holder' \in [Lock -> Worker \cup {None}]
      BY <1>2 DEF ChannelInv, ChannelTyped
<1>4. \E s : Becomes(w, s) /\ WorkerOK(w, s) /\ Follows(r, s)
  <2>1. ASSUME NEW browse \in Browses \cup {<<>>}, NEW form \in {"text", "photo"},
               Becomes(w, Replying(r, Type[Current(w)], browse, form))
        PROVE  \E s : Becomes(w, s) /\ WorkerOK(w, s) /\ Follows(r, s)
        BY <1>1, <1>2, <2>1, ReplyingOK, ReplyingFollows
  <2>2. CASE Becomes(w, Finished(r, "turn"))
    <3>1. r.due = {}
          BY <1>1, <1>2 DEF WorkerOK, Owing
    <3>   QED
          BY <1>1, <2>2, <3>1, FinishedOK, FinishedFollows
  <2>   QED
        BY <2>1, <2>2 DEF RouteCustomerReturns
<1>5. PICK s : Becomes(w, s) /\ WorkerOK(w, s) /\ Follows(r, s)
      BY <1>4
<1>6. s.at = r.at /\ s.pc \in FromTurn
      BY <1>5 DEF Follows, FromTurn
<1>   QED
      BY <1>2, <1>3, <1>5, <1>6, WorkerStep

LEMMA SpeechKeepsChannel ==
  ASSUME ChannelInv, NEW w \in Worker, SynthesizeSpeech(w) \/ UploadAudio(w)
  PROVE  ChannelTyped' /\ TurnsCounted'
<1> DEFINE r == worker[w]
<1>1. WorkerOK(w, r) /\ Fits(w, r) /\ DOMAIN r = DOMAIN Idle
      BY WorkerIsOK
<1>2. r.pc \in {"speak", "upload"} /\ NoLocking /\ UNCHANGED <<posted, turns>>
      BY DEF SynthesizeSpeech, UploadAudio
<1>3. r.due = {"reply"}
      BY <1>1, <1>2 DEF WorkerOK, Owing
<1>4. \E s : Becomes(w, s) /\ WorkerOK(w, s) /\ s.at = r.at /\ s.pc \in FromTurn
  <2>1. CASE r.pc = "speak" /\ Becomes(w, [r EXCEPT !.pc = "upload"])
    <3> DEFINE s == [r EXCEPT !.pc = "upload"]
    <3>1. /\ DOMAIN s = DOMAIN Idle /\ s.pc = "upload" /\ s.at = r.at /\ s.lock = r.lock
          /\ s.tries = r.tries /\ s.cards = r.cards /\ s.due = r.due
          BY <1>1 DEF Idle
    <3>2. Becomes(w, s)
          BY <2>1
    <3> HIDE DEF s
    <3>3. Fits(w, s)
          BY <1>1, <3>1 DEF Fits
    <3>4. WorkerOK(w, s)
          BY <1>1, <2>1, <3>1, <3>3, MovedOK
    <3>   QED
          BY <3>1, <3>2, <3>4 DEF FromTurn
  <2>2. CASE \E form : Becomes(w, Says(r, {"reply"}, form))
    <3>1. PICK form : Becomes(w, Says(r, {"reply"}, form))
          BY <2>2
    <3>2. WorkerOK(w, Says(r, {"reply"}, form))
          BY <1>1, <1>3, SaysOK
    <3>3. Follows(r, Says(r, {"reply"}, form))
          BY <1>1, SaysFollows
    <3>   QED
          BY <3>1, <3>2, <3>3 DEF Follows, FromTurn
  <2>3. CASE Becomes(w, Finished(r, "whatsapp"))
    <3>1. WorkerOK(w, Finished(r, "whatsapp"))
          BY <1>1, FinishedOK
    <3>2. Follows(r, Finished(r, "whatsapp"))
          BY <1>1, FinishedFollows
    <3>   QED
          BY <2>3, <3>1, <3>2 DEF Follows, FromTurn
  <2>   QED
        BY <2>1, <2>2, <2>3 DEF SynthesizeSpeech, UploadAudio
<1>   QED
      BY <1>2, <1>4, ReplyStep

\* What was said counts as shown when the post was accepted, and may count when
\* it went unanswered; the last attempt falls back or gives up.
LEMMA PostKeepsChannel ==
  ASSUME ChannelInv, NEW w \in Worker,
         PostAccepted(w) \/ PostRejected(w) \/ PostUnanswered(w)
  PROVE  ChannelTyped' /\ TurnsCounted'
<1> DEFINE r == worker[w]
<1>1. WorkerOK(w, r) /\ DOMAIN r = DOMAIN Idle
      BY WorkerIsOK
<1>2. r.pc = "post" /\ NoLocking /\ UNCHANGED <<posted, turns>>
      BY DEF PostAccepted, PostRejected, PostUnanswered
<1>3. /\ WorkerOK(w, Shown(r)) /\ Shown(r).pc = "post" /\ Shown(r).at = r.at
      /\ Shown(r).saying \subseteq Shown(r).shown /\ DOMAIN Shown(r) = DOMAIN Idle
      BY <1>1, <1>2, ShownOK, ShownFollows
<1>4. \E s : Becomes(w, s) /\ WorkerOK(w, s) /\ s.at = r.at /\ s.pc \in FromTurn
  <2>1. CASE PostAccepted(w)
    <3>1. WorkerOK(w, Sent(Shown(r))) /\ Follows(Shown(r), Sent(Shown(r)))
          BY <1>3, SentOK, SentFollows
    <3>   QED
          BY <1>3, <2>1, <3>1 DEF PostAccepted, Follows, FromTurn
  <2>2. CASE PostRejected(w)
    <3>1. WorkerOK(w, SendFailed(r)) /\ Follows(r, SendFailed(r))
          BY <1>1, <1>2, SendFailedOK, SendFailedFollows
    <3>   QED
          BY <2>2, <3>1 DEF PostRejected, Follows, FromTurn
  <2>3. CASE PostUnanswered(w)
    <3>1. PICK q \in {r, Shown(r)} :
                 Becomes(w, IF q.tries = MaxRetries THEN SendFailed(q)
                            ELSE [q EXCEPT !.tries = @ + 1])
          BY <2>3 DEF PostUnanswered
    <3>2. WorkerOK(w, q) /\ q.pc = "post" /\ q.at = r.at /\ DOMAIN q = DOMAIN Idle
          BY <1>1, <1>2, <1>3, <3>1
    <3>3. CASE q.tries = MaxRetries
      <4>1. WorkerOK(w, SendFailed(q)) /\ Follows(q, SendFailed(q))
            BY <3>2, SendFailedOK, SendFailedFollows
      <4>   QED
            BY <3>1, <3>2, <3>3, <4>1 DEF Follows, FromTurn
    <3>4. CASE q.tries # MaxRetries
      <4> DEFINE s == [q EXCEPT !.tries = @ + 1]
      <4>1. /\ DOMAIN s = DOMAIN Idle /\ s.pc = "post" /\ s.saying = q.saying
            /\ s.form = q.form /\ s.tries = q.tries + 1 /\ s.at = q.at /\ s.lock = q.lock
            /\ s.cards = q.cards /\ s.due = q.due /\ s.shown = q.shown
            /\ s.missing = q.missing
            BY <3>2 DEF Idle
      <4>2. Becomes(w, s)
            BY <3>1, <3>4
      <4> HIDE DEF s
      <4>3. Fits(w, s) /\ ToSend(s) = ToSend(q)
            BY <3>2, <3>4, <4>1, ChannelFacts DEF WorkerOK, Fits, ToSend
      <4>4. Owing(s)
            BY <3>2, <4>1, <4>3 DEF WorkerOK, Owing, BeforeTurn
      <4>5. WorkerOK(w, s)
            BY <4>1, <4>3, <4>4 DEF WorkerOK, FromTurn
      <4>   QED
            BY <3>2, <4>1, <4>2, <4>5 DEF FromTurn
    <3>   QED
          BY <3>3, <3>4
  <2>   QED
        BY <2>1, <2>2, <2>3
<1>   QED
      BY <1>2, <1>4, ReplyStep

\* A worker that starts a message, or is done, has nothing to say.
LEMMA NothingToSayOK ==
  ASSUME NEW w \in Worker, NEW s, DOMAIN s = DOMAIN Idle, s.pc \in {"start", "done"},
         s.at \in 0 .. Len(Batch[w[1]]), s.lock = None, s.tries = 0, s.cards = <<>>,
         s.due = {}
  PROVE  WorkerOK(w, s)
<1>1. MaxRetries \in Nat /\ <<>> \in Seq(Product)
      BY ChannelFacts
<1>2. Fits(w, s)
      BY <1>1 DEF Fits
<1>   QED
      BY <1>2 DEF WorkerOK, Owing, BeforeTurn, FromTurn

LEMMA StartingOK ==
  ASSUME NEW w \in Worker, NEW n \in 0 .. Len(Batch[w[1]]), NEW pc \in {"start", "done"}
  PROVE  LET s == [Idle EXCEPT !.at = n, !.pc = pc]
         IN WorkerOK(w, s) /\ s.at = n /\ s.pc = pc
<1> DEFINE s == [Idle EXCEPT !.at = n, !.pc = pc]
<1>1. /\ DOMAIN s = DOMAIN Idle /\ s.pc = pc /\ s.at = n /\ s.lock = None
      /\ s.tries = 0 /\ s.cards = <<>> /\ s.due = {}
      BY DEF Idle
<1> HIDE DEF s
<1>2. WorkerOK(w, s)
      BY <1>1, NothingToSayOK
<1>   QED
      BY <1>1, <1>2 DEF s

LEMMA NextKeepsChannel ==
  ASSUME ChannelInv, NEW w \in Worker, NextMessage(w)
  PROVE  ChannelTyped' /\ TurnsCounted'
<1> DEFINE r == worker[w]
<1>1. r.pc = "finished" /\ NoLocking /\ UNCHANGED <<posted, turns>>
      BY DEF NextMessage
<1>2. r.at \in 0 .. Len(Batch[w[1]]) /\ Len(Batch[w[1]]) \in Nat
  <2>1. Batch[w[1]] \in Seq(Message)
        BY ChannelFacts DEF Worker
  <2>   QED
        BY <2>1, WorkerIsOK DEF Fits
<1>3. CASE r.at < Len(Batch[w[1]]) /\ r.cause # "raised"
  <2>1. r.at + 1 \in 0 .. Len(Batch[w[1]])
        BY <1>2, <1>3
  <2>2. Becomes(w, Starting(r.at + 1))
        BY <1>3 DEF NextMessage
  <2>3. WorkerOK(w, Starting(r.at + 1)) /\ Starting(r.at + 1).at = r.at + 1
    <3> DEFINE n == r.at + 1
    <3> HIDE DEF n
    <3>1. WorkerOK(w, Starting(n)) /\ Starting(n).at = n
          BY <2>1, StartingOK DEF Starting, n
    <3>   QED
          BY <3>1 DEF n
  <2>   QED
        BY <1>1, <2>2, <2>3, TablesStay, WorkerStep
<1>4. CASE ~ (r.at < Len(Batch[w[1]]) /\ r.cause # "raised")
  <2> DEFINE s == [Idle EXCEPT !.at = r.at, !.pc = "done"]
  <2>1. Becomes(w, s)
        BY <1>4 DEF NextMessage
  <2>2. WorkerOK(w, s) /\ s.at = r.at /\ s.pc = "done"
        BY <1>2, StartingOK
  <2> HIDE DEF s
  <2>   QED
        BY <1>1, <2>1, <2>2, ReplyStep DEF FromTurn
<1>   QED
      BY <1>3, <1>4

\* A new delivery has turned nothing yet, and leaves the ones before it alone.
LEMMA ReceiveKeepsChannel ==
  ASSUME ChannelInv, NEW p \in Payload, ReceiveMessage(p)
  PROVE  ChannelTyped' /\ TurnsCounted'
<1> DEFINE w == <<p, posted[p] + 1>>
           s == IF Batch[p] = <<>> THEN [Idle EXCEPT !.pc = "done"] ELSE Starting(1)
<1>1. /\ posted[p] < MaxDeliveries[p] /\ posted' = [posted EXCEPT ![p] = @ + 1]
      /\ worker' = [worker EXCEPT ![w] = s]
      /\ UNCHANGED <<guard, locks, holder, turns>>
      BY DEF ReceiveMessage
<1>2. posted \in [Payload -> Nat] /\ MaxDeliveries[p] \in Nat
      BY ChannelFacts DEF ChannelInv, ChannelTyped
<1>3. w \in Worker /\ w[1] = p /\ w[2] = posted[p] + 1
      BY <1>1, <1>2 DEF Worker
<1>4. WorkerOK(w, s)
  <2>1. Batch[w[1]] = Batch[p] /\ Batch[p] \in Seq(Message) /\ Len(Batch[p]) \in Nat
        BY <1>3, ChannelFacts
  <2>2. CASE Batch[p] = <<>>
    <3>1. s = [Idle EXCEPT !.pc = "done"]
          BY <2>2
    <3>2. /\ DOMAIN s = DOMAIN Idle /\ s.pc = "done" /\ s.at = 0 /\ s.lock = None
          /\ s.tries = 0 /\ s.cards = <<>> /\ s.due = {}
          BY <3>1 DEF Idle
    <3>3. s.at \in 0 .. Len(Batch[w[1]])
          BY <2>1, <3>2
    <3> HIDE DEF s, w
    <3>   QED
          BY <1>3, <3>2, <3>3, NothingToSayOK
  <2>3. CASE Batch[p] # <<>>
    <3>1. 1 \in 0 .. Len(Batch[w[1]])
          BY <2>1, <2>3
    <3>2. WorkerOK(w, Starting(1))
          BY <1>3, <3>1, StartingOK DEF Starting
    <3>3. s = Starting(1)
          BY <2>3
    <3> HIDE DEF s
    <3>   QED
          BY <3>2, <3>3
  <2>   QED
        BY <2>2, <2>3
<1> HIDE DEF w, s
<1>5. /\ DOMAIN worker' = Worker /\ worker'[w] = s
      /\ \A v \in Worker : v # w => worker'[v] = worker[v]
      BY <1>1, <1>3 DEF ChannelInv, ChannelTyped
<1>6. \A v \in Worker : WorkerOK(v, worker'[v])
      BY <1>4, <1>5, WorkerIsOK
<1>7. ChannelTyped'
  <2>1. (\A v \in Worker : WorkerOK(v, worker[v]))'
        BY <1>6 DEF WorkerOK, Fits, Owing, ToSend
  <2>2. posted' \in [Payload -> Nat] /\ \A q \in Payload : posted'[q] <= MaxDeliveries[q]
    <3>1. \A q \in Payload : posted[q] <= MaxDeliveries[q]
          BY DEF ChannelInv, ChannelTyped
    <3>   QED
          BY <1>1, <1>2, <3>1
  <2>   QED
        BY <1>1, <1>5, <2>1, <2>2 DEF ChannelInv, ChannelTyped
<1>8. \A q \in Payload : posted[q] \in Nat /\ posted'[q] \in Nat /\ posted[q] <= posted'[q]
      BY <1>1, <1>2
<1>9. ASSUME NEW q \in Payload, NEW i \in DOMAIN Batch[q]
      PROVE  turns'[Batch[q][i]] <= Cardinality(TurnedIn(q, i))'
  <2>1. ASSUME NEW n \in 1 .. posted[q], Turned(<<q, n>>, i)
        PROVE  Turned(<<q, n>>, i)'
    <3>1. <<q, n>> # w
          BY <1>2, <1>3, <1>8
    <3>2. <<q, n>> \in Worker
      <4>1. posted[q] <= MaxDeliveries[q] /\ MaxDeliveries[q] \in Nat
            BY ChannelFacts DEF ChannelInv, ChannelTyped
      <4>2. n \in 1 .. MaxDeliveries[q]
            BY <1>8, <4>1
      <4>   QED
            BY <4>2 DEF Worker
    <3>   QED
          BY <1>5, <2>1, <3>1, <3>2 DEF Turned
  <2>2. Cardinality(TurnedIn(q, i)) <= Cardinality(TurnedIn(q, i))'
        BY <1>7, <1>8, <2>1, CountGrows DEF ChannelInv
  <2>3. Cardinality(TurnedIn(q, i)) \in Nat
        BY TurnedAreFinite DEF ChannelInv
  <2>4. Cardinality(TurnedIn(q, i))' \in Nat
        BY <1>7, TurnedStayFinite
  <2>5. turns[Batch[q][i]] \in Nat /\ turns'[Batch[q][i]] = turns[Batch[q][i]]
        /\ turns[Batch[q][i]] <= Cardinality(TurnedIn(q, i))
    <3>1. Batch[q] \in Seq(Message) /\ Batch[q][i] \in Message
          BY ChannelFacts
    <3>   QED
          BY <1>1, <3>1 DEF ChannelInv, ChannelTyped, TurnsCounted
  <2>   QED
        BY <2>2, <2>3, <2>4, <2>5
<1>10. ASSUME NEW v \in Worker, worker'[v].pc # "off"
       PROVE  v[2] <= posted'[v[1]]
  <2>1. CASE v = w
        BY <1>1, <1>2, <1>3, <2>1
  <2>2. CASE v # w
    <3>1. v[2] <= posted[v[1]]
          BY <1>5, <1>10, <2>2 DEF ChannelInv, TurnsCounted
    <3>2. v[1] \in Payload /\ v[2] \in Nat
          BY ChannelFacts DEF Worker
    <3>   QED
          BY <1>8, <3>1, <3>2
  <2>   QED
        BY <2>1, <2>2
<1>   QED
      BY <1>7, <1>9, <1>10 DEF TurnsCounted

-----------------------------------------------------------------------------
LEMMA ChannelAtFirst == Init => ChannelInv
<1> SUFFICES ASSUME Init
             PROVE  ChannelTyped /\ TurnsCounted
    BY LocksAtFirst DEF ChannelInv
<1>1. /\ posted = [p \in Payload |-> 0] /\ worker = [w \in Worker |-> Idle]
      /\ turns = [m \in Message |-> 0] /\ guard = None
      /\ locks = [c \in Customer |-> None] /\ holder = [l \in Lock |-> None]
      BY DEF Init
<1>2. ASSUME NEW w \in Worker
      PROVE  WorkerOK(w, Idle)
  <2>1. Batch[w[1]] \in Seq(Message) /\ Len(Batch[w[1]]) \in Nat
        BY ChannelFacts DEF Worker
  <2>2. /\ Idle.pc = "off" /\ Idle.at = 0 /\ Idle.lock = None /\ Idle.tries = 0
        /\ Idle.cards = <<>> /\ Idle.due = {}
        BY DEF Idle
  <2>3. Fits(w, Idle)
        BY <2>1, <2>2, ChannelFacts DEF Fits
  <2>   QED
        BY <2>2, <2>3 DEF WorkerOK, Owing, BeforeTurn, FromTurn
<1>3. ChannelTyped
      BY <1>1, <1>2, ChannelFacts DEF ChannelTyped
<1>4. \A w \in Worker : worker[w].pc = "off"
      BY <1>1 DEF Idle
<1>5. ASSUME NEW p \in Payload, NEW i \in DOMAIN Batch[p]
      PROVE  turns[Batch[p][i]] <= Cardinality(TurnedIn(p, i))
  <2>1. Batch[p] \in Seq(Message) /\ Batch[p][i] \in Message
        BY ChannelFacts
  <2>2. turns[Batch[p][i]] = 0
        BY <1>1, <2>1
  <2>3. Cardinality(TurnedIn(p, i)) \in Nat
        BY <1>3, TurnedAreFinite
  <2>   QED
        BY <2>2, <2>3
<1>   QED
      BY <1>3, <1>4, <1>5 DEF TurnsCounted

LEMMA ChannelFromStepToStep == ChannelInv /\ [Next]_vars => ChannelInv'
<1> SUFFICES ASSUME ChannelInv, [Next]_vars
             PROVE  ChannelTyped' /\ TurnsCounted'
    BY LocksFromStepToStep DEF ChannelInv
<1>1. ASSUME NEW p \in Payload, ReceiveMessage(p)
      PROVE  ChannelTyped' /\ TurnsCounted'
      BY <1>1, ReceiveKeepsChannel
<1>2. ASSUME NEW w \in Worker, Step(w)
      PROVE  ChannelTyped' /\ TurnsCounted'
      BY <1>2, HandleKeepsChannel, ReadKeepsChannel, LookupKeepsChannel, RouteKeepsChannel,
         ReturnKeepsChannel, SpeechKeepsChannel, PostKeepsChannel, NextKeepsChannel
         DEF Step, TranscribeAudio, DescribeProductImage
<1>3. CASE UNCHANGED vars
      BY <1>3 DEF vars, ChannelInv, ChannelTyped, TurnsCounted, TurnedIn, Turned,
                  WorkerOK, Fits, Owing, ToSend
<1>   QED
      BY <1>1, <1>2, <1>3 DEF Next

\* No worker runs past its payload, retries past _MAX_RETRIES or holds what is
\* not a lock, for any number of deliveries (receive_message(),
\* _post_with_retry(), SessionStore.session_lock()).
THEOREM ChannelIsTyped == Spec => []TypeOK
<1>1. ChannelInv => TypeOK
  <2> SUFFICES ASSUME ChannelInv
               PROVE  TypeOK
      OBVIOUS
  <2>1. \A p \in Payload : posted[p] \in 0 .. MaxDeliveries[p]
        BY ChannelFacts DEF ChannelInv, ChannelTyped
  <2>2. \A w \in Worker : WorkerOK(w, worker[w])
        BY WorkerIsOK
  <2>   QED
        BY <2>1, <2>2 DEF ChannelInv, ChannelTyped, TypeOK, WorkerOK, Fits, BeforeTurn, FromTurn
<1>   QED
      BY <1>1, ChannelAtFirst, ChannelFromStepToStep, PTL DEF Spec

\* However a reply's posts are retried, rejected or left unanswered, a message
\* is never given more turns than it was delivered (receive_message(),
\* _handle_message(), _post_with_retry()).
THEOREM TurnsAreCounted == Spec => []TurnsMatchDeliveries
<1>1. ChannelInv => TurnsMatchDeliveries
  <2> SUFFICES ASSUME ChannelInv, NEW p \in Payload, NEW i \in DOMAIN Batch[p]
               PROVE  turns[Batch[p][i]] <= posted[p]
      BY DEF TurnsMatchDeliveries
  <2>1. /\ Cardinality(TurnedIn(p, i)) \in Nat
        /\ Cardinality(TurnedIn(p, i)) <= posted[p]
        BY TurnedAreFinite DEF ChannelInv
  <2>2. turns[Batch[p][i]] <= Cardinality(TurnedIn(p, i))
        BY DEF ChannelInv, TurnsCounted
  <2>3. turns[Batch[p][i]] \in Nat /\ posted[p] \in Nat
    <3>1. Batch[p] \in Seq(Message) /\ Batch[p][i] \in Message
          BY ChannelFacts
    <3>   QED
          BY <3>1 DEF ChannelInv, ChannelTyped
  <2>   QED
        BY <2>1, <2>2, <2>3
<1>   QED
      BY <1>1, ChannelAtFirst, ChannelFromStepToStep, PTL DEF Spec

\* Whatever pictures, speech and uploads fail, everything a turn decided to say,
\* each product of a browse included, is shown unless WhatsApp refused the text
\* it came down to, or the voice note (_handle_message()).
THEOREM RepliesArrive == Spec => []RepliesReachTheCustomer
<1>1. ChannelInv => RepliesReachTheCustomer
      BY WorkerIsOK DEF RepliesReachTheCustomer, WorkerOK, Owing
<1>   QED
      BY <1>1, ChannelAtFirst, ChannelFromStepToStep, PTL DEF Spec

-----------------------------------------------------------------------------
(* The refinement: what a worker's step is to MessageTurns.                *)

\* A worker's step that leaves it at its message and in its phase, settles its
\* message before a turn or after one, or starts its turn.
Settles(r, s) ==
  /\ s.at = r.at /\ s.pc # "off"
  /\ \/ Phase(s) = Phase(r)
     \/ Phase(r) \in {"open", "turn"} /\ Phase(s) = "settled"

LEMMA FollowsSettles ==
  ASSUME NEW r, NEW q, NEW s, q.at = r.at, Follows(q, s)
  PROVE  Settles(r, s)
<1>1. s.at = r.at /\ Phase(s) = "settled" /\ s.pc # "off"
      BY DEF Follows, Phase
<1>2. Phase(r) \in {"open", "turn", "settled"}
      BY DEF Phase
<1>   QED
      BY <1>1, <1>2 DEF Settles

LEMMA MovesSettles ==
  ASSUME NEW r, DOMAIN r = DOMAIN Idle, r.pc \in {"start", "media"},
         NEW pc \in {"media", "lookup"}
  PROVE  Settles(r, [r EXCEPT !.pc = pc])
<1> DEFINE s == [r EXCEPT !.pc = pc]
<1>1. s.at = r.at /\ s.pc = pc
      BY DEF Idle
<1> HIDE DEF s
<1>2. Phase(s) = "open" /\ Phase(r) = "open"
      BY <1>1 DEF Phase
<1>   QED
      BY <1>1, <1>2 DEF Settles, s

\* The steps before a turn that take no lock.
LEMMA ReadingSettles ==
  ASSUME LockInv, NEW w \in Worker, HandleMessage(w) \/ ReadMedia(w)
  PROVE  \E s : Becomes(w, s) /\ Settles(worker[w], s)
<1> DEFINE r == worker[w]
<1>1. r.pc \in {"start", "media"} /\ DOMAIN r = DOMAIN Idle
      BY DEF HandleMessage, ReadMedia, LockInv, Shaped, Placed
<1>2. CASE HandleMessage(w)
  <2>1. CASE Type[Current(w)] = "text"
    <3>1. Becomes(w, [r EXCEPT !.pc = "lookup"])
          BY <1>2, <2>1 DEF HandleMessage
    <3>   QED
          BY <1>1, <3>1, MovesSettles
  <2>2. CASE Type[Current(w)] \in {"audio", "image"}
    <3>1. Becomes(w, [r EXCEPT !.pc = "media"])
          BY <1>2, <2>2 DEF HandleMessage
    <3>   QED
          BY <1>1, <3>1, MovesSettles
  <2>3. CASE Type[Current(w)] \notin {"text", "audio", "image"}
    <3>1. PICK cause : Becomes(w, Finished(r, cause))
          BY <1>2, <2>3 DEF HandleMessage
    <3>   QED
          BY <1>1, <3>1, FinishedFollows, FollowsSettles
  <2>   QED
        BY <2>1, <2>2, <2>3
<1>3. CASE ReadMedia(w)
  <2>1. CASE Becomes(w, [r EXCEPT !.pc = "lookup"])
        BY <1>1, <2>1, MovesSettles
  <2>2. CASE Becomes(w, Says([r EXCEPT !.due = {"apology"}], {"apology"}, "text"))
    <3> DEFINE q == [r EXCEPT !.due = {"apology"}]
    <3>1. DOMAIN q = DOMAIN Idle /\ q.at = r.at
          BY <1>1 DEF Idle
    <3>2. Becomes(w, Says(q, {"apology"}, "text"))
          BY <2>2
    <3> HIDE DEF q
    <3>   QED
          BY <3>1, <3>2, SaysFollows, FollowsSettles
  <2>3. CASE Becomes(w, Finished(r, "media"))
        BY <1>1, <2>3, FinishedFollows, FollowsSettles
  <2>   QED
        BY <1>3, <2>1, <2>2, <2>3 DEF ReadMedia
<1>   QED
      BY <1>2, <1>3

\* The look-up of the lock goes on in the phase before the turn.
LEMMA LookupSettles ==
  ASSUME LockInv, NEW w \in Worker, SessionLock(w) \/ SessionLockReturns(w)
  PROVE  \E s : Becomes(w, s) /\ Settles(worker[w], s)
<1>1. PICK pc \in {"lock", "wait"} :
             \E lock : Becomes(w, [worker[w] EXCEPT !.pc = pc, !.lock = lock])
      BY DEF SessionLock, SessionLockReturns
<1>2. PICK lock : Becomes(w, [worker[w] EXCEPT !.pc = pc, !.lock = lock])
      BY <1>1
<1> DEFINE s == [worker[w] EXCEPT !.pc = pc, !.lock = lock]
<1>3. DOMAIN worker[w] = DOMAIN Idle /\ worker[w].pc \in {"lookup", "lock"}
      BY DEF SessionLock, SessionLockReturns, LockInv, Shaped, Placed
<1>4. s.at = worker[w].at /\ s.pc = pc
      BY <1>3 DEF Idle
<1> HIDE DEF s
<1>5. Phase(s) = "open" /\ Phase(worker[w]) = "open"
      BY <1>1, <1>3, <1>4 DEF Phase
<1>   QED
      BY <1>2, <1>4, <1>5 DEF Settles, s

\* From the end of the turn on, everything leads to a settled message.
LEMMA ReplyingSettles ==
  ASSUME LockInv, NEW w \in Worker,
         \/ RouteCustomerReturns(w) \/ SynthesizeSpeech(w) \/ UploadAudio(w)
         \/ PostAccepted(w) \/ PostRejected(w) \/ PostUnanswered(w)
  PROVE  \E s : Becomes(w, s) /\ Settles(worker[w], s)
<1> DEFINE r == worker[w]
<1>1. DOMAIN r = DOMAIN Idle
      BY DEF LockInv, Shaped, Placed
<1>2. CASE RouteCustomerReturns(w)
  <2>1. CASE Becomes(w, Finished(r, "turn"))
        BY <1>1, <2>1, FinishedFollows, FollowsSettles
  <2>2. ASSUME NEW browse, NEW form, Becomes(w, Replying(r, Type[Current(w)], browse, form))
        PROVE  \E s : Becomes(w, s) /\ Settles(r, s)
        BY <1>1, <2>2, ReplyingFollows, FollowsSettles
  <2>   QED
        BY <1>2, <2>1, <2>2 DEF RouteCustomerReturns
<1>3. CASE SynthesizeSpeech(w) \/ UploadAudio(w)
  <2>1. CASE Becomes(w, [r EXCEPT !.pc = "upload"]) /\ r.pc = "speak"
    <3> DEFINE s == [r EXCEPT !.pc = "upload"]
    <3>1. s.at = r.at /\ s.pc = "upload"
          BY <1>1 DEF Idle
    <3>2. Becomes(w, s)
          BY <2>1
    <3> HIDE DEF s
    <3>3. Phase(s) = "settled" /\ Phase(r) = "settled"
          BY <2>1, <3>1 DEF Phase
    <3>   QED
          BY <3>1, <3>2, <3>3 DEF Settles
  <2>2. ASSUME NEW form, Becomes(w, Says(r, {"reply"}, form))
        PROVE  \E s : Becomes(w, s) /\ Settles(r, s)
        BY <1>1, <2>2, SaysFollows, FollowsSettles
  <2>3. CASE Becomes(w, Finished(r, "whatsapp"))
        BY <1>1, <2>3, FinishedFollows, FollowsSettles
  <2>   QED
        BY <1>3, <2>1, <2>2, <2>3 DEF SynthesizeSpeech, UploadAudio
<1>4. CASE PostAccepted(w) \/ PostRejected(w) \/ PostUnanswered(w)
  <2>1. PICK q \in {r, Shown(r)} :
               \/ Becomes(w, Sent(q)) \/ Becomes(w, SendFailed(q))
               \/ Becomes(w, [q EXCEPT !.tries = @ + 1]) /\ r.pc = "post"
        BY <1>4 DEF PostAccepted, PostRejected, PostUnanswered
  <2>2. DOMAIN q = DOMAIN Idle /\ q.at = r.at /\ q.pc = r.pc
        BY <1>1, <2>1, ShownFollows
  <2>3. CASE Becomes(w, Sent(q)) \/ Becomes(w, SendFailed(q))
        BY <2>2, <2>3, SentFollows, SendFailedFollows, FollowsSettles
  <2>4. CASE Becomes(w, [q EXCEPT !.tries = @ + 1]) /\ r.pc = "post"
    <3>1. Follows(q, [q EXCEPT !.tries = @ + 1])
          BY <2>2, <2>4 DEF Follows, Idle
    <3>   QED
          BY <2>2, <2>4, <3>1, FollowsSettles
  <2>   QED
        BY <2>1, <2>3, <2>4
<1>   QED
      BY <1>2, <1>3, <1>4

\* One worker's step, seen by MessageTurns.
LEMMA Seen ==
  ASSUME LockInv, NEW w \in Worker, NEW s, Becomes(w, s)
  PROVE  /\ Places[w] = worker[w].at /\ Phases[w] = Phase(worker[w])
         /\ Places' = [Places EXCEPT ![w] = s.at]
         /\ Phases' = [Phases EXCEPT ![w] = Phase(s)]
<1>1. /\ DOMAIN worker' = Worker /\ worker'[w] = s
      /\ \A v \in Worker : v # w => worker'[v] = worker[v]
      BY DEF Becomes, LockInv, Shaped
<1>2. /\ Places' = [v \in Worker |-> worker'[v].at]
      /\ Phases' = [v \in Worker |-> Phase(worker'[v])]
      BY DEF Places, Phases, Phase
<1>   QED
      BY <1>1, <1>2 DEF Places, Phases

LEMMA SettlesImplements ==
  ASSUME LockInv, NEW w \in Worker, NEW s, Becomes(w, s), Settles(worker[w], s)
  PROVE  [Turns!Next]_(Turns!vars)
<1>1. /\ Phases[w] = Phase(worker[w]) /\ Places' = Places
      /\ Phases' = [Phases EXCEPT ![w] = Phase(s)]
  <2>1. Places' = [Places EXCEPT ![w] = worker[w].at] /\ Places[w] = worker[w].at
        BY Seen DEF Settles
  <2>   QED
        BY <2>1, Seen DEF Places
<1>2. CASE Phase(s) = Phase(worker[w])
  <2>1. Phases' = Phases
        BY <1>1, <1>2 DEF Phases
  <2>   QED
        BY <1>1, <2>1 DEF Turns!vars
<1>3. CASE Phase(worker[w]) \in {"open", "turn"} /\ Phase(s) = "settled"
  <2>1. Turns!Drop(w) \/ Turns!End(w)
        BY <1>1, <1>3 DEF Turns!Drop, Turns!End
  <2>   QED
        BY <2>1 DEF Turns!Next
<1>   QED
      BY <1>2, <1>3 DEF Settles

\* Who a delivery's message is from, in the module and in MessageTurns.
LEMMA SameSender ==
  ASSUME LockInv, NEW w \in Worker, worker[w].pc \notin {"off", "done"}
  PROVE  Turns!Sender(w) = Sender(w)
<1>1. worker[w].at \in DOMAIN Batch[w[1]]
      BY DEF LockInv, Shaped, Placed
<1>   QED
      BY <1>1 DEF Turns!Sender, Senders, Places, Sender, Current

\* A turn begins with the customer's only lock, which nobody else's turn holds.
LEMMA RouteImplements ==
  ASSUME LockInv, NEW w \in Worker, RouteCustomer(w)
  PROVE  Turns!Next
<1> DEFINE s == [worker[w] EXCEPT !.pc = "turn"]
<1>1. /\ DOMAIN worker[w] = DOMAIN Idle /\ worker[w].pc = "wait"
      /\ holder[worker[w].lock] = None /\ Becomes(w, s)
      BY DEF RouteCustomer, LockInv, Shaped, Placed
<1>2. s.at = worker[w].at /\ s.pc = "turn"
      BY <1>1 DEF Idle
<1> HIDE DEF s
<1>3. Phase(s) = "turn" /\ Phase(worker[w]) = "open"
      BY <1>1, <1>2 DEF Phase
<1>4. ASSUME NEW other \in Worker, Phases[other] = "turn"
      PROVE  Turns!Sender(other) # Turns!Sender(w)
  <2>1. worker[other].pc = "turn"
        BY <1>4 DEF Phases, Phase
  <2>2. /\ worker[other].lock = locks[Sender(other)]
        /\ holder[worker[other].lock] = other
        /\ worker[w].lock = locks[Sender(w)]
        BY <1>1, <2>1 DEF LockInv, Holding
  <2>3. Sender(other) # Sender(w)
        BY <1>1, <2>2, NoneAssumption
  <2>   QED
        BY <1>1, <2>1, <2>3, SameSender
<1>5. /\ Phases[w] = "open" /\ Phases' = [Phases EXCEPT ![w] = "turn"]
      /\ UNCHANGED Places
  <2>1. Places' = [Places EXCEPT ![w] = worker[w].at] /\ Places[w] = worker[w].at
        BY <1>1, <1>2, Seen
  <2>2. Places' = Places
        BY <2>1 DEF Places
  <2>   QED
        BY <1>1, <1>3, <2>2, Seen
<1>6. Turns!Begin(w)
      BY <1>4, <1>5 DEF Turns!Begin
<1>   QED
      BY <1>6 DEF Turns!Next

\* A delivery takes up its next message, or has none left.
LEMMA TakesImplements ==
  ASSUME LockInv, NEW w \in Worker, NEW s, Becomes(w, s),
         Phase(worker[w]) = "settled",
         \/ s.at = worker[w].at /\ Phase(s) = "settled"
         \/ /\ s.at = worker[w].at + 1 /\ s.at \in DOMAIN Batch[w[1]]
            /\ Phase(s) = "open"
  PROVE  [Turns!Next]_(Turns!vars)
<1>1. /\ Places[w] = worker[w].at /\ Phases[w] = "settled"
      /\ Places' = [Places EXCEPT ![w] = s.at]
      /\ Phases' = [Phases EXCEPT ![w] = Phase(s)]
      BY Seen
<1>2. CASE s.at = worker[w].at /\ Phase(s) = "settled"
  <2>1. Places' = Places /\ Phases' = Phases
        BY <1>1, <1>2 DEF Places, Phases
  <2>   QED
        BY <2>1 DEF Turns!vars
<1>3. CASE s.at = worker[w].at + 1 /\ s.at \in DOMAIN Batch[w[1]] /\ Phase(s) = "open"
  <2>1. DOMAIN Senders[w] = DOMAIN Batch[w[1]]
        BY DEF Senders
  <2>2. Turns!Take(w)
        BY <1>1, <1>3, <2>1 DEF Turns!Take
  <2>   QED
        BY <2>2 DEF Turns!Next
<1>   QED
      BY <1>2, <1>3

LEMMA NextImplements ==
  ASSUME LockInv, NEW w \in Worker, NextMessage(w)
  PROVE  [Turns!Next]_(Turns!vars) /\ \E s : Becomes(w, s) /\ s.pc # "off"
<1>1. worker[w].pc = "finished" /\ worker[w].at \in DOMAIN Batch[w[1]]
      BY DEF NextMessage, LockInv, Shaped, Placed
<1>2. Phase(worker[w]) = "settled"
      BY <1>1 DEF Phase
<1>3. Batch[w[1]] \in Seq(Message)
      BY ChannelFacts DEF Worker
<1>4. CASE worker[w].at < Len(Batch[w[1]]) /\ worker[w].cause # "raised"
  <2> DEFINE s == Starting(worker[w].at + 1)
  <2>1. Becomes(w, s)
        BY <1>4 DEF NextMessage
  <2>2. s.at = worker[w].at + 1 /\ s.pc = "start"
        BY DEF Starting, Idle
  <2> HIDE DEF s
  <2>3. Phase(s) = "open" /\ s.at \in DOMAIN Batch[w[1]]
        BY <1>1, <1>3, <1>4, <2>2 DEF Phase
  <2>   QED
        BY <1>2, <2>1, <2>2, <2>3, TakesImplements
<1>5. CASE ~ (worker[w].at < Len(Batch[w[1]]) /\ worker[w].cause # "raised")
  <2> DEFINE s == [Idle EXCEPT !.at = worker[w].at, !.pc = "done"]
  <2>1. Becomes(w, s)
        BY <1>5 DEF NextMessage
  <2>2. s.at = worker[w].at /\ s.pc = "done"
        BY DEF Idle
  <2> HIDE DEF s
  <2>3. Phase(s) = "settled"
        BY <2>2 DEF Phase
  <2>   QED
        BY <1>2, <2>1, <2>2, <2>3, TakesImplements
<1>   QED
      BY <1>4, <1>5

\* A delivery whose worker has not started is at none of its messages.
NotStarted == \A w \in Worker : worker[w].pc = "off" => worker[w].at = 0

LEMMA StartsOnce ==
  ASSUME LockInv, NotStarted, NEW w \in Worker, NEW s, Becomes(w, s), s.pc # "off"
  PROVE  NotStarted'
<1>1. /\ worker'[w] = s
      /\ \A v \in Worker : v # w => worker'[v] = worker[v]
      BY DEF Becomes, LockInv, Shaped
<1>   QED
      BY <1>1 DEF NotStarted

\* A worker is started for a delivery that was not made before.
LEMMA ReceiveImplements ==
  ASSUME ChannelInv, NotStarted, NEW p \in Payload, ReceiveMessage(p)
  PROVE  [Turns!Next]_(Turns!vars) /\ NotStarted'
<1> DEFINE w == <<p, posted[p] + 1>>
           s == IF Batch[p] = <<>> THEN [Idle EXCEPT !.pc = "done"] ELSE Starting(1)
<1>1. posted[p] < MaxDeliveries[p] /\ Becomes(w, s)
      BY DEF ReceiveMessage, Becomes
<1>2. posted[p] \in Nat /\ MaxDeliveries[p] \in Nat /\ Batch[p] \in Seq(Message)
      BY ChannelFacts DEF ChannelInv, ChannelTyped
<1>3. w \in Worker /\ w[1] = p /\ w[2] = posted[p] + 1
      BY <1>1, <1>2 DEF Worker
<1>4. worker[w].at = 0 /\ Phase(worker[w]) = "settled"
  <2>1. worker[w].pc # "off" => w[2] <= posted[w[1]]
        BY <1>3 DEF ChannelInv, TurnsCounted
  <2>2. worker[w].pc = "off"
        BY <1>2, <1>3, <2>1
  <2>   QED
        BY <1>3, <2>2 DEF NotStarted, Phase
<1>5. CASE Batch[p] = <<>>
  <2>1. s.at = 0 /\ s.pc = "done"
        BY <1>5 DEF Idle
  <2> HIDE DEF s, w
  <2>2. Phase(s) = "settled"
        BY <2>1 DEF Phase
  <2>   QED
        BY <1>1, <1>3, <1>4, <2>1, <2>2, TakesImplements, StartsOnce DEF ChannelInv
<1>6. CASE Batch[p] # <<>>
  <2>1. s.at = 1 /\ s.pc = "start"
        BY <1>6 DEF Starting, Idle
  <2>2. 1 \in DOMAIN Batch[w[1]]
        BY <1>2, <1>6
  <2> HIDE DEF s, w
  <2>3. Phase(s) = "open"
        BY <2>1 DEF Phase
  <2>   QED
        BY <1>1, <1>3, <1>4, <2>1, <2>2, <2>3, TakesImplements, StartsOnce DEF ChannelInv
<1>   QED
      BY <1>5, <1>6

LEMMA StepImplementsTurns ==
  ASSUME ChannelInv, NotStarted, [Next]_vars
  PROVE  [Turns!Next]_(Turns!vars) /\ NotStarted'
<1>0. LockInv
      BY DEF ChannelInv
<1>1. ASSUME NEW p \in Payload, ReceiveMessage(p)
      PROVE  [Turns!Next]_(Turns!vars) /\ NotStarted'
      BY <1>1, ReceiveImplements
<1>2. ASSUME NEW w \in Worker, Step(w)
      PROVE  [Turns!Next]_(Turns!vars) /\ NotStarted'
  <2>1. ASSUME NEW s, Becomes(w, s), Settles(worker[w], s)
        PROVE  [Turns!Next]_(Turns!vars) /\ NotStarted'
        BY <1>0, <2>1, SettlesImplements, StartsOnce DEF Settles
  <2>2. CASE RouteCustomer(w)
    <3> DEFINE s == [worker[w] EXCEPT !.pc = "turn"]
    <3>1. DOMAIN worker[w] = DOMAIN Idle /\ Becomes(w, s)
          BY <1>0, <2>2 DEF RouteCustomer, LockInv, Shaped, Placed
    <3>2. s.pc # "off"
          BY <3>1 DEF Idle
    <3> HIDE DEF s
    <3>   QED
          BY <1>0, <2>2, <3>1, <3>2, RouteImplements, StartsOnce
  <2>3. CASE NextMessage(w)
        BY <1>0, <2>3, NextImplements, StartsOnce
  <2>4. CASE HandleMessage(w) \/ ReadMedia(w) \/ SessionLock(w) \/ SessionLockReturns(w)
        BY <1>0, <2>1, <2>4, ReadingSettles, LookupSettles
  <2>5. CASE \/ RouteCustomerReturns(w) \/ SynthesizeSpeech(w) \/ UploadAudio(w)
             \/ PostAccepted(w) \/ PostRejected(w) \/ PostUnanswered(w)
        BY <1>0, <2>1, <2>5, ReplyingSettles
  <2>   QED
        BY <1>2, <2>2, <2>3, <2>4, <2>5 DEF Step, TranscribeAudio, DescribeProductImage
<1>3. CASE UNCHANGED vars
      BY <1>3 DEF vars, NotStarted, Places, Phases, Phase, Turns!vars
<1>   QED
      BY <1>1, <1>2, <1>3 DEF Next

\* For any payloads, deliveries, customers and retries, a delivery's messages
\* are taken up in order, get at most one turn each, and no two turns of one
\* customer overlap (_handle_message(), route_customer()).
THEOREM ChannelImplementsTurns == Spec => ImplementsTurns
<1>1. Init => Turns!Init /\ NotStarted
      BY DEF Init, Turns!Init, Places, Phases, Phase, Idle, NotStarted
<1>   QED
      BY <1>1, ChannelAtFirst, ChannelFromStepToStep, StepImplementsTurns, PTL
      DEF Spec, ImplementsTurns, Turns!Spec
=============================================================================
