------------------------ MODULE WhatsAppChannelProofs ------------------------
(***************************************************************************)
(* Turns of one customer never overlap, for any payloads, customers and    *)
(* number of deliveries.                                                   *)
(***************************************************************************)
EXTENDS WhatsAppChannel, TLAPS

\* The constants, with what is read of a payload for all of its changes.
LEMMA ChannelFacts ==
  /\ Batch \in [Payload -> Seq(Message)]
  /\ From \in [Message -> Customer]
  /\ MaxDeliveries \in [Payload -> Nat] /\ MaxRetries \in Nat
  /\ Browses \subseteq Seq(Product) \ {<<>>}
  /\ \A p, q \in Payload : \A i \in DOMAIN Batch[p], j \in DOMAIN Batch[q] :
       Batch[p][i] = Batch[q][j] => p = q /\ i = j
<1>1. ASSUME NEW p \in Payload
      PROVE  (IF Changes[p] = <<>> THEN <<>> ELSE Changes[p][1]) \in Seq(Message)
  <2>1. Changes[p] \in Seq(Seq(Message))
        BY ChannelAssumption
  <2>2. CASE Changes[p] # <<>>
    <3>1. 1 \in DOMAIN Changes[p]
          BY <2>1, <2>2
    <3>   QED
          BY <2>1, <2>2, <3>1
  <2>   QED
        BY <2>2
<1>2. Batch \in [Payload -> Seq(Message)]
      BY <1>1 DEF Batch
<1>   QED
      BY <1>2, ChannelAssumption

\* The phases in which a worker has to do with its session's lock.
LockPhases == {"lock", "wait", "turn"}

\* A worker is at a message of its payload in all phases but two.
Placed(w, r) ==
  /\ DOMAIN r = DOMAIN Idle
  /\ r.pc \notin {"off", "done"} => r.at \in DOMAIN Batch[w[1]]

Shaped ==
  /\ DOMAIN worker = Worker /\ DOMAIN locks = Customer /\ DOMAIN holder = Lock
  /\ \A w \in Worker : Placed(w, worker[w])
  /\ \A c \in Customer : locks[c] \in Lock \cup {None}

\* A worker that is about to give back a lock saw the table as it still is, one
\* that waits for a lock or holds it has the customer's only one.
Holding(w) ==
  /\ worker[w].pc = "lock" => guard = w /\ worker[w].lock = locks[Sender(w)]
  /\ worker[w].pc \in {"wait", "turn"} =>
       worker[w].lock = locks[Sender(w)] /\ worker[w].lock \in Lock
  /\ worker[w].pc = "turn" => holder[worker[w].lock] = w

LockInv == Shaped /\ \A w \in Worker : Holding(w)

-----------------------------------------------------------------------------
(* What the reply does to a worker: it stays at its message, away from any *)
(* lock.                                                                   *)

Follows(r, s) ==
  /\ DOMAIN s = DOMAIN Idle /\ s.at = r.at
  /\ s.pc \in {"post", "speak", "finished"}

LEMMA SaysFollows ==
  ASSUME NEW r, DOMAIN r = DOMAIN Idle, NEW lines, NEW form
  PROVE  Follows(r, Says(r, lines, form))
BY DEF Follows, Says, Idle

LEMMA FinishedFollows ==
  ASSUME NEW r, DOMAIN r = DOMAIN Idle, NEW cause
  PROVE  Follows(r, Finished(r, cause))
BY DEF Follows, Finished, Idle

LEMMA NextCardFollows ==
  ASSUME NEW r, DOMAIN r = DOMAIN Idle
  PROVE  Follows(r, NextCard(r))
<1>1. ASSUME NEW i
      PROVE  Follows(r, ShowCard(r, i))
  <2> DEFINE q == [r EXCEPT !.cards = SubSeq(@, i + 1, Len(@))]
  <2>1. DOMAIN q = DOMAIN Idle /\ q.at = r.at
        BY DEF Idle
  <2>2. Follows(q, Says(q, {r.cards[i]}, "card"))
        BY <2>1, SaysFollows
  <2>3. ShowCard(r, i) = Says(q, {r.cards[i]}, "card")
        BY DEF ShowCard
  <2>   QED
        BY <2>1, <2>2, <2>3 DEF Follows
<1>2. CASE Photos(r.cards) # {}
      BY <1>1, <1>2 DEF NextCard
<1>3. CASE Photos(r.cards) = {} /\ r.missing # {}
      BY <1>3, SaysFollows DEF NextCard
<1>4. CASE Photos(r.cards) = {} /\ r.missing = {}
      BY <1>4, FinishedFollows DEF NextCard
<1>   QED
      BY <1>2, <1>3, <1>4

LEMMA ShownFollows ==
  ASSUME NEW r, DOMAIN r = DOMAIN Idle
  PROVE  DOMAIN Shown(r) = DOMAIN Idle /\ Shown(r).at = r.at /\ Shown(r).pc = r.pc
BY DEF Shown, Idle

LEMMA SentFollows ==
  ASSUME NEW r, DOMAIN r = DOMAIN Idle
  PROVE  Follows(r, Sent(r))
BY NextCardFollows, FinishedFollows DEF Sent

LEMMA SendFailedFollows ==
  ASSUME NEW r, DOMAIN r = DOMAIN Idle
  PROVE  Follows(r, SendFailed(r))
<1>1. CASE r.form = "card"
  <2> DEFINE q == [r EXCEPT !.missing = @ \cup r.saying]
  <2>1. DOMAIN q = DOMAIN Idle /\ q.at = r.at
        BY DEF Idle
  <2>2. SendFailed(r) = NextCard(q)
        BY <1>1 DEF SendFailed
  <2>   QED
        BY <2>1, <2>2, NextCardFollows DEF Follows
<1>2. CASE r.form = "photo"
  <2>1. SendFailed(r) = Says(r, r.saying, "text")
        BY <1>2 DEF SendFailed
  <2>   QED
        BY <2>1, SaysFollows
<1>3. CASE r.form \notin {"card", "photo"}
  <2>1. SendFailed(r) = Finished(r, "whatsapp")
        BY <1>3 DEF SendFailed
  <2>   QED
        BY <2>1, FinishedFollows
<1>   QED
      BY <1>1, <1>2, <1>3

LEMMA ReplyingFollows ==
  ASSUME NEW r, DOMAIN r = DOMAIN Idle, NEW type, NEW browse, NEW form
  PROVE  Follows(r, Replying(r, type, browse, form))
<1>1. CASE type = "audio"
  <2>1. Replying(r, type, browse, form) = [r EXCEPT !.pc = "speak", !.due = {"reply"}]
        BY <1>1 DEF Replying
  <2>   QED
        BY <2>1 DEF Follows, Idle
<1>2. CASE type # "audio" /\ browse # <<>>
  <2> DEFINE q == Browsing(r, browse)
  <2>1. DOMAIN q = DOMAIN Idle /\ q.at = r.at
        BY DEF Idle, Browsing
  <2>2. Replying(r, type, browse, form) = NextCard(q)
        BY <1>2 DEF Replying
  <2>3. Follows(q, NextCard(q))
        BY <2>1, NextCardFollows
  <2>   QED
        BY <2>1, <2>2, <2>3 DEF Follows
<1>3. CASE type # "audio" /\ browse = <<>>
  <2> DEFINE q == [r EXCEPT !.due = {"reply"}]
  <2>1. DOMAIN q = DOMAIN Idle /\ q.at = r.at
        BY DEF Idle
  <2>2. Replying(r, type, browse, form) = Says(q, {"reply"}, form)
        BY <1>3 DEF Replying
  <2>3. Follows(q, Says(q, {"reply"}, form))
        BY <2>1, SaysFollows
  <2>   QED
        BY <2>1, <2>2, <2>3 DEF Follows
<1>   QED
      BY <1>1, <1>2, <1>3

-----------------------------------------------------------------------------
\* One worker's step keeps the tables in shape when it leaves the worker, and
\* whatever it writes into the table of locks, in shape.
LEMMA StepKeepsShape ==
  ASSUME Shaped, NEW w \in Worker, Placed(w, worker'[w]), DOMAIN worker' = Worker,
         \A v \in Worker : v # w => worker'[v] = worker[v],
         DOMAIN locks' = Customer, DOMAIN holder' = Lock,
         \A c \in Customer : locks'[c] \in Lock \cup {None}
  PROVE  Shaped'
<1>1. ASSUME NEW v \in Worker
      PROVE  Placed(v, worker'[v])
  <2>1. Placed(v, worker[v])
        BY DEF Shaped
  <2>   QED
        BY <2>1
<1>   QED
      BY <1>1 DEF Shaped

-----------------------------------------------------------------------------
\* A step of one worker that ends away from any lock, and releases the one it
\* held if it held one.
LEMMA Leaves ==
  ASSUME LockInv, NEW w \in Worker, NEW s, Placed(w, s), s.pc \notin LockPhases,
         Becomes(w, s), UNCHANGED <<guard, locks>>,
         \/ holder' = holder
         \/ worker[w].pc = "turn" /\ holder' = [holder EXCEPT ![worker[w].lock] = None]
  PROVE  LockInv'
<1>1. /\ DOMAIN worker' = Worker /\ worker'[w] = s
      /\ \A v \in Worker : v # w => worker'[v] = worker[v]
      BY DEF Becomes, LockInv, Shaped
<1>2. Shaped'
      BY <1>1 DEF LockInv, Shaped, Placed
<1>3. ASSUME NEW v \in Worker
      PROVE  Holding(v)'
  <2>1. CASE v = w
        BY <1>1, <2>1 DEF Holding, LockPhases
  <2>2. CASE v # w
    <3>1. Holding(v)
          BY DEF LockInv
    <3>2. worker'[v] = worker[v] /\ Sender(v)' = Sender(v)
          BY <1>1, <2>2 DEF Sender, Current
    <3>3. worker[v].pc = "turn" => holder'[worker[v].lock] = v
      <4>1. CASE holder' = holder
            BY <3>1, <4>1 DEF Holding
      <4>2. CASE worker[w].pc = "turn" /\ holder' = [holder EXCEPT ![worker[w].lock] = None]
        <5>1. holder[worker[w].lock] = w
              BY <4>2 DEF LockInv, Holding
        <5>   QED
              BY <2>2, <3>1, <4>2, <5>1 DEF Holding, LockInv, Shaped
      <4>   QED
            BY <4>1, <4>2
    <3>   QED
          BY <3>1, <3>2, <3>3 DEF Holding
  <2>   QED
        BY <2>1, <2>2
<1>   QED
      BY <1>2, <1>3 DEF LockInv

\* A worker at a message has a customer to answer.
LEMMA SenderIsCustomer ==
  ASSUME LockInv, NEW w \in Worker, worker[w].pc \notin {"off", "done"}
  PROVE  Sender(w) \in Customer
<1>1. w[1] \in Payload
      BY DEF Worker
<1>2. worker[w].at \in DOMAIN Batch[w[1]]
      BY DEF LockInv, Shaped, Placed
<1>3. Batch[w[1]] \in Seq(Message)
      BY <1>1, ChannelFacts
<1>4. Current(w) \in Message
      BY <1>2, <1>3 DEF Current
<1>   QED
      BY <1>4, ChannelFacts DEF Sender

\* A reply leaves its worker at its message, away from any lock.
LEMMA ReplyLeaves ==
  ASSUME LockInv, NEW w \in Worker, NEW r, NEW s, worker[w].pc \notin {"off", "done"},
         r.at = worker[w].at, Follows(r, s),
         Becomes(w, s), UNCHANGED <<guard, locks>>,
         \/ holder' = holder
         \/ worker[w].pc = "turn" /\ holder' = [holder EXCEPT ![worker[w].lock] = None]
  PROVE  LockInv'
<1>1. Placed(w, s) /\ s.pc \notin LockPhases
      BY DEF LockInv, Shaped, Placed, Follows, LockPhases
<1>   QED
      BY <1>1, Leaves

\* The steps that take the lock.
LEMMA LockSteps ==
  ASSUME LockInv, NEW w \in Worker,
         SessionLock(w) \/ SessionLockReturns(w) \/ RouteCustomer(w)
  PROVE  LockInv'
<1>1. Sender(w) \in Customer
      BY SenderIsCustomer DEF SessionLock, SessionLockReturns, RouteCustomer
<1>2. CASE SessionLock(w)
  <2>1. /\ DOMAIN worker' = Worker
        /\ worker'[w] = [worker[w] EXCEPT !.pc = "lock", !.lock = locks[Sender(w)]]
        /\ \A v \in Worker : v # w => worker'[v] = worker[v]
        BY <1>2 DEF SessionLock, Becomes, LockInv, Shaped
  <2>2. /\ DOMAIN worker'[w] = DOMAIN Idle /\ worker'[w].pc = "lock"
        /\ worker'[w].lock = locks[Sender(w)] /\ worker'[w].at = worker[w].at
        BY <2>1 DEF LockInv, Shaped, Placed, Idle
  <2>3. Shaped'
    <3>1. worker[w].at \in DOMAIN Batch[w[1]]
          BY <1>2 DEF SessionLock, LockInv, Shaped, Placed
    <3>2. Placed(w, worker'[w])
          BY <2>2, <3>1 DEF Placed
    <3>3. UNCHANGED <<locks, holder>>
          BY <1>2 DEF SessionLock
    <3>   QED
          BY <2>1, <3>2, <3>3, StepKeepsShape DEF LockInv, Shaped
  <2>4. ASSUME NEW v \in Worker
        PROVE  Holding(v)'
    <3>1. Sender(v)' = Sender(v)
          BY <2>1, <2>2 DEF Sender, Current
    <3>2. CASE v = w
          BY <1>2, <2>2, <3>1, <3>2 DEF SessionLock, Holding
    <3>3. CASE v # w
      <4>1. worker[v].pc # "lock"
            BY <1>2, NoneAssumption DEF SessionLock, LockInv, Holding
      <4>   QED
            BY <1>2, <2>1, <3>1, <3>3, <4>1 DEF SessionLock, LockInv, Holding
    <3>   QED
          BY <3>2, <3>3
  <2>   QED
        BY <2>3, <2>4 DEF LockInv
<1>3. CASE SessionLockReturns(w)
  <2> DEFINE lock == IF worker[w].lock = None THEN <<w, Sender(w)>> ELSE worker[w].lock
  <2>1. /\ DOMAIN worker' = Worker
        /\ worker'[w] = [worker[w] EXCEPT !.pc = "wait", !.lock = lock]
        /\ \A v \in Worker : v # w => worker'[v] = worker[v]
        BY <1>3 DEF SessionLockReturns, Becomes, LockInv, Shaped
  <2>2. worker[w].lock = locks[Sender(w)] /\ guard = w
        BY <1>3 DEF SessionLockReturns, LockInv, Holding
  <2>3. lock \in Lock
        BY <1>1, <2>2 DEF LockInv, Shaped, Lock
  <2> HIDE DEF lock
  <2>4. /\ DOMAIN worker'[w] = DOMAIN Idle /\ worker'[w].pc = "wait"
        /\ worker'[w].lock = lock /\ worker'[w].at = worker[w].at
        BY <2>1 DEF LockInv, Shaped, Placed, Idle
  <2>5. locks' = [locks EXCEPT ![Sender(w)] = lock] /\ UNCHANGED holder
        BY <1>3 DEF SessionLockReturns, lock
  <2>6. Shaped'
    <3>1. worker[w].at \in DOMAIN Batch[w[1]]
          BY <1>3 DEF SessionLockReturns, LockInv, Shaped, Placed
    <3>2. Placed(w, worker'[w])
          BY <2>4, <3>1 DEF Placed
    <3>3. /\ DOMAIN locks' = Customer /\ DOMAIN holder' = Lock
          /\ \A c \in Customer : locks'[c] \in Lock \cup {None}
          BY <2>3, <2>5 DEF LockInv, Shaped
    <3>   QED
          BY <2>1, <3>2, <3>3, StepKeepsShape DEF LockInv
  <2>7. locks'[Sender(w)] = lock
        BY <1>1, <2>5 DEF LockInv, Shaped
  <2>8. ASSUME NEW v \in Worker
        PROVE  Holding(v)'
    <3>1. Sender(v)' = Sender(v)
          BY <2>1, <2>4 DEF Sender, Current
    <3>2. CASE v = w
          BY <2>3, <2>4, <2>7, <3>1, <3>2 DEF Holding
    <3>3. CASE v # w
      <4>1. worker[v].pc # "lock"
            BY <2>2, <3>3 DEF LockInv, Holding
      <4>2. ASSUME worker[v].pc \in {"wait", "turn"}
            PROVE  worker[v].lock = locks'[Sender(v)]
        <5>1. worker[v].lock = locks[Sender(v)] /\ worker[v].lock \in Lock
              BY <4>2 DEF LockInv, Holding
        <5>2. CASE Sender(v) = Sender(w)
              BY <2>2, <2>7, <5>1, <5>2, NoneAssumption DEF lock
        <5>3. CASE Sender(v) # Sender(w)
              BY <2>5, <5>1, <5>3 DEF LockInv, Shaped
        <5>   QED
              BY <5>2, <5>3
      <4>   QED
            BY <2>1, <2>5, <3>1, <3>3, <4>1, <4>2 DEF LockInv, Holding
    <3>   QED
          BY <3>2, <3>3
  <2>   QED
        BY <2>6, <2>8 DEF LockInv
<1>4. CASE RouteCustomer(w)
  <2>1. /\ DOMAIN worker' = Worker /\ worker'[w] = [worker[w] EXCEPT !.pc = "turn"]
        /\ \A v \in Worker : v # w => worker'[v] = worker[v]
        BY <1>4 DEF RouteCustomer, Becomes, LockInv, Shaped
  <2>2. /\ DOMAIN worker'[w] = DOMAIN Idle /\ worker'[w].pc = "turn"
        /\ worker'[w].lock = worker[w].lock /\ worker'[w].at = worker[w].at
        BY <2>1 DEF LockInv, Shaped, Placed, Idle
  <2>3. worker[w].lock = locks[Sender(w)] /\ worker[w].lock \in Lock
        BY <1>4 DEF RouteCustomer, LockInv, Holding
  <2>4. Shaped'
    <3>1. worker[w].at \in DOMAIN Batch[w[1]]
          BY <1>4 DEF RouteCustomer, LockInv, Shaped, Placed
    <3>2. Placed(w, worker'[w])
          BY <2>2, <3>1 DEF Placed
    <3>3. DOMAIN holder' = Lock /\ UNCHANGED locks
          BY <1>4 DEF RouteCustomer, LockInv, Shaped
    <3>   QED
          BY <2>1, <3>2, <3>3, StepKeepsShape DEF LockInv, Shaped
  <2>5. holder'[worker[w].lock] = w
        BY <1>4, <2>3 DEF RouteCustomer, LockInv, Shaped
  <2>6. ASSUME NEW v \in Worker
        PROVE  Holding(v)'
    <3>1. Sender(v)' = Sender(v)
          BY <2>1, <2>2 DEF Sender, Current
    <3>2. CASE v = w
          BY <1>4, <2>2, <2>3, <2>5, <3>1, <3>2 DEF RouteCustomer, Holding
    <3>3. CASE v # w
      <4>1. worker[v].pc = "turn" => worker[v].lock # worker[w].lock
            BY <1>4, NoneAssumption DEF RouteCustomer, LockInv, Holding
      <4>2. worker[v].pc = "turn" => holder'[worker[v].lock] = v
            BY <1>4, <4>1 DEF RouteCustomer, LockInv, Holding, Shaped
      <4>   QED
            BY <1>4, <2>1, <3>1, <3>3, <4>2 DEF RouteCustomer, LockInv, Holding
    <3>   QED
          BY <3>2, <3>3
  <2>   QED
        BY <2>4, <2>6 DEF LockInv
<1>   QED
      BY <1>2, <1>3, <1>4

-----------------------------------------------------------------------------
(* The steps that have nothing to do with the lock.                        *)

\* A delivery starts a worker that has not run before, or has run and ended.
LEMMA ReceiveKeepsLocks ==
  ASSUME LockInv, NEW p \in Payload, ReceiveMessage(p)
  PROVE  LockInv'
<1> DEFINE w == <<p, posted[p] + 1>>
           s == IF Batch[p] = <<>> THEN [Idle EXCEPT !.pc = "done"] ELSE Starting(1)
<1>1. Becomes(w, s) /\ UNCHANGED <<guard, locks, holder>>
      BY DEF ReceiveMessage, Becomes
<1>2. CASE w \in Worker
  <2>1. CASE Batch[p] = <<>>
    <3>1. s.pc = "done" /\ DOMAIN s = DOMAIN Idle
          BY <2>1 DEF Idle
    <3>2. Placed(w, s) /\ s.pc \notin LockPhases
          BY <3>1 DEF Placed, LockPhases
    <3> HIDE DEF s, w
    <3>   QED
          BY <1>1, <1>2, <3>2, Leaves
  <2>2. CASE Batch[p] # <<>>
    <3>1. s.pc = "start" /\ s.at = 1 /\ DOMAIN s = DOMAIN Idle
          BY <2>2 DEF Idle, Starting
    <3>2. 1 \in DOMAIN Batch[p] /\ w[1] = p
          BY <2>2, ChannelFacts
    <3> HIDE DEF s, w
    <3>3. Placed(w, s) /\ s.pc \notin LockPhases
          BY <3>1, <3>2 DEF Placed, LockPhases
    <3>   QED
          BY <1>1, <1>2, <3>3, Leaves
  <2>   QED
        BY <2>1, <2>2
<1>3. CASE w \notin Worker
  <2> HIDE DEF s, w
  <2>1. /\ DOMAIN worker' = Worker /\ UNCHANGED <<guard, locks, holder>>
        /\ \A v \in Worker : worker'[v] = worker[v]
        BY <1>1, <1>3 DEF Becomes, LockInv, Shaped
  <2>2. Shaped'
        BY <2>1 DEF LockInv, Shaped
  <2>3. ASSUME NEW v \in Worker
        PROVE  Holding(v)'
        BY <2>1 DEF LockInv, Holding, Sender, Current
  <2>   QED
        BY <2>2, <2>3 DEF LockInv
<1>   QED
      BY <1>2, <1>3

\* A worker that only moves on stays at its message.
LEMMA MovesOn ==
  ASSUME LockInv, NEW w \in Worker, worker[w].pc \notin {"off", "done"},
         NEW pc \in {"lookup", "media", "upload"},
         Becomes(w, [worker[w] EXCEPT !.pc = pc]), NoLocking
  PROVE  LockInv'
<1> DEFINE s == [worker[w] EXCEPT !.pc = pc]
<1>1. /\ DOMAIN worker[w] = DOMAIN Idle
      /\ worker[w].at \in DOMAIN Batch[w[1]]
      BY DEF LockInv, Shaped, Placed
<1>2. DOMAIN s = DOMAIN Idle /\ s.at = worker[w].at /\ s.pc = pc
      BY <1>1 DEF Idle
<1> HIDE DEF s
<1>3. Placed(w, s) /\ s.pc \notin LockPhases
      BY <1>1, <1>2 DEF Placed, LockPhases
<1>4. Becomes(w, s) /\ UNCHANGED <<guard, locks>> /\ holder' = holder
      BY DEF s, NoLocking
<1>   QED
      BY <1>3, <1>4, Leaves

\* A worker that answers, or gives up its message, holds no lock.
LEMMA Answers ==
  ASSUME LockInv, NEW w \in Worker, NEW r, NEW s, worker[w].pc \notin {"off", "done"},
         r.at = worker[w].at, Follows(r, s), Becomes(w, s), NoLocking
  PROVE  LockInv'
BY ReplyLeaves DEF NoLocking

LEMMA HandleKeepsLocks ==
  ASSUME LockInv, NEW w \in Worker, HandleMessage(w)
  PROVE  LockInv'
<1>1. worker[w].pc = "start" /\ NoLocking /\ DOMAIN worker[w] = DOMAIN Idle
      BY DEF HandleMessage, LockInv, Shaped, Placed
<1>2. CASE Type[Current(w)] = "text"
  <2>1. Becomes(w, [worker[w] EXCEPT !.pc = "lookup"])
        BY <1>2 DEF HandleMessage
  <2>   QED
        BY <1>1, <2>1, MovesOn
<1>3. CASE Type[Current(w)] \in {"audio", "image"}
  <2>1. Becomes(w, [worker[w] EXCEPT !.pc = "media"])
        BY <1>3 DEF HandleMessage
  <2>   QED
        BY <1>1, <2>1, MovesOn
<1>4. CASE Type[Current(w)] \notin {"text", "audio", "image"}
  <2>1. PICK cause : Becomes(w, Finished(worker[w], cause))
        BY <1>4 DEF HandleMessage
  <2>   QED
        BY <1>1, <2>1, FinishedFollows, Answers
<1>   QED
      BY <1>2, <1>3, <1>4

LEMMA ReadKeepsLocks ==
  ASSUME LockInv, NEW w \in Worker, ReadMedia(w)
  PROVE  LockInv'
<1>1. worker[w].pc = "media" /\ NoLocking /\ DOMAIN worker[w] = DOMAIN Idle
      BY DEF ReadMedia, LockInv, Shaped, Placed
<1>2. CASE Becomes(w, [worker[w] EXCEPT !.pc = "lookup"])
      BY <1>1, <1>2, MovesOn
<1>3. CASE Becomes(w, Says([worker[w] EXCEPT !.due = {"apology"}], {"apology"}, "text"))
  <2> DEFINE q == [worker[w] EXCEPT !.due = {"apology"}]
  <2>1. DOMAIN q = DOMAIN Idle /\ q.at = worker[w].at
        BY <1>1 DEF Idle
  <2> HIDE DEF q
  <2>2. Follows(q, Says(q, {"apology"}, "text"))
        BY <2>1, SaysFollows
  <2>3. Becomes(w, Says(q, {"apology"}, "text"))
        BY <1>3 DEF q
  <2>   QED
        BY <1>1, <2>1, <2>2, <2>3, Answers
<1>4. CASE Becomes(w, Finished(worker[w], "media"))
      BY <1>1, <1>4, FinishedFollows, Answers
<1>   QED
      BY <1>2, <1>3, <1>4 DEF ReadMedia

LEMMA ReturnKeepsLocks ==
  ASSUME LockInv, NEW w \in Worker, RouteCustomerReturns(w)
  PROVE  LockInv'
<1>1. /\ worker[w].pc = "turn" /\ DOMAIN worker[w] = DOMAIN Idle
      /\ UNCHANGED <<guard, locks>>
      /\ holder' = [holder EXCEPT ![worker[w].lock] = None]
      BY DEF RouteCustomerReturns, LockInv, Shaped, Placed
<1>2. ASSUME NEW browse, NEW form,
             Becomes(w, Replying(worker[w], Type[Current(w)], browse, form))
      PROVE  LockInv'
  <2>1. Follows(worker[w], Replying(worker[w], Type[Current(w)], browse, form))
        BY <1>1, ReplyingFollows
  <2>   QED
        BY <1>1, <1>2, <2>1, ReplyLeaves
<1>3. CASE Becomes(w, Finished(worker[w], "turn"))
      BY <1>1, <1>3, FinishedFollows, ReplyLeaves
<1>   QED
      BY <1>2, <1>3 DEF RouteCustomerReturns

LEMMA SpeechKeepsLocks ==
  ASSUME LockInv, NEW w \in Worker, SynthesizeSpeech(w) \/ UploadAudio(w)
  PROVE  LockInv'
<1>1. /\ worker[w].pc \in {"speak", "upload"} /\ NoLocking
      /\ DOMAIN worker[w] = DOMAIN Idle
      BY DEF SynthesizeSpeech, UploadAudio, LockInv, Shaped, Placed
<1>2. CASE Becomes(w, [worker[w] EXCEPT !.pc = "upload"])
      BY <1>1, <1>2, MovesOn
<1>3. CASE \E form : Becomes(w, Says(worker[w], {"reply"}, form))
      BY <1>1, <1>3, SaysFollows, Answers
<1>4. CASE Becomes(w, Finished(worker[w], "whatsapp"))
      BY <1>1, <1>4, FinishedFollows, Answers
<1>   QED
      BY <1>2, <1>3, <1>4 DEF SynthesizeSpeech, UploadAudio

LEMMA PostKeepsLocks ==
  ASSUME LockInv, NEW w \in Worker,
         PostAccepted(w) \/ PostRejected(w) \/ PostUnanswered(w)
  PROVE  LockInv'
<1> DEFINE r == worker[w]
<1>1. r.pc = "post" /\ NoLocking /\ DOMAIN r = DOMAIN Idle
      BY DEF PostAccepted, PostRejected, PostUnanswered, LockInv, Shaped, Placed
<1>2. /\ DOMAIN Shown(r) = DOMAIN Idle /\ Shown(r).at = r.at
      /\ Shown(r).pc = "post"
      BY <1>1, ShownFollows
<1>3. CASE PostAccepted(w)
  <2>1. Follows(Shown(r), Sent(Shown(r)))
        BY <1>2, SentFollows
  <2>   QED
        BY <1>1, <1>2, <1>3, <2>1, Answers DEF PostAccepted
<1>4. CASE PostRejected(w)
  <2>1. Follows(r, SendFailed(r))
        BY <1>1, SendFailedFollows
  <2>   QED
        BY <1>1, <1>4, <2>1, Answers DEF PostRejected
<1>5. CASE PostUnanswered(w)
  <2>1. PICK q \in {r, Shown(r)} :
               Becomes(w, IF q.tries = MaxRetries THEN SendFailed(q)
                          ELSE [q EXCEPT !.tries = @ + 1])
        BY <1>5 DEF PostUnanswered
  <2>2. DOMAIN q = DOMAIN Idle /\ q.at = r.at /\ q.pc = "post"
        BY <1>1, <1>2, <2>1
  <2>3. CASE q.tries = MaxRetries
    <3>1. Follows(q, SendFailed(q))
          BY <2>2, SendFailedFollows
    <3>   QED
          BY <1>1, <2>1, <2>2, <2>3, <3>1, Answers
  <2>4. CASE q.tries # MaxRetries
    <3> DEFINE s == [q EXCEPT !.tries = @ + 1]
    <3>1. Follows(q, s)
          BY <2>2 DEF Follows, Idle
    <3>2. Becomes(w, s)
          BY <2>1, <2>4
    <3> HIDE DEF s
    <3>   QED
          BY <1>1, <2>2, <3>1, <3>2, Answers
  <2>   QED
        BY <2>3, <2>4
<1>   QED
      BY <1>3, <1>4, <1>5

LEMMA NextMessageKeepsLocks ==
  ASSUME LockInv, NEW w \in Worker, NextMessage(w)
  PROVE  LockInv'
<1>1. worker[w].pc = "finished" /\ NoLocking
      BY DEF NextMessage
<1>2. worker[w].at \in DOMAIN Batch[w[1]]
      BY <1>1 DEF LockInv, Shaped, Placed
<1>3. Batch[w[1]] \in Seq(Message)
      BY ChannelFacts DEF Worker
<1>4. CASE worker[w].at < Len(Batch[w[1]]) /\ worker[w].cause # "raised"
  <2> DEFINE s == Starting(worker[w].at + 1)
  <2>1. DOMAIN s = DOMAIN Idle /\ s.pc = "start" /\ s.at = worker[w].at + 1
        BY DEF Starting, Idle
  <2>2. worker[w].at + 1 \in DOMAIN Batch[w[1]]
        BY <1>2, <1>3, <1>4
  <2>3. Becomes(w, s)
        BY <1>4 DEF NextMessage
  <2> HIDE DEF s
  <2>4. Placed(w, s) /\ s.pc \notin LockPhases
        BY <2>1, <2>2 DEF Placed, LockPhases
  <2>   QED
        BY <1>1, <2>3, <2>4, Leaves DEF NoLocking
<1>5. CASE ~ (worker[w].at < Len(Batch[w[1]]) /\ worker[w].cause # "raised")
  <2> DEFINE s == [Idle EXCEPT !.at = worker[w].at, !.pc = "done"]
  <2>1. DOMAIN s = DOMAIN Idle /\ s.pc = "done"
        BY DEF Idle
  <2>2. Becomes(w, s)
        BY <1>5 DEF NextMessage
  <2> HIDE DEF s
  <2>3. Placed(w, s) /\ s.pc \notin LockPhases
        BY <2>1 DEF Placed, LockPhases
  <2>   QED
        BY <1>1, <2>2, <2>3, Leaves DEF NoLocking
<1>   QED
      BY <1>4, <1>5

-----------------------------------------------------------------------------
LEMMA LocksAtFirst == Init => LockInv
BY DEF Init, LockInv, Shaped, Placed, Holding, Idle

LEMMA LocksFromStepToStep == LockInv /\ [Next]_vars => LockInv'
<1> SUFFICES ASSUME LockInv, [Next]_vars
             PROVE  LockInv'
    OBVIOUS
<1>1. CASE \E p \in Payload : ReceiveMessage(p)
      BY <1>1, ReceiveKeepsLocks
<1>2. ASSUME NEW w \in Worker, Step(w)
      PROVE  LockInv'
      BY <1>2, HandleKeepsLocks, ReadKeepsLocks, LockSteps, ReturnKeepsLocks,
         SpeechKeepsLocks, PostKeepsLocks, NextMessageKeepsLocks
         DEF Step, TranscribeAudio, DescribeProductImage
<1>3. CASE UNCHANGED vars
      BY <1>3 DEF vars, LockInv, Shaped, Holding, Sender, Current
<1>   QED
      BY <1>1, <1>2, <1>3 DEF Next

\* Two turns of one customer would hold the customer's only lock.
LEMMA LocksKeepTurnsApart == LockInv => OneTurnAtATime
BY DEF LockInv, Holding, OneTurnAtATime, Turning

\* However many threads find a session without a lock, and whatever services
\* and sends do, turns of one customer never overlap
\* (SessionStore.session_lock() and router.route_customer()).
THEOREM TurnsDoNotOverlap == Spec => []OneTurnAtATime
BY LocksAtFirst, LocksFromStepToStep, LocksKeepTurnsApart, PTL DEF Spec
=============================================================================
