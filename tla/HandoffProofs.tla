---------------------------- MODULE HandoffProofs ----------------------------
(***************************************************************************)
(* The clock of a handed-over conversation, for every Ttl, window and      *)
(* bound: the two action properties and the invariant of Handoff.          *)
(***************************************************************************)
EXTENDS Handoff, TLAPS

\* While a session knows of its escalation, its expiry counts from the last
\* attempt to notify, and what staff last received is no later than that; once
\* it has forgotten it, more than Ttl has passed since staff received anything.
Clocked ==
  /\ notified_at # None => expires_at = notified_at + Ttl
  /\ notified_at # None /\ noticed # None => noticed <= notified_at
  /\ noticed # None /\ notified_at = None => now > noticed + Ttl
  /\ handedOff => notified_at # None /\ heard # None

\* The record says whether the attempt it is dated by reached staff.
RecordIsTrue == staff_notified => notified_at # None /\ noticed = notified_at

\* A message held back lies within the window of the last attempt.
HeldWithinWindow ==
  handedOff => heard = notified_at \/ heard < notified_at + Renotify

\* A reply that says the team knows was given in an escalated session whose
\* record says so.
PromisedByTheRecord == promised => handedOff /\ staff_notified

\* Only what the assistant does itself takes a conversation back.
StaysHandedOver == Escalated => handedOff

IInv ==
  /\ TypeOK /\ Clocked /\ StaysHandedOver
  /\ RecordIsTrue /\ HeldWithinWindow /\ PromisedByTheRecord

\* An escalated session that is no longer live has been silent, but for the
\* window, since Ttl ago.
LEMMA Lapsed ==
  ASSUME IInv, ~Escalated, notified_at # None
  PROVE  now > notified_at + Ttl
BY ClockAssumption DEF IInv, TypeOK, Clocked, Escalated, Live, Time

LEMMA InitIInv == Init => IInv
<1> SUFFICES ASSUME Init
             PROVE  IInv
    OBVIOUS
<1>1. /\ handedOff \in BOOLEAN /\ ~handedOff
      /\ promised \in BOOLEAN /\ ~promised
      /\ staff_notified \in BOOLEAN /\ ~staff_notified
      BY DEF Init
<1>2. TypeOK
      BY <1>1, ClockAssumption DEF Init, TypeOK, Time
<1>3. /\ Clocked /\ StaysHandedOver
      /\ RecordIsTrue /\ HeldWithinWindow /\ PromisedByTheRecord
      BY <1>1 DEF Init, Clocked, RecordIsTrue, HeldWithinWindow,
                  PromisedByTheRecord, StaysHandedOver, Escalated
<1>   QED
      BY <1>2, <1>3 DEF IInv

\* An attempt to notify staff, in a session that is handed over from then on.
LEMMA NotifyIInv ==
  ASSUME IInv, Notify, heard' = now, handedOff' = TRUE,
         UNCHANGED <<now, restarts>>
  PROVE  IInv'
<1> USE ClockAssumption DEF IInv, TypeOK, Time
<1>1. PICK sent \in BOOLEAN :
        /\ Set(now, sent)
        /\ noticed' = IF sent THEN now ELSE noticed
        /\ promised' = sent
      BY Zenon DEF Notify
<1>2. TypeOK'
  <2>1. expires_at' = now + Ttl /\ notified_at' = now
        BY <1>1 DEF Set
  <2>2. staff_notified' \in BOOLEAN /\ promised' \in BOOLEAN /\ handedOff' \in BOOLEAN
        BY <1>1, Zenon DEF Set
  <2>3. noticed' \in Nat \cup {None}
        BY <1>1
  <2>   QED
        BY <2>1, <2>2, <2>3
<1>3. noticed # None => noticed <= now
      BY DEF Clocked
<1>4. CASE sent
      BY <1>1, <1>2, <1>4
      DEF Set, Clocked, RecordIsTrue, HeldWithinWindow, PromisedByTheRecord,
          StaysHandedOver
<1>5. CASE ~sent
      BY <1>1, <1>2, <1>3, <1>5
      DEF Set, Clocked, RecordIsTrue, HeldWithinWindow, PromisedByTheRecord,
          StaysHandedOver
<1>   QED
      BY <1>4, <1>5

LEMMA NextIInv == IInv /\ [Next]_vars => IInv'
<1> SUFFICES ASSUME IInv, [Next]_vars
             PROVE  IInv'
    OBVIOUS
<1> USE ClockAssumption DEF IInv, TypeOK, Time
<1> USE DEF Clocked, RecordIsTrue, HeldWithinWindow, PromisedByTheRecord, session,
            StaysHandedOver, Escalated, Live
<1>1. CASE Tick
      BY <1>1 DEF Tick
<1>2. CASE Act
  <2>1. notified_at # None => now > notified_at + Ttl
        BY <1>2, Lapsed DEF Act
  <2>2. noticed # None => now > noticed + Ttl
        BY <2>1
  <2>h. handedOff' \in BOOLEAN /\ ~handedOff' /\ promised' \in BOOLEAN /\ ~promised'
        BY <1>2 DEF Act
  <2>3. CASE Set(None, FALSE)
    <3>1. staff_notified' \in BOOLEAN /\ ~staff_notified'
          BY <2>3 DEF Set
    <3>   QED
          BY <1>2, <2>2, <2>3, <2>h, <3>1 DEF Act, Set
  <2>4. CASE UNCHANGED session
        BY <1>2, <2>2, <2>4, <2>h DEF Act
  <2>   QED
        BY <1>2, <2>3, <2>4 DEF Act
<1>3. CASE Escalate
      BY <1>3, NotifyIInv DEF Escalate
<1>4. CASE Hold
  <2>1. CASE WithinWindow(Renotify)
    <3>1. /\ promised' \in BOOLEAN /\ (promised' <=> staff_notified)
          /\ staff_notified' \in BOOLEAN /\ (staff_notified' <=> staff_notified)
          /\ handedOff' \in BOOLEAN /\ handedOff'
          BY <1>4, <2>1, Zenon DEF WithinWindow, Hold
    <3>2. /\ now - notified_at < Renotify /\ heard' = now /\ now' = now
          /\ expires_at' = expires_at /\ notified_at' = notified_at
          /\ noticed' = noticed /\ restarts' = restarts /\ notified_at # None
          BY <1>4, <2>1 DEF Hold, WithinWindow, Escalated
    <3>3. TypeOK'
          BY <3>1, <3>2
    <3>   QED
          BY <3>1, <3>2, <3>3
  <2>2. CASE now - notified_at >= Renotify /\ Notify
    <3>1. handedOff' = TRUE
          BY <1>4, Zenon DEF Hold
    <3>2. Notify /\ heard' = now /\ UNCHANGED <<now, restarts>>
          BY <1>4, <2>2 DEF Hold
    <3>   QED
          BY <3>1, <3>2, NotifyIInv
  <2>   QED
        BY <1>4, <2>1, <2>2 DEF Hold
<1>5. CASE Restart
  <2>1. /\ handedOff' \in BOOLEAN /\ ~handedOff'
        /\ promised' \in BOOLEAN /\ ~promised'
        /\ staff_notified' \in BOOLEAN /\ ~staff_notified'
        BY <1>5 DEF Restart
  <2>   QED
        BY <1>5, <2>1 DEF Restart
<1>6. CASE UNCHANGED vars
      BY <1>6 DEF vars
<1>   QED
      BY <1>1, <1>2, <1>3, <1>4, <1>5, <1>6 DEF Next

\* The state is well formed (SessionStore, escalate()).
THEOREM Typed == Spec => []TypeOK
<1>1. IInv => TypeOK
      BY DEF IInv
<1>   QED
      BY <1>1, InitIInv, NextIInv, PTL DEF Spec

\* A customer is told that the team knows only when a notification reached
\* staff with that message or less than a window before it (escalate(),
\* holding_result(), response_formatter.py).
THEOREM PromisesAreTrue == Spec => []PromisesAreKept
<1>1. IInv => PromisesAreKept
      BY DEF IInv, TypeOK, Time, Clocked, RecordIsTrue, HeldWithinWindow,
             PromisedByTheRecord, PromisesAreKept
<1>   QED
      BY <1>1, InitIInv, NextIInv, PTL DEF Spec

\* The assistant acts on a conversation it handed over only after more than
\* Ttl - Renotify of silence (escalate(), SessionStore.set()).
THEOREM SilenceBeforeActing == Spec => ActsOnlyAfterSilence
<1> DEFINE A == handedOff /\ ~handedOff' /\ restarts' = restarts =>
                  now - heard > Ttl - Renotify
<1>1. ASSUME IInv, [Next]_vars
      PROVE  [A]_vars
  <2> SUFFICES ASSUME handedOff, ~handedOff', restarts' = restarts, Next
               PROVE  now - heard > Ttl - Renotify
      BY <1>1
  <2>1. Act
    <3>1. ~Tick /\ ~Escalate /\ ~Hold
          BY Zenon DEF Tick, Escalate, Hold
    <3>2. ~Restart
          BY <1>1 DEF Restart, IInv, TypeOK
    <3>   QED
          BY <3>1, <3>2 DEF Next
  <2>2. now > notified_at + Ttl
        BY <1>1, <2>1, Lapsed DEF Act, IInv, Clocked
  <2>   QED
        BY <1>1, <2>2, ClockAssumption DEF IInv, TypeOK, Clocked, HeldWithinWindow, Time
<1>   QED
      BY <1>1, InitIInv, NextIInv, PTL DEF Spec, ActsOnlyAfterSilence

\* Two notifications about one customer are a window, or a session's life,
\* apart (escalate(), holding_result()).
THEOREM NotificationsAreSpaced == Spec => NotificationsKeepTheirDistance
<1> DEFINE A == noticed' # noticed /\ noticed # None /\ noticed' # None =>
                  now - noticed >= Renotify \/ now - noticed > Ttl
<1>1. ASSUME IInv, [Next]_vars
      PROVE  [A]_vars
  <2> SUFFICES ASSUME noticed' # noticed, noticed # None, noticed' # None, Next
               PROVE  now - noticed >= Renotify \/ now - noticed > Ttl
      BY <1>1
  <2> USE ClockAssumption DEF IInv, TypeOK, Clocked, Time
  <2>1. Escalate \/ Hold
        BY DEF Next, Tick, Act, Restart
  <2>2. CASE Escalate
    <3>1. notified_at # None => now > notified_at + Ttl
          BY <1>1, <2>2, Lapsed DEF Escalate
    <3>2. now > noticed + Ttl
          BY <1>1, <3>1
    <3>   QED
          BY <1>1, <3>2
  <2>3. CASE Hold
    <3>1. now - notified_at >= Renotify
          BY <2>3 DEF Hold, WithinWindow
    <3>   QED
          BY <1>1, <2>3, <3>1 DEF Hold, Escalated, Live
  <2>   QED
        BY <2>1, <2>2, <2>3
<1>   QED
      BY <1>1, InitIInv, NextIInv, PTL DEF Spec, NotificationsKeepTheirDistance
=============================================================================
