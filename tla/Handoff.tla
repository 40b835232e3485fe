------------------------------- MODULE Handoff -------------------------------
(***************************************************************************)
(* A conversation in the hands of a person, by the clock: escalate() and   *)
(* holding_result() of services/escalation.py over the expiry of           *)
(* services/memory.py's SessionStore.  OrderSession has the reasons that   *)
(* hand a session over; here any turn may.                                 *)
(*                                                                         *)
(* The code's two clocks, wall time for the notifications and monotonic    *)
(* time for the expiry, are one clock: wall time is taken to run steadily. *)
(* One customer is enough, since sessions share nothing.                   *)
(***************************************************************************)
EXTENDS Integers

CONSTANTS
  Ttl,          \* _SESSION_TTL_SECONDS
  Renotify,     \* escalation_renotify_seconds
  MaxTime,      \* bound: the clock
  MaxRestarts,  \* bound: restarts of the process
  None

ASSUME ClockAssumption ==
  /\ Ttl \in Nat /\ Renotify \in Nat
  /\ MaxTime \in Nat /\ MaxRestarts \in Nat
  /\ None \notin Int

VARIABLES
  now,
  expires_at,   \* of the session, or None when it has none
  notified_at,  \* of its escalation, or None when it is not escalated
  staff_notified,  \* of its escalation: whether the attempt then went through
  heard,        \* history: when the customer last wrote
  noticed,      \* history: when a notification last reached staff
  handedOff,    \* history: the session was escalated, and nothing has acted since
  promised,     \* history: the last reply said that the team knows
  restarts

session == <<expires_at, notified_at, staff_notified>>
vars == <<now, session, heard, noticed, handedOff, promised, restarts>>

\* SessionStore._is_expired(): the last second still counts.
Live == expires_at # None /\ expires_at >= now
\* is_escalated()
Escalated == Live /\ notified_at # None

\* mutant: the session's life is extended, not renewed
SetExtends(notified, sent) ==
  /\ expires_at' = (IF Live THEN expires_at ELSE now) + Ttl
  /\ notified_at' = notified /\ staff_notified' = sent

\* SessionStore.set(), with what the session's escalation is afterwards.
Set(notified, sent) ==
  /\ expires_at' = now + Ttl
  /\ notified_at' = notified /\ staff_notified' = sent

Init ==
  /\ now = 0 /\ expires_at = None /\ notified_at = None /\ staff_notified = FALSE
  /\ heard = None /\ noticed = None
  /\ handedOff = FALSE /\ promised = FALSE /\ restarts = 0

Tick ==
  /\ now < MaxTime
  /\ now' = now + 1
  /\ UNCHANGED <<session, heard, noticed, handedOff, promised, restarts>>

\* A turn of the assistant's own.  One that writes nothing, like that for an
\* empty message, refreshes nothing; the first write after an expiry starts
\* the session afresh.
Act ==
  /\ ~Escalated
  /\ \/ Set(None, FALSE)
     \/ UNCHANGED session
  /\ heard' = now /\ handedOff' = FALSE /\ promised' = FALSE
  /\ UNCHANGED <<now, noticed, restarts>>

\* mutant: once staff were told, a later attempt that fails is not recorded
NotifyOnce ==
  \E sent \in BOOLEAN :
    /\ Set(now, sent \/ (Escalated /\ staff_notified))
    /\ noticed' = IF sent THEN now ELSE noticed
    /\ promised' = sent

\* _notify_staff(): nothing is sent when no number is configured, and the send
\* may fail; either way the attempt is what the record is dated by.
Notify ==
  \E sent \in BOOLEAN :
    /\ Set(now, sent)
    /\ noticed' = IF sent THEN now ELSE noticed
    /\ promised' = sent

\* escalate() in a session that is not escalated yet.
Escalate ==
  /\ ~Escalated
  /\ Notify
  /\ heard' = now /\ handedOff' = TRUE
  /\ UNCHANGED <<now, restarts>>

\* mutant: every held message is passed on
HoldNotifying ==
  /\ Escalated
  /\ heard' = now
  /\ Notify
  /\ UNCHANGED <<now, handedOff, restarts>>

\* The message falls within the window of the last attempt: nothing is sent or
\* written, and the reply repeats what the record says of that attempt.
WithinWindow(window) ==
  /\ now - notified_at < window
  /\ promised' = staff_notified
  /\ UNCHANGED <<session, noticed>>

\* mutant: staff are told again, but the session is not written
HoldWithoutRefresh ==
  /\ Escalated
  /\ heard' = now
  /\ \/ WithinWindow(Renotify)
     \/ /\ now - notified_at >= Renotify
        /\ notified_at' = now /\ noticed' = now
        /\ staff_notified' = TRUE /\ promised' = TRUE
        /\ UNCHANGED expires_at
  /\ UNCHANGED <<now, handedOff, restarts>>

\* holding_result(): staff are told again once the window has passed, and only
\* that writes the session.
Hold ==
  /\ Escalated
  /\ heard' = now
  /\ \/ WithinWindow(Renotify)
     \/ now - notified_at >= Renotify /\ Notify
  /\ UNCHANGED <<now, handedOff, restarts>>

\* The store is in memory only.
Restart ==
  /\ restarts < MaxRestarts
  /\ expires_at' = None /\ notified_at' = None /\ staff_notified' = FALSE
  /\ heard' = None /\ noticed' = None /\ handedOff' = FALSE /\ promised' = FALSE
  /\ restarts' = restarts + 1
  /\ UNCHANGED now

Next == Tick \/ Act \/ Escalate \/ Hold \/ Restart

Spec == Init /\ [][Next]_vars

-----------------------------------------------------------------------------
(* Properties.                                                             *)

Time == Nat \cup {None}

TypeOK ==
  /\ now \in Nat /\ expires_at \in Time /\ notified_at \in Time
  /\ heard \in Time /\ noticed \in Time
  /\ staff_notified \in BOOLEAN /\ promised \in BOOLEAN
  /\ handedOff \in BOOLEAN /\ restarts \in Nat
  /\ now <= MaxTime
  /\ expires_at # None => expires_at <= now + Ttl

\* What staff are told, "The assistant will not act on this conversation until
\* it has been quiet for about 30 minutes", with what it is worth: messages
\* within the window of an attempt to notify do not keep the session alive, so the
\* assistant acts on a conversation it handed over only after more than
\* Ttl - Renotify of silence (escalate(), SessionStore.set()).
ActsOnlyAfterSilence ==
  [][handedOff /\ ~handedOff' /\ restarts' = restarts =>
       now - heard > Ttl - Renotify]_vars

\* Staff hear of one customer at most once in a window, from one escalation to
\* the next one as well, as long as the window is no longer than a session
\* lives.
NotificationsKeepTheirDistance ==
  [][noticed' # noticed /\ noticed # None /\ noticed' # None =>
       now - noticed >= Renotify \/ now - noticed > Ttl]_vars

\* response_formatter.py's "Only promise a reply from the team when a
\* notification was actually sent": a customer is told that the team knows only
\* when a notification reached staff with that message or less than a window
\* before it, whichever attempts, first or later, failed.
PromisesAreKept ==
  promised => noticed # None /\ (heard = noticed \/ heard < noticed + Renotify)
=============================================================================
