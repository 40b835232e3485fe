---------------------------- MODULE MessageTurns ----------------------------
(***************************************************************************)
(* What the channel promises of its customers' messages, with no thread,   *)
(* lock, service or send behind it: the messages of a delivery are taken   *)
(* up in order, each once the one before it is settled; a message has at   *)
(* most one turn for a delivery; and no two turns of one customer overlap, *)
(* which is what the docstring of SessionStore.session_lock() asks of      *)
(* route_customer().                                                       *)
(***************************************************************************)
EXTENDS Naturals

CONSTANTS
  Delivery,
  Senders   \* delivery -> who its messages are from, in order

VARIABLES
  at,       \* delivery -> the place of the message it is at, 0 for none yet
  phase     \* delivery -> whether that message is open, in its turn or settled

vars == <<at, phase>>

Init ==
  /\ at = [d \in Delivery |-> 0]
  /\ phase = [d \in Delivery |-> "settled"]

\* The next message of a delivery is taken up.
Take(d) ==
  /\ phase[d] = "settled" /\ at[d] + 1 \in DOMAIN Senders[d]
  /\ at' = [at EXCEPT ![d] = @ + 1]
  /\ phase' = [phase EXCEPT ![d] = "open"]

\* A message is settled without a turn: it cannot be read, or is of no use.
Drop(d) ==
  /\ phase[d] = "open"
  /\ phase' = [phase EXCEPT ![d] = "settled"]
  /\ UNCHANGED at

Sender(d) == Senders[d][at[d]]

Begin(d) ==
  /\ phase[d] = "open"
  /\ \A other \in Delivery : phase[other] = "turn" => Sender(other) # Sender(d)
  /\ phase' = [phase EXCEPT ![d] = "turn"]
  /\ UNCHANGED at

\* Whatever is sent afterwards, the message has had its turn.
End(d) ==
  /\ phase[d] = "turn"
  /\ phase' = [phase EXCEPT ![d] = "settled"]
  /\ UNCHANGED at

Next == \E d \in Delivery : Take(d) \/ Drop(d) \/ Begin(d) \/ End(d)

Spec == Init /\ [][Next]_vars
=============================================================================
