-------------------------- MODULE MCWhatsAppChannel --------------------------
(* Small instances of WhatsAppChannel; the .cfg files give the rest. *)
EXTENDS WhatsAppChannel

\* A payload with a message of each type, of two customers, delivered
\* twice, and a second change that is not read; and one with a
\* message that cannot be handled.
MCChanges == [p \in Payload |-> CASE
  p = "p1" -> <<<<"text", "voice", "photo", "sticker">>, <<"unread">>>>
  [] p = "p2" -> <<<<"broken", "behind">>>>]
MCFrom == [m \in Message |-> IF m = "photo" THEN "kofi" ELSE "ama"]
MCType == [m \in Message |-> CASE m = "voice" -> "audio" [] m = "photo" -> "image"
                               [] m = "sticker" -> "other" [] m = "broken" -> "malformed"
                               [] OTHER -> "text"]
MCMaxDeliveries == [p \in Payload |-> IF p = "p1" THEN 2 ELSE 1]
MCBrowses == {<<"ring", "chain">>}
=============================================================================
