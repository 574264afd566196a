--------------------------- MODULE MC_MailCursor ---------------------------
(* A mailbox of four messages, one of them too large, and three days.       *)
EXTENDS MailCursor
=============================================================================
