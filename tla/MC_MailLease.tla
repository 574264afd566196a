---------------------------- MODULE MC_MailLease ----------------------------
(* Two fetches of one home, each with a batch or two to publish.           *)
EXTENDS MailLease
=============================================================================
