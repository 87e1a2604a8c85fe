---------------------------- MODULE MCMailQueue ----------------------------
(***************************************************************************)
(* MailQueue for TLC: two mails and room for the content of one.           *)
(***************************************************************************)
EXTENDS MailQueue

=============================================================================
