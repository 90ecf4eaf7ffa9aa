----------------------------- MODULE MCMailQueue -----------------------------
(***************************************************************************)
(* Small instances of MailQueue.  Run "queue": mail from the network, two  *)
(* faults, which include "postsuper -r" and with it the maildrop and       *)
(* pickup.  Run "moves": a local submission and one fault, with fairness.  *)
(***************************************************************************)
EXTENDS MailQueue
=============================================================================
