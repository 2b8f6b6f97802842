------------------------------- MODULE MCOutbox -------------------------------
(* Instance of Outbox.                                                      *)
EXTENDS Outbox
============================================================================
