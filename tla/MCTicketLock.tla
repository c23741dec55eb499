---------------------------- MODULE MCTicketLock ----------------------------
(* Three agents on counters with five values: the counters wrap.           *)
EXTENDS TicketLock
=============================================================================
