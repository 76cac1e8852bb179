--------------------------- MODULE MCLiminalOutbox ---------------------------
(* Small instances of LiminalOutbox for TLC; the configurations choose the  *)
(* outbox limit and the numbers of calls and outages.                       *)
EXTENDS LiminalOutbox
=============================================================================
