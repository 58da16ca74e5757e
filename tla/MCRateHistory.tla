---------------------------- MODULE MCRateHistory -----------------------------
(* A window of a few columns, and no more results in the queue than the UI  *)
(* thread can leave there between two seconds.                              *)
EXTENDS RateHistory

CONSTANT MaxInbox  \* bound: results not yet handled

InboxBound == Len(inbox) <= MaxInbox
=============================================================================
