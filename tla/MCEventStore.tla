----------------------------- MODULE MCEventStore -----------------------------
(* Two threads race on one conversation with two client identifiers, two     *)
(* bodies and one causality, enough for retries, conflicts and interleaved   *)
(* appends at every stage.  Conversations share nothing but the write lock.  *)
EXTENDS EventStore
==============================================================================
