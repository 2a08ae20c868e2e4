--------------------------- MODULE MCEventLedger ---------------------------
(* Instance of EventLedger for TLC: callers and events are interchangeable. *)
EXTENDS EventLedger, TLC

Interchangeable == Permutations(Clients) \cup Permutations(Streams)
=============================================================================
