---------------------------- MODULE MCEventStore ----------------------------
(* Four events on a bus that keeps two of them, and batches of two.        *)
EXTENDS EventStore
=============================================================================
