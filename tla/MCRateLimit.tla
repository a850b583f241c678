---------------------------- MODULE MCRateLimit ----------------------------
(* A small instance of RequestStream: two resources.                       *)
EXTENDS RequestStream

CONSTANTS r1, r2
=============================================================================
