----------------------------- MODULE MCAlerting -----------------------------
(* Three keys that compete for one rate window.                            *)
EXTENDS Alerting

CONSTANTS k1, k2, k3
=============================================================================
