------------------------- MODULE MCAlertLifecycle -------------------------
(* Instances of AlertLifecycle for TLC. *)
EXTENDS AlertLifecycle
=============================================================================
