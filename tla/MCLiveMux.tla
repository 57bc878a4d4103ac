----------------------------- MODULE MCLiveMux -----------------------------
(* Instances of LiveMux for TLC. *)
EXTENDS LiveMux, TLC

Symmetry == Permutations(Viewer) \cup Permutations(Key)
=============================================================================
