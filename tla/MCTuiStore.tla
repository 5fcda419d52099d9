----------------------------- MODULE MCTuiStore -----------------------------
(* A small instance of TuiStore for TLC.  See MCTuiStore.cfg.                *)
EXTENDS TuiStore, TLC

Symmetry == Permutations(Connection) \cup Permutations(Tracking)
              \cup Permutations(ShortId)
=============================================================================
