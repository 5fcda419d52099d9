--------------------------- MODULE MCTuiExtension ---------------------------
(* Small instances of TuiExtension for TLC: MCTuiExtension.cfg (one link, all  *)
(* kinds), MCTuiExtensionRelink.cfg (two links), MCTuiExtensionReport.cfg and  *)
(* MCTuiExtensionStop.cfg.                                                     *)
EXTENDS TuiExtension, TLC

AllKinds == {"prompt", "slash", "steer", "abort", "status", "disconnect"}
RelinkKinds == {"disconnect", "prompt"}
StopKinds == {"abort", "prompt"}

Symmetry == Permutations(Link) \cup Permutations(Command)
=============================================================================
