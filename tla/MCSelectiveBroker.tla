-------------------------- MODULE MCSelectiveBroker --------------------------
(* Small instances of SelectiveBroker for TLC: MCSelectiveBroker.cfg lets the  *)
(* user do everything, MCSelectiveBrokerHeld.cfg what concerns held messages,  *)
(* MCSelectiveBrokerOffset.cfg is about failing transactions.                  *)
EXTENDS SelectiveBroker, TLC

Symmetry == Permutations(Session)

AnyButton == Buttons
AnyTyping == Typings
HeldButton == {"send", "steer", "abort_prompt", "discard"}
=============================================================================
