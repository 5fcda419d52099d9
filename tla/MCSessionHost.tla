--------------------------- MODULE MCSessionHost ---------------------------
(* A small instance of SessionHost for TLC.  See MCSessionHost.cfg.          *)
EXTENDS SessionHost
=============================================================================
