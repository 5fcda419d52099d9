------------------------- MODULE MCHostSupervision -------------------------
(* Two hosts, one after the other, and three workers.                        *)
EXTENDS HostSupervision
=============================================================================
