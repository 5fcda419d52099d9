-------------------------- MODULE MCBrokerDelivery --------------------------
(* A small instance of BrokerDelivery for TLC: windows of two long polls with *)
(* five sends, as 10 sends in three are more than a cycle can waste.          *)
EXTENDS BrokerDelivery
=============================================================================
