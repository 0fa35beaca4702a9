----------------------------- MODULE MCBilling -----------------------------
(* Billing for TLC: the values are in the configuration files.             *)
EXTENDS Billing
=============================================================================
