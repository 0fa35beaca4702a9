---------------------------- MODULE MCCustomers ----------------------------
(* Customers for TLC: the key that was provisioned by hand is that of a    *)
(* customer with subscriptions.                                            *)
EXTENDS Customers

MCEmail == [o \in Owners |-> "shared"]
=============================================================================
