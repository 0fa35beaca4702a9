----------------------------- MODULE MCNotifier -----------------------------
(* Notifier for TLC: every monitor watches the one domain there is.        *)
EXTENDS Notifier

MCWatched == [k \in Monitors |-> CHOOSE d \in Domains : TRUE]
=============================================================================
