----------------------------- MODULE ChangeFeed -----------------------------
(***************************************************************************)
(* What parser-service does for a domain and those who watch it, with no   *)
(* queue, batch or database: the domain takes on signals one after the     *)
(* other, and the change from one to the next is owed to the watchers      *)
(* until it is announced to them or forgotten.  The next change waits for  *)
(* that, so announcements come in the order of the changes and each names  *)
(* two signals that followed each other.  The first signal is no change.   *)
(***************************************************************************)
CONSTANTS None, Domains, Signals

VARIABLES
  signal,     \* signal[d], None before the first crawl
  told,       \* told[d]: what the watchers of d last heard its signal to be
  owed        \* the changes <<d, old, new>> made but not announced yet

vars == <<signal, told, owed>>

Init ==
  /\ signal = [d \in Domains |-> None]
  /\ told = signal
  /\ owed = {}

NothingOwed(d) == \A n \in owed : n[1] # d

FirstSeen(d, v) ==
  /\ signal[d] = None
  /\ signal' = [signal EXCEPT ![d] = v]
  /\ told' = [told EXCEPT ![d] = v]
  /\ UNCHANGED owed

Change(d, v) ==
  /\ signal[d] \notin {None, v}
  /\ NothingOwed(d)
  /\ signal' = [signal EXCEPT ![d] = v]
  /\ owed' = owed \cup {<<d, signal[d], v>>}
  /\ UNCHANGED told

Announce(n) ==
  /\ told' = [told EXCEPT ![n[1]] = n[3]]
  /\ owed' = owed \ {n}
  /\ UNCHANGED signal

(* The publish fails, or the invocation dies before it. *)
Forget(n) ==
  /\ owed' = owed \ {n}
  /\ UNCHANGED <<signal, told>>

Next ==
  \/ \E d \in Domains, v \in Signals : FirstSeen(d, v) \/ Change(d, v)
  \/ \E n \in owed : Announce(n) \/ Forget(n)

Spec == Init /\ [][Next]_vars
=============================================================================
