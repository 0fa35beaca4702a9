---------------------------- MODULE FixedWindow ----------------------------
(***************************************************************************)
(* The fixed-window counter of services/api-service/api/ratelimit.py, as   *)
(* operators on one DynamoDB item.  An item is keyed by a subject (an IP,  *)
(* `key:<key_id>' or `crawl-trigger:<ip>') and by the start of the window  *)
(* the request's own clock reading falls in.  Time is in whole seconds:    *)
(* the code takes int(now) everywhere it stores a time.                    *)
(***************************************************************************)
EXTENDS Integers

Item == [request_count : Nat, expires_at : Nat]

(* An item that is not in the table.  ADD treats it as a count of zero and *)
(* if_not_exists(expires_at, ...) is true of it.  A stored item always has *)
(* a positive count.                                                       *)
NoItem == [request_count |-> 0, expires_at |-> 0]

(* Mutant: a counter that is never reset. *)
WindowStartNeverResets(now, window_seconds) == 0

WindowStart(now, window_seconds) == (now \div window_seconds) * window_seconds

(* Mutant: the item may be swept as soon as one window has gone by. *)
AddRequestShortTTL(item, now, window_seconds) ==
  [request_count |-> item.request_count + 1,
   expires_at    |-> IF item = NoItem THEN now + window_seconds
                                      ELSE item.expires_at]

(* "ADD request_count :incr SET expires_at = if_not_exists(expires_at, :ttl)",
   evaluated by DynamoDB in one atomic step; :ttl comes from the caller's
   clock reading. *)
AddRequest(item, now, window_seconds) ==
  [request_count |-> item.request_count + 1,
   expires_at    |-> IF item = NoItem THEN now + 2 * window_seconds
                                      ELSE item.expires_at]

WithinLimit(item, limit) == item.request_count <= limit

(* DynamoDB's TTL sweep may delete an item at any moment after its         *)
(* expires_at has passed, or never.                                        *)
Sweepable(item, time) == item # NoItem /\ item.expires_at < time
=============================================================================
