----------------------------- MODULE RateLimit -----------------------------
(***************************************************************************)
(* check_and_increment of services/api-service/api/ratelimit.py run by     *)
(* concurrent Lambda environments against one DynamoDB table.  A request   *)
(* first reads its clock, which fixes the item it will count against, and  *)
(* some time later its atomic ADD reaches the table: windows may end, and  *)
(* the TTL sweep may run, in between.  The API Lambda is killed            *)
(* LambdaTimeout seconds after it started, so no ADD is later than that.   *)
(***************************************************************************)
EXTENDS FixedWindow, FiniteSets

CONSTANTS
  None,            \* not a subject
  Subjects,        \* what a counter is keyed by: IPs, key:<id>, crawl-trigger:<ip>
  Requests,        \* the requests of a behaviour, each served once
  Limit,           \* Limit[s]: requests allowed to s in one window
  Window,          \* window_seconds
  LambdaTimeout,   \* seconds after which a running request is killed
  MaxAttempts,     \* bound: transmissions of one update_item call (botocore retries)
  MaxTime          \* bound: the clock stops here

ASSUME SubjectsAssumption == None \notin Subjects
ASSUME RequestsAssumption == IsFiniteSet(Requests)
ASSUME LimitAssumption    == Limit \in [Subjects -> Nat]
ASSUME TimesAssumption    ==
  /\ Window \in Nat \ {0} /\ LambdaTimeout \in Nat
  /\ MaxAttempts \in Nat  /\ MaxTime \in Nat
(* Terraform gives the API Lambda 30 s (envs/dev/main.tf:695); the shortest *)
(* window of api/config.py is 60 s.                                        *)
ASSUME TimeoutAssumption == LambdaTimeout <= Window

VARIABLES
  clock,   \* wall-clock seconds
  items,   \* items[s][w]: the table's item for subject s and window start w
  req      \* req[r]: where request r is

vars == <<clock, items, req>>

Times == 0 .. MaxTime

(* A request before its first line, waiting for update_item's answer, or   *)
(* after it.  "killed" is a timeout or a crash of its Lambda environment.  *)
RequestState ==
  [pc : {"idle", "adding", "allowed", "rejected", "killed"},
   subject : Subjects \cup {None}, now : Times, adds : Nat]

Idle == [pc |-> "idle", subject |-> None, now |-> 0, adds |-> 0]

ItemOf(r) == items[req[r].subject][WindowStart(req[r].now, Window)]

TypeOK ==
  /\ clock \in Times
  /\ items \in [Subjects -> [Times -> Item]]
  /\ req \in [Requests -> RequestState]
  /\ \A r \in Requests : req[r].pc # "idle" => req[r].subject \in Subjects

Init ==
  /\ clock = 0
  /\ items = [s \in Subjects |-> [w \in Times |-> NoItem]]
  /\ req = [r \in Requests |-> Idle]

-----------------------------------------------------------------------------
(* Mutant: request.client is None and nothing stands in for the address. *)
ReadClockNoSubject(r, s) ==
  /\ req[r].pc = "idle"
  /\ req' = [req EXCEPT ![r] = [pc |-> "adding", subject |-> None,
                                now |-> clock, adds |-> 0]]
  /\ UNCHANGED <<clock, items>>

(* `now = time.time()`: the request's window, hence its item, is fixed.    *)
ReadClock(r, s) ==
  /\ req[r].pc = "idle"
  /\ req' = [req EXCEPT ![r] = [pc |-> "adding", subject |-> s,
                                now |-> clock, adds |-> 0]]
  /\ UNCHANGED <<clock, items>>

(* The ADD of r as the table performs it. *)
StoreAdd(r) ==
  items' = [items EXCEPT
    ![req[r].subject][WindowStart(req[r].now, Window)] = AddRequest(@, req[r].now, Window)]

Verdict(r) ==
  IF WithinLimit(AddRequest(ItemOf(r), req[r].now, Window), Limit[req[r].subject])
  THEN "allowed" ELSE "rejected"

(* update_item reaches the table and its answer reaches the request, which *)
(* returns `count <= limit`; the route turns FALSE into a 429.             *)
CheckAndIncrement(r) ==
  /\ req[r].pc = "adding"
  /\ req[r].adds < MaxAttempts
  /\ StoreAdd(r)
  /\ req' = [req EXCEPT ![r].pc = Verdict(r), ![r].adds = @ + 1]
  /\ UNCHANGED clock

(* update_item reaches the table but its answer is lost: botocore sends    *)
(* the same call again, so the request is counted once more.               *)
AnswerLost(r) ==
  /\ req[r].pc = "adding"
  /\ req[r].adds + 1 < MaxAttempts
  /\ StoreAdd(r)
  /\ req' = [req EXCEPT ![r].adds = @ + 1]
  /\ UNCHANGED clock

Kill(r) ==
  /\ req[r].pc = "adding"
  /\ req' = [req EXCEPT ![r].pc = "killed"]
  /\ UNCHANGED <<clock, items>>

Sweep(s, w) ==
  /\ Sweepable(items[s][w], clock)
  /\ items' = [items EXCEPT ![s][w] = NoItem]
  /\ UNCHANGED <<clock, req>>

(* A second passes.  A request that has used its LambdaTimeout is dead by  *)
(* then: it must be answered or killed first.                              *)
WithinTimeout(r) == req[r].pc = "adding" => clock < req[r].now + LambdaTimeout

Tick ==
  /\ clock < MaxTime
  /\ \A r \in Requests : WithinTimeout(r)
  /\ clock' = clock + 1
  /\ UNCHANGED <<items, req>>

Next ==
  \/ \E r \in Requests, s \in Subjects : ReadClock(r, s)
  \/ \E r \in Requests : CheckAndIncrement(r) \/ AnswerLost(r) \/ Kill(r)
  \/ \E s \in Subjects, w \in Times : Sweep(s, w)
  \/ Tick

Spec == Init /\ [][Next]_vars

(* get_current_window_count: GET /v1/keys/me reads, without counting, the  *)
(* item of the window of its own clock reading.  get_item is eventually    *)
(* consistent (no ConsistentRead): its answer may be any state the item    *)
(* has had, "no item" included, which counts as zero.  (Counts only grow   *)
(* in the life of an item, and nobody reads one that may be swept.)        *)
CurrentWindowCounts(s, now) == 0 .. items[s][WindowStart(now, Window)].request_count

-----------------------------------------------------------------------------
(* The requests of s made in the window [k*Window, (k+1)*Window), by their *)
(* own clock readings, that have the given outcome.                        *)
InWindow(r, s, k) ==
  /\ req[r].pc # "idle"
  /\ req[r].subject = s
  /\ k * Window <= req[r].now
  /\ req[r].now < k * Window + Window

With(outcome, s, k) == {r \in Requests : InWindow(r, s, k) /\ req[r].pc = outcome}

(* No subject is ever let through more than its limit in one window: not   *)
(* when requests race, not when an ADD arrives after the window has ended, *)
(* not when the TTL sweep runs as early as it may.  This is the promise of *)
(* ratelimit.py's docstring that concurrent requests "can never            *)
(* under-count each other", and what the choice of expires_at protects.    *)
NeverOverLimit ==
  \A s \in Subjects, k \in Times : Cardinality(With("allowed", s, k)) <= Limit[s]

(* The ADDs of these requests: the n-th transmission of r is <<r, n>>.     *)
Adds(s, k) ==
  Cardinality({a \in Requests \X (1 .. MaxAttempts) :
                 InWindow(a[1], s, k) /\ a[2] <= req[a[1]].adds})

(* A request is answered 429 only when its subject's ADDs in that same     *)
(* window (its own included, and retransmissions counted) exceed the       *)
(* limit: earlier windows and other subjects never cost anyone a request.  *)
RejectionsJustified ==
  \A s \in Subjects, k \in Times :
    With("rejected", s, k) # {} => Adds(s, k) > Limit[s]

(* The usage the dashboard shows, however stale its read and whichever     *)
(* window it was asked in, is made of ADDs of that key in that window:     *)
(* requests of earlier windows or of other keys are never shown as usage.  *)
(* Nothing bounds it from below: the read may miss the latest ADDs.        *)
UsageNeverOverstated ==
  \A s \in Subjects, k, now \in Times :
    (k * Window <= now /\ now < k * Window + Window)
      => \A count \in CurrentWindowCounts(s, now) : count <= Adds(s, k)
=============================================================================
