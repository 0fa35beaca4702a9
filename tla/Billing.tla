------------------------------- MODULE Billing -------------------------------
(***************************************************************************)
(* services/billing-service: Stripe's webhook events mint and switch API   *)
(* keys, and the checkout's success page fetches the plaintext key once    *)
(* (billing/routes.py, billing/db.py).  Stripe delivers an event until it  *)
(* gets a 2xx, sometimes again after that, and does not promise the order. *)
(*                                                                         *)
(* Every Checkout Session has a Stripe customer of its own, because        *)
(* create_checkout_session passes none: a session stands for its customer  *)
(* and its subscription too.                                               *)
(***************************************************************************)
EXTENDS Naturals, Sequences

CONSTANTS
  None,
  Sessions,     \* Checkout Sessions
  Secrets,      \* the secrets generate_api_key_secret may return
  Visits,       \* requests for GET /v1/billing/session/{id}, each served once
  MaxEvents     \* bound: events Stripe emits for one session

ASSUME NoneAssumption == None \notin Sessions \cup Secrets
ASSUME MaxEventsAssumption == MaxEvents \in Nat

VARIABLES
  inOrder,       \* inOrder[s]: whether Stripe delivers the events of s in order
  subscription,  \* subscription[s]: its state at Stripe
  log,           \* log[s]: the events Stripe emitted for s, in order
  unacked,       \* unacked[s]: those of them not answered with a 2xx yet
  key,           \* key[s]: the api_keys row with this session id
  visit,         \* visit[v]: where the request v is
  shown          \* shown[s]: the secrets the customer of s was answered with

vars == <<inOrder, subscription, log, unacked, key, visit, shown>>

(* complete: the event has all that its handler needs.                     *)
Event == [type : {"completed", "updated", "deleted"}, active : BOOLEAN, complete : BOOLEAN]

(* key_hash stands for the secret it is the hash of. *)
Key == [key_hash : Secrets, pending_secret : Secrets \cup {None}, active : BOOLEAN]
NoKey == [key_hash |-> None, pending_secret |-> None, active |-> FALSE]

VisitState == [pc : {"idle", "clearing", "answering", "done"},
               session : Sessions \cup {None}, secret : Secrets \cup {None}]

TypeOK ==
  /\ inOrder \in [Sessions -> BOOLEAN]
  /\ subscription \in [Sessions -> {"none", "active", "lapsed", "canceled"}]
  /\ log \in [Sessions -> Seq(Event)]
  /\ unacked \in [Sessions -> SUBSET Nat]
  /\ \A s \in Sessions : unacked[s] \subseteq DOMAIN log[s]
  /\ key \in [Sessions -> Key \cup {NoKey}]
  /\ visit \in [Visits -> VisitState]
  /\ shown \in [Sessions -> SUBSET Secrets]

Init ==
  /\ inOrder = [s \in Sessions |-> TRUE]
  /\ subscription = [s \in Sessions |-> "none"]
  /\ log = [s \in Sessions |-> <<>>]
  /\ unacked = [s \in Sessions |-> {}]
  /\ key = [s \in Sessions |-> NoKey]
  /\ visit = [v \in Visits |-> [pc |-> "idle", session |-> None, secret |-> None]]
  /\ shown = [s \in Sessions |-> {}]

-----------------------------------------------------------------------------
(* At Stripe. "lapsed" is any status but active and trialing.              *)
Emit(s, type, status) ==
  /\ Len(log[s]) < MaxEvents
  /\ subscription' = [subscription EXCEPT ![s] = status]
  /\ \E complete \in BOOLEAN :
       log' = [log EXCEPT ![s] = Append(@, [type |-> type, active |-> status = "active",
                                            complete |-> complete])]
  /\ unacked' = [unacked EXCEPT ![s] = @ \cup {Len(log[s]) + 1}]
  /\ UNCHANGED <<key, visit, shown>>

(* With the first event comes the order in which Stripe will deliver them. *)
CompleteCheckout(s) ==
  /\ subscription[s] = "none"
  /\ Emit(s, "completed", "active")
  /\ \E ordered \in BOOLEAN : inOrder' = [inOrder EXCEPT ![s] = ordered]

ChangeStatus(s, status) ==
  /\ subscription[s] \in {"active", "lapsed"}
  /\ Emit(s, "updated", status)
  /\ UNCHANGED inOrder

CancelSubscription(s) ==
  /\ subscription[s] \in {"active", "lapsed"}
  /\ Emit(s, "deleted", "canceled")
  /\ UNCHANGED inOrder

-----------------------------------------------------------------------------
(* Mutant: ON CONFLICT DO UPDATE with the newly minted secret. *)
InsertedOrReplaced(row, secret) ==
  [key_hash |-> secret, pending_secret |-> secret, active |-> TRUE]

(* _handle_checkout_completed: a fresh secret and INSERT ... ON CONFLICT   *)
(* (stripe_checkout_session_id) DO NOTHING.                                *)
Inserted(row, secret) ==
  IF row = NoKey THEN [key_hash |-> secret, pending_secret |-> secret, active |-> TRUE]
                 ELSE row

(* Mutant: a row is made for a customer without a key. *)
UpdatedOrInserted(row, active) == [row EXCEPT !.active = active]

(* _handle_subscription_change: UPDATE ... WHERE stripe_customer_id, which *)
(* matches no row before the key is minted.                                *)
Updated(row, active) == IF row = NoKey THEN row ELSE [row EXCEPT !.active = active]

(* generate_api_key_secret never returns what it returned before. Secrets  *)
(* differ in their names only: any new one will do.                        *)
Fresh ==
  LET new == Secrets \ UNION {shown[s] \cup {key[s].key_hash} : s \in Sessions}
  IN new \cap {CHOOSE secret \in new : TRUE}

(* Mutant: the status of an update is not looked at. *)
AppliedWhateverStatus(s, e) ==
  CASE ~e.complete -> {key[s]}
    [] e.complete /\ e.type = "completed" -> {Inserted(key[s], secret) : secret \in Fresh}
    [] e.complete /\ e.type # "completed" -> {Updated(key[s], e.type = "updated")}

(* What the handlers may make of the row. A completed checkout without     *)
(* email, customer or id is ignored, and so is a subscription without      *)
(* customer: there is nothing to retry.                                    *)
Applied(s, e) ==
  CASE ~e.complete -> {key[s]}
    [] e.complete /\ e.type = "completed" -> {Inserted(key[s], secret) : secret \in Fresh}
    [] e.complete /\ e.type # "completed" -> {Updated(key[s], e.type = "updated" /\ e.active)}

Deliverable(s, i) ==
  /\ i \in DOMAIN log[s]
  /\ inOrder[s] => (unacked[s] = {} /\ i = Len(log[s]))
                  \/ (i \in unacked[s] /\ \A j \in unacked[s] : i <= j)

(* Mutant: no commit. *)
HandleNotCommitted(s, i) ==
  /\ Deliverable(s, i)
  /\ unacked' = [unacked EXCEPT ![s] = @ \ {i}]
  /\ UNCHANGED <<inOrder, subscription, log, key, visit, shown>>

(* stripe_webhook commits the event's statement and answers 200.           *)
Handle(s, i) ==
  /\ Deliverable(s, i)
  /\ \E row \in Applied(s, log[s][i]) : key' = [key EXCEPT ![s] = row]
  /\ unacked' = [unacked EXCEPT ![s] = @ \ {i}]
  /\ UNCHANGED <<inOrder, subscription, log, visit, shown>>

(* It commits, but the answer never reaches Stripe.                        *)
HandleUnanswered(s, i) ==
  /\ Deliverable(s, i)
  /\ \E row \in Applied(s, log[s][i]) : key' = [key EXCEPT ![s] = row]
  /\ UNCHANGED <<inOrder, subscription, log, unacked, visit, shown>>

-----------------------------------------------------------------------------
(* get_checkout_session_key reads the row; without a pending secret it     *)
(* answers already_retrieved.  A 404 changes nothing and is not a step.    *)
ReadKey(v, s) ==
  /\ visit[v].pc = "idle"
  /\ key[s] # NoKey
  /\ visit' = [visit EXCEPT ![v] =
       [pc |-> IF key[s].pending_secret = None THEN "done" ELSE "clearing",
        session |-> s, secret |-> key[s].pending_secret]]
  /\ UNCHANGED <<inOrder, subscription, log, unacked, key, shown>>

(* Mutant: no commit. *)
ClearSecretNotCommitted(v) ==
  /\ visit[v].pc = "clearing"
  /\ visit' = [visit EXCEPT ![v].pc = "answering"]
  /\ UNCHANGED <<inOrder, subscription, log, unacked, key, shown>>

ClearSecret(v) ==
  /\ visit[v].pc = "clearing"
  /\ key' = [key EXCEPT ![visit[v].session].pending_secret = None]
  /\ visit' = [visit EXCEPT ![v].pc = "answering"]
  /\ UNCHANGED <<inOrder, subscription, log, unacked, shown>>

AnswerKey(v) ==
  /\ visit[v].pc = "answering"
  /\ shown' = [shown EXCEPT ![visit[v].session] = @ \cup {visit[v].secret}]
  /\ visit' = [visit EXCEPT ![v].pc = "done"]
  /\ UNCHANGED <<inOrder, subscription, log, unacked, key>>

(* The Lambda is killed, a call raises, or the answer is lost.             *)
AbandonVisit(v) ==
  /\ visit[v].pc \in {"clearing", "answering"}
  /\ visit' = [visit EXCEPT ![v].pc = "done"]
  /\ UNCHANGED <<inOrder, subscription, log, unacked, key, shown>>

Next ==
  \/ \E s \in Sessions : \/ CompleteCheckout(s)
                         \/ \E status \in {"active", "lapsed"} : ChangeStatus(s, status)
                         \/ CancelSubscription(s)
                         \/ \E i \in 1 .. MaxEvents : Handle(s, i) \/ HandleUnanswered(s, i)
  \/ \E v \in Visits : \/ \E s \in Sessions : ReadKey(v, s)
                       \/ ClearSecret(v) \/ AnswerKey(v) \/ AbandonVisit(v)

Spec == Init /\ [][Next]_vars

(* Stripe goes on delivering an event until it is answered. *)
Fairness == \A s \in Sessions, i \in 1 .. MaxEvents :
              SF_vars(i \in unacked[s] /\ Handle(s, i))

FairSpec == Spec /\ Fairness

-----------------------------------------------------------------------------
(* Any secret a customer was ever shown is the one the key row accepts,    *)
(* however often checkout.session.completed is delivered: a second secret  *)
(* for an existing key would invalidate one already saved.                 *)
ShownSecretWorks == \A s \in Sessions : shown[s] \subseteq {key[s].key_hash}

(* Once a customer has been shown the secret, its plaintext is no longer   *)
(* in the database, and no late event puts it back.                        *)
ShownMeansCleared ==
  \A s \in Sessions : shown[s] # {} => key[s].pending_secret = None

CheckoutComplete(s) == log[s] # <<>> /\ log[s][1].complete

(* The checkout and the last event could be handled.                       *)
Told(s) == CheckoutComplete(s) /\ log[s][Len(log[s])].complete

(* When Stripe has nothing left to deliver, a key is active exactly while  *)
(* its subscription is, if the events came in order: whatever events were  *)
(* repeated, or ignored, between the checkout and the last of them.        *)
AccessFollowsSubscription ==
  \A s \in Sessions :
    inOrder[s] /\ unacked[s] = {} /\ Told(s)
      => key[s].active = (subscription[s] = "active")

(* Whoever completes a checkout gets a key, if Stripe says for whom: the   *)
(* event is delivered until a row has been committed for it.               *)
PaidGetsKey ==
  \A s \in Sessions : CheckoutComplete(s) ~> key[s] # NoKey

(* models.py, ApiKey.active: "False once a subscription is canceled".      *)
CanceledKeyInactive ==
  \A s \in Sessions :
    unacked[s] = {} /\ Told(s) /\ subscription[s] = "canceled" => ~key[s].active
=============================================================================
