------------------------------ MODULE Customers ------------------------------
(***************************************************************************)
(* Customers of both services: they pay (Billing), are shown their key     *)
(* (SuccessPage) and call api-service with it: monitors are created and    *)
(* deleted, domains looked up, one by one and in bulk, the table exported, *)
(* the usage asked for (api/auth.py and the key dependencies and routes of *)
(* api/routes.py).                                                         *)
(* api-service reads api_keys as billing-service leaves it, once per call. *)
(*                                                                         *)
(* There is one key, Licensed, that was provisioned by hand: it belongs to *)
(* no Stripe customer, so no event reaches it.                             *)
(***************************************************************************)
EXTENDS SuccessPage, FiniteSets

CONSTANTS
  Licensed,      \* the owner of the licensing key
  Email,         \* Email[o]: the owner_email of the row of o
  Monitors,      \* the monitor ids uuid4 may return
  MaxCalls,      \* bound: calls of api-service
  MaxInputs      \* bound: events Stripe emits, pages opened, calls made

ASSUME LicensedAssumption == Licensed \notin Sessions \cup Secrets \cup {None}
ASSUME BoundsAssumption == MaxCalls \in Nat /\ MaxInputs \in Nat

VARIABLES
  monitor,   \* monitor[m]: the row of m, with its owner_key_id
  call       \* the calls, in the order they came in, and where each is

apiVars == <<monitor, call>>
allVars == <<vars, pageVars, apiVars>>

Owners == Sessions \cup {Licensed}

Inputs ==
  Cardinality({e \in Sessions \X (1 .. MaxEvents) : e[2] <= Len(log[e[1]])})
    + Cardinality({p \in Pages : page[p].status # "unopened"})
    + Len(call)

(* A deleted row is remembered with the owner it had. *)
MonitorRow == [at : {"unborn", "live", "deleted"}, owner : Owners \cup {None}]
Unborn == [at |-> "unborn", owner |-> None]

Operations == {"lookup", "create", "delete", "bulk", "export", "usage"}

(* PortalRequest: the customer is named by its email or by its key.        *)
Portals == {"portal_by_email", "portal_by_key"}

(* `left': whether, when the call came in, whoever it names had cancelled  *)
(* and billing-service had handled all of the events, in their order.      *)
CallState == [pc : {"authorized", "deleting", "done"}, op : Operations \cup Portals,
              owner : Owners, monitor : Monitors \cup {None}, left : BOOLEAN,
              status : {0, 200, 201, 204, 400, 401, 403, 404, 429, 502}]

CustomersTypeOK ==
  /\ TypeOK /\ PageTypeOK
  /\ monitor \in [Monitors -> MonitorRow]
  /\ \A m \in Monitors : monitor[m] = Unborn <=> monitor[m].owner = None
  /\ call \in Seq(CallState) /\ Len(call) <= MaxCalls /\ Inputs <= MaxInputs
  /\ \A c \in DOMAIN call : call[c].pc = "done" <=> call[c].status # 0

(* The holder of the licensing key may have a monitor already.             *)
CustomersInit ==
  /\ Init /\ PageInit
  /\ monitor \in [Monitors -> {Unborn, [at |-> "live", owner |-> Licensed]}]
  /\ call = <<>>

-----------------------------------------------------------------------------
PlanTier(owner) == IF owner = Licensed THEN "licensing" ELSE "self_serve"

(* EXPORT_, BULK_ and MONITOR_ALLOWED_PLAN_TIERS; any tier for the others. *)
AllowedPlanTiers(op) ==
  IF op = "export" THEN {"licensing"} ELSE {"self_serve", "licensing"}

(* Mutant: api_keys.active is not looked at. *)
ActiveOrNot(owner) == owner \in Owners

(* lookup_api_key_context: the row with the hash of the header's secret,   *)
(* if it is active.                                                        *)
HasContext(owner) == owner = Licensed \/ key[owner].active

(* A customer has the secret that was shown, and it hashes to the row.     *)
KnowsKey(owner) == owner \in Sessions => key[owner].key_hash \in shown[owner]

HasLeft(owner) ==
  /\ owner \in Sessions
  /\ inOrder[owner] /\ unacked[owner] = {} /\ Told(owner)
  /\ subscription[owner] = "canceled"

(* authenticate raises a 401; the dependencies of the paid routes answer   *)
(* 403 whatever is wrong with the key.                                     *)
Refusal(op) == IF op \in {"lookup", "delete", "usage"} THEN 401 ELSE 403

Authorized(op, owner) == HasContext(owner) /\ PlanTier(owner) \in AllowedPlanTiers(op)

(* A call comes in and its key is looked up.                               *)
Authorize(op, owner, m) ==
  /\ Inputs < MaxInputs /\ Len(call) < MaxCalls
  /\ KnowsKey(owner)
  /\ IF op = "delete" THEN m # None /\ monitor[m] # Unborn ELSE m = None
  /\ call' = Append(call,
       [pc |-> IF Authorized(op, owner) THEN "authorized" ELSE "done",
        op |-> op, owner |-> owner, monitor |-> m, left |-> HasLeft(owner),
        status |-> IF Authorized(op, owner) THEN 0 ELSE Refusal(op)])
  /\ UNCHANGED <<vars, pageVars, monitor>>

Answer(c, status) == call' = [call EXCEPT ![c].pc = "done", ![c].status = status]

Serving(c, ops) == call[c].pc = "authorized" /\ call[c].op \in ops

(* DELETE /v1/monitors and POST /v1/export are not limited.                *)
Limited == {"lookup", "create", "bulk", "usage"}

(* enforce_bulk_rate_limit, enforce_monitor_rate_limit, enforce_rate_limit. *)
RateLimited(c) ==
  /\ Serving(c, Limited)
  /\ Answer(c, 429)
  /\ UNCHANGED <<vars, pageVars, monitor>>

(* create_monitor: unsafe_webhook_url, or the domain has no row.           *)
RefuseMonitor(c) ==
  /\ Serving(c, {"create"})
  /\ Answer(c, 400)
  /\ UNCHANGED <<vars, pageVars, monitor>>

InsertMonitor(c, m) ==
  /\ Serving(c, {"create"})
  /\ monitor[m] = Unborn
  /\ monitor' = [monitor EXCEPT ![m] = [at |-> "live", owner |-> call[c].owner]]
  /\ Answer(c, 201)
  /\ UNCHANGED <<vars, pageVars>>

(* Mutant: the owner is not compared. *)
FindsAny(c) == monitor[call[c].monitor].at = "live"

(* fetch_monitor returns a row of the calling key.                         *)
FindsOwn(c) ==
  /\ monitor[call[c].monitor].at = "live"
  /\ monitor[call[c].monitor].owner = call[c].owner

FetchMonitor(c) ==
  /\ Serving(c, {"delete"})
  /\ IF FindsOwn(c) THEN call' = [call EXCEPT ![c].pc = "deleting"] ELSE Answer(c, 404)
  /\ UNCHANGED <<vars, pageVars, monitor>>

(* delete_monitor, by id only; 204 even if the row has gone meanwhile.     *)
DeleteMonitor(c) ==
  /\ call[c].pc = "deleting"
  /\ monitor' = [monitor EXCEPT ![call[c].monitor].at = "deleted"]
  /\ Answer(c, 204)
  /\ UNCHANGED <<vars, pageVars>>

(* get_domain and get_domain_history. 200 stands for whatever is said of   *)
(* the domain: the row, a crawl under way or unsafe_domain (CrawlTrigger). *)
ServeLookup(c) ==
  /\ Serving(c, {"lookup"})
  /\ Answer(c, 200)
  /\ UNCHANGED <<vars, pageVars, monitor>>

(* bulk_domains and export_domains: the domains table is not modelled here, *)
(* nor the object that an export leaves in S3.                             *)
ServeBulk(c) ==
  /\ Serving(c, {"bulk"})
  /\ Answer(c, 200)
  /\ UNCHANGED <<vars, pageVars, monitor>>

ServeExport(c) ==
  /\ Serving(c, {"export"})
  /\ Answer(c, 200)
  /\ UNCHANGED <<vars, pageVars, monitor>>

(* get_key_usage: enforce_rate_limit has looked the key up already, and    *)
(* require_any_api_key does so again.                                      *)
ServeUsage(c) ==
  /\ Serving(c, {"usage"})
  /\ Answer(c, IF HasContext(call[c].owner) THEN 200 ELSE Refusal("usage"))
  /\ UNCHANGED <<vars, pageVars, monitor>>

ApiStep ==
  \/ \E op \in Operations, owner \in Owners, m \in Monitors \cup {None} :
       Authorize(op, owner, m)
  \/ \E c \in DOMAIN call :
       \/ RateLimited(c) \/ RefuseMonitor(c) \/ FetchMonitor(c) \/ DeleteMonitor(c)
       \/ \E m \in Monitors : InsertMonitor(c, m)
       \/ ServeLookup(c) \/ ServeBulk(c) \/ ServeExport(c) \/ ServeUsage(c)

-----------------------------------------------------------------------------
SameEmail(owner) == {o \in Owners : Email[o] = Email[owner]}

(* find_latest_active_api_key_by_email: a customer may have subscribed     *)
(* more than once.  It is the latest of these rows; created_at is left     *)
(* out, so it may be any of them.                                          *)
FoundByEmail(owner) == {o \in SameEmail(owner) : HasContext(o)}

(* find_api_key_by_hash: the row of the key, active or not.  Whoever names *)
(* a key has seen it.                                                      *)
FoundByKey(owner) == {o \in {owner} : KnowsKey(o)}

(* Whoever has this email has left with all of the subscriptions.          *)
EmailHasLeft(owner) ==
  /\ HasLeft(owner)
  /\ \A o \in SameEmail(owner) \ {Licensed} : HasLeft(o) \/ log[o] = <<>>

(* create_portal_session at Stripe, which may raise.                       *)
CreatePortalSession(owner) == IF owner = Licensed THEN {404} ELSE {200, 502}

(* start_portal_session of billing-service: a row without a Stripe         *)
(* customer is as good as none.                                            *)
PortalAnswers(found) ==
  IF found = {} THEN {404} ELSE UNION {CreatePortalSession(o) : o \in found}

AnswerPortal(op, owner, found, left) ==
  /\ Inputs < MaxInputs /\ Len(call) < MaxCalls
  /\ \E status \in PortalAnswers(found) :
       call' = Append(call, [pc |-> "done", op |-> op, owner |-> owner, monitor |-> None,
                             left |-> left, status |-> status])
  /\ UNCHANGED <<vars, pageVars, monitor>>

StartPortalSession(op, owner) ==
  \/ /\ op = "portal_by_email"
     /\ AnswerPortal(op, owner, FoundByEmail(owner), EmailHasLeft(owner))
  \/ /\ op = "portal_by_key" /\ FoundByKey(owner) # {}
     /\ AnswerPortal(op, owner, FoundByKey(owner), HasLeft(owner))

-----------------------------------------------------------------------------
(* Billing's events go on while pages and calls are served.                *)
StripeStep ==
  /\ \E s \in Sessions :
       \/ /\ Inputs < MaxInputs
          /\ \/ CompleteCheckout(s)
             \/ \E status \in {"active", "lapsed"} : ChangeStatus(s, status)
             \/ CancelSubscription(s)
       \/ \E i \in 1 .. MaxEvents : Handle(s, i) \/ HandleUnanswered(s, i)
  /\ UNCHANGED <<pageVars, apiVars>>

CustomersNext ==
  \/ StripeStep
  \/ \E s \in Sessions :
       Inputs < MaxInputs /\ OpenPage(s) /\ UNCHANGED apiVars
  \/ PageStep /\ UNCHANGED apiVars
  \/ ApiStep
  \/ \E op \in Portals, owner \in Owners : StartPortalSession(op, owner)

CustomersSpec == CustomersInit /\ [][CustomersNext]_allVars

CustomersFairSpec == CustomersSpec /\ Fairness /\ PageFairness

-----------------------------------------------------------------------------
(* A monitor is deleted by its owner only, who may rely on what it is told *)
(* even when two of its calls race: after 204 or 404 the monitor is gone.  *)
(* Anyone else is told 404, whether or not there is such a monitor.        *)
DeleteAnswersTell ==
  \A c \in DOMAIN call :
    call[c].pc = "done" /\ call[c].op = "delete" =>
      LET row == monitor[call[c].monitor]
      IN /\ call[c].owner = row.owner /\ call[c].status \in {204, 404} => row.at = "deleted"
         /\ call[c].owner # row.owner => call[c].status \in {401, 404}

(* From payment to API: once billing-service has handled a cancellation,   *)
(* with the events in order, no call made with the customer's key is       *)
(* served any more, by any route that takes one.  Only the billing portal  *)
(* still knows the key, and the email as long as a subscription is left.   *)
LeaverIsNotServed ==
  \A c \in DOMAIN call :
    call[c].left =>
      CASE call[c].op \in Operations -> call[c].status \in {401, 403}
        [] call[c].op = "portal_by_email" -> call[c].status = 404
        [] call[c].op = "portal_by_key" -> call[c].status \in {200, 502}
=============================================================================
