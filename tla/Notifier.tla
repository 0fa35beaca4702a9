------------------------------ MODULE Notifier ------------------------------
(***************************************************************************)
(* services/notifier-service: concurrent Lambda invocations take batches   *)
(* of record-changed events off notify-queue and POST each of them to      *)
(* every monitor of its domain (notifier/handler.py, notifier/webhook.py), *)
(* while customers register and delete monitors through api-service.  The  *)
(* queue gives an event up to its dead-letter queue after MaxReceive       *)
(* receives.                                                               *)
(***************************************************************************)
EXTENDS SqsQueue, FiniteSets

CONSTANTS
  None,
  Domains,
  Monitors,           \* monitor_ids; a deleted one never comes back
  Watched,            \* Watched[k]: the domain monitor k is registered for
  Workers,            \* concurrent Lambda environments
  VisibilityTimeout,  \* of notify-queue
  LambdaTimeout,      \* of the notifier
  MaxReceive,         \* max_receive_count of notify-queue's redrive policy
  BatchSize,          \* of the event source mapping
  MaxAttempts,        \* WEBHOOK_MAX_ATTEMPTS
  Faults,             \* the kinds of failure of this instance
  MaxEvents           \* bound: events in a behaviour

ASSUME NoneAssumption == None \notin Domains \cup Monitors
ASSUME WatchedAssumption == Watched \in [Monitors -> Domains]
ASSUME WorkersAssumption == Workers # {}
ASSUME NumbersAssumption ==
  /\ VisibilityTimeout \in Nat /\ LambdaTimeout \in Nat /\ BatchSize \in Nat
  /\ MaxReceive \in Nat \ {0} /\ MaxAttempts \in Nat \ {0} /\ MaxEvents \in Nat
ASSUME FaultsAssumption == Faults \subseteq {"statement", "post", "kill"}

VARIABLES
  event,     \* event[m]: the domain event m is about, None before it is published
  queue,     \* notify-queue
  monitor,   \* monitor[k]: whether the monitors table has k's row
  worker,    \* worker[w]: the invocation w is running
  posts,     \* posts[m][k]: POSTs of event m to k
  outcome,   \* history: outcome[m][k], how the delivery of m to k went
  fate,      \* history: fate[m], how process_message ended for m
  entitled   \* history: entitled[m], the monitors to hear of m when it was published

vars == <<event, queue, monitor, worker, posts, outcome, fate, entitled>>

Ids == 1 .. MaxEvents

(* "monitors": between two monitors of an event; "posting": in the retry   *)
(* loop of deliver_webhook, `attempt' POSTs having been begun.             *)
Running == [pc : {"idle", "next", "monitors", "posting"},
            batch : SUBSET Ids, todo : SUBSET Ids, cur : {0} \cup Ids,
            due : SUBSET Monitors, to : Monitors \cup {None},
            attempt : 0 .. MaxAttempts, broken : BOOLEAN]
Idle == [pc |-> "idle", batch |-> {}, todo |-> {}, cur |-> 0,
         due |-> {}, to |-> None, attempt |-> 0, broken |-> FALSE]

(* "unsafe": refused or not resolved by validate_webhook_url; "exhausted": *)
(* every attempt failed; "raised": the POST raised no httpx.RequestError.  *)
Outcomes == {"none", "delivered", "unsafe", "exhausted", "raised"}
Fates == {"none", "handled", "failed"}

Watching(d) == {k \in Monitors : monitor[k] = "live" /\ Watched[k] = d}

TypeOK ==
  /\ event \in [Ids -> Domains \cup {None}]
  /\ queue \in [Ids -> Message(Workers, MaxReceive)]
  /\ monitor \in [Monitors -> {"unregistered", "live", "deleted"}]
  /\ worker \in [Workers -> Running]
  /\ posts \in [Ids -> [Monitors -> Nat]]
  /\ outcome \in [Ids -> [Monitors -> Outcomes]]
  /\ fate \in [Ids -> Fates]
  /\ entitled \in [Ids -> SUBSET Monitors]

Init ==
  /\ event = [m \in Ids |-> None]
  /\ queue = [m \in Ids |-> Unsent(CHOOSE w \in Workers : TRUE)]
  /\ monitor = [k \in Monitors |-> "unregistered"]
  /\ worker = [w \in Workers |-> Idle]
  /\ posts = [m \in Ids |-> [k \in Monitors |-> 0]]
  /\ outcome = [m \in Ids |-> [k \in Monitors |-> "none"]]
  /\ fate = [m \in Ids |-> "none"]
  /\ entitled = [m \in Ids |-> {}]

-----------------------------------------------------------------------------
(* parser-service publishes a record-changed event.                        *)
PublishEvent(m, d) ==
  /\ event[m] = None
  /\ \A n \in Ids : n < m => event[n] # None
  /\ event' = [event EXCEPT ![m] = d]
  /\ queue' = [queue EXCEPT ![m] = Sent(@)]
  /\ entitled' = [entitled EXCEPT ![m] = Watching(d)]
  /\ UNCHANGED <<monitor, worker, posts, outcome, fate>>

(* create_monitor and delete_monitor of api-service.                       *)
InsertMonitor(k) ==
  /\ monitor[k] = "unregistered"
  /\ monitor' = [monitor EXCEPT ![k] = "live"]
  /\ UNCHANGED <<event, queue, worker, posts, outcome, fate, entitled>>

DeleteMonitor(k) ==
  /\ monitor[k] = "live"
  /\ monitor' = [monitor EXCEPT ![k] = "deleted"]
  /\ UNCHANGED <<event, queue, worker, posts, outcome, fate, entitled>>

ReceiveBatch(w, batch) ==
  /\ worker[w].pc = "idle"
  /\ batch # {} /\ Cardinality(batch) <= BatchSize
  /\ \A m \in batch : queue[m].at = "visible"
  /\ queue' = [m \in Ids |-> IF m \in batch THEN Received(queue[m], w, MaxReceive)
                                            ELSE queue[m]]
  /\ worker' = [worker EXCEPT ![w] = [Idle EXCEPT
                  !.pc = "next", !.batch = batch, !.todo = batch]]
  /\ UNCHANGED <<event, monitor, posts, outcome, fate, entitled>>

(* Visible again, or dead after the last receive.  The holder may still be *)
(* at work only if it may run for longer than the visibility timeout.      *)
VisibilityExpires(m) ==
  /\ queue[m].at = "inflight"
  /\ m \in worker[queue[m].holder].batch => VisibilityTimeout < LambdaTimeout
  /\ queue' = [queue EXCEPT ![m] = Reappeared(@, MaxReceive)]
  /\ UNCHANGED <<event, monitor, worker, posts, outcome, fate, entitled>>

(* process_message is over for the worker's current message. *)
Leave(w) == [worker[w] EXCEPT !.pc = "next", !.todo = @ \ {worker[w].cur},
               !.cur = 0, !.due = {}, !.to = None, !.attempt = 0]

(* The loop over the fetched monitors goes on without k. *)
Skip(w, k) == [worker[w] EXCEPT !.pc = "monitors", !.due = @ \ {k},
                                !.to = None, !.attempt = 0]

Record(m, k, what) ==
  outcome' = [outcome EXCEPT ![m][k] = IF @ = "delivered" THEN @ ELSE what]

Mark(m, what) == fate' = [fate EXCEPT ![m] = IF @ = "handled" THEN @ ELSE what]

(* fetch_monitors_for_domain: the rows as they are now.                    *)
FetchMonitors(w, m) ==
  /\ worker[w].pc = "next" /\ m \in worker[w].todo
  /\ ~worker[w].broken
  /\ worker' = [worker EXCEPT ![w].pc = "monitors", ![w].cur = m,
                              ![w].due = Watching(event[m])]
  /\ UNCHANGED <<event, queue, monitor, posts, outcome, fate, entitled>>

(* The SELECT raises, and so does every later one on this connection.      *)
FetchRaises(w, m) ==
  /\ worker[w].pc = "next" /\ m \in worker[w].todo
  /\ worker[w].broken \/ "statement" \in Faults
  /\ worker' = [worker EXCEPT ![w].todo = @ \ {m}, ![w].broken = TRUE]
  /\ Mark(m, "failed")
  /\ UNCHANGED <<event, queue, monitor, posts, outcome, entitled>>

(* Mutant: `return' instead of `continue'. *)
RefuseUrlReturns(w, k) ==
  /\ worker[w].pc = "monitors" /\ k \in worker[w].due
  /\ Record(worker[w].cur, k, "unsafe")
  /\ Mark(worker[w].cur, "handled")
  /\ worker' = [worker EXCEPT ![w] = Leave(w)]
  /\ UNCHANGED <<event, queue, monitor, posts, entitled>>

(* validate_before_delivery returns a reason: the monitor is skipped.      *)
RefuseUrl(w, k) ==
  /\ worker[w].pc = "monitors" /\ k \in worker[w].due
  /\ Record(worker[w].cur, k, "unsafe")
  /\ worker' = [worker EXCEPT ![w] = Skip(w, k)]
  /\ UNCHANGED <<event, queue, monitor, posts, fate, entitled>>

BeginDelivery(w, k) ==
  /\ worker[w].pc = "monitors" /\ k \in worker[w].due
  /\ worker' = [worker EXCEPT ![w].pc = "posting", ![w].to = k, ![w].attempt = 1]
  /\ UNCHANGED <<event, queue, monitor, posts, outcome, fate, entitled>>

CountPost(w) == posts' = [posts EXCEPT ![worker[w].cur][worker[w].to] = @ + 1]

(* A 2xx answer.                                                           *)
PostAccepted(w) ==
  /\ worker[w].pc = "posting"
  /\ CountPost(w)
  /\ Record(worker[w].cur, worker[w].to, "delivered")
  /\ worker' = [worker EXCEPT ![w] = Skip(w, worker[w].to)]
  /\ UNCHANGED <<event, queue, monitor, fate, entitled>>

(* Mutants: range(0, max_attempts + 1); an attempt that is never counted. *)
PostFailsOnceMore(w) ==
  /\ worker[w].pc = "posting"
  /\ CountPost(w)
  /\ IF worker[w].attempt <= MaxAttempts
     THEN /\ worker' = [worker EXCEPT ![w].attempt = @ + 1]
          /\ UNCHANGED outcome
     ELSE /\ worker' = [worker EXCEPT ![w] = Skip(w, worker[w].to)]
          /\ Record(worker[w].cur, worker[w].to, "exhausted")
  /\ UNCHANGED <<event, queue, monitor, fate, entitled>>

PostFailsUncounted(w) ==
  /\ worker[w].pc = "posting"
  /\ CountPost(w)
  /\ UNCHANGED <<event, queue, monitor, worker, outcome, fate, entitled>>

(* Another answer, or an httpx.RequestError: try again after the backoff,  *)
(* or give up and go on with the next monitor.                             *)
PostFails(w) ==
  /\ worker[w].pc = "posting"
  /\ CountPost(w)
  /\ IF worker[w].attempt < MaxAttempts
     THEN /\ worker' = [worker EXCEPT ![w].attempt = @ + 1]
          /\ UNCHANGED outcome
     ELSE /\ worker' = [worker EXCEPT ![w] = Skip(w, worker[w].to)]
          /\ Record(worker[w].cur, worker[w].to, "exhausted")
  /\ UNCHANGED <<event, queue, monitor, fate, entitled>>

(* http_client.post raises something else (httpx.InvalidURL is not an      *)
(* httpx.RequestError): nothing catches it before lambda_handler's loop.   *)
PostRaises(w) ==
  /\ "post" \in Faults
  /\ worker[w].pc = "posting"
  /\ Record(worker[w].cur, worker[w].to, "raised")
  /\ Mark(worker[w].cur, "failed")
  /\ worker' = [worker EXCEPT ![w] = Leave(w)]
  /\ UNCHANGED <<event, queue, monitor, posts, entitled>>

(* process_message returns.                                                *)
EventHandled(w) ==
  /\ worker[w].pc = "monitors" /\ worker[w].due = {}
  /\ Mark(worker[w].cur, "handled")
  /\ worker' = [worker EXCEPT ![w] = Leave(w)]
  /\ UNCHANGED <<event, queue, monitor, posts, outcome, entitled>>

(* lambda_handler returns normally whatever the outcomes: the mapping      *)
(* deletes the whole batch.                                                *)
Return(w) ==
  /\ worker[w].pc = "next" /\ worker[w].todo = {}
  /\ \E gone \in MayDelete(queue, worker[w].batch, w) : queue' = DeleteAll(queue, gone)
  /\ worker' = [worker EXCEPT ![w] = Idle]
  /\ UNCHANGED <<event, monitor, posts, outcome, fate, entitled>>

(* The invocation times out or crashes, or get_connection raises.          *)
Kill(w) ==
  /\ "kill" \in Faults
  /\ worker[w].pc # "idle"
  /\ worker' = [worker EXCEPT ![w] = Idle]
  /\ UNCHANGED <<event, queue, monitor, posts, outcome, fate, entitled>>

Step(w) ==
  \/ \E m \in Ids : FetchMonitors(w, m) \/ FetchRaises(w, m)
  \/ \E k \in Monitors : RefuseUrl(w, k) \/ BeginDelivery(w, k)
  \/ PostAccepted(w) \/ PostFails(w) \/ PostRaises(w)
  \/ EventHandled(w) \/ Return(w)

Next ==
  \/ \E m \in Ids, d \in Domains : PublishEvent(m, d)
  \/ \E k \in Monitors : InsertMonitor(k) \/ DeleteMonitor(k)
  \/ \E w \in Workers : \/ \E batch \in SUBSET Ids : ReceiveBatch(w, batch)
                        \/ Step(w) \/ Kill(w)
  \/ \E m \in Ids : VisibilityExpires(m)

Spec == Init /\ [][Next]_vars

(* A running invocation goes on, an invisible message reappears, and a     *)
(* message that keeps becoming visible is received.  Nothing publishes,    *)
(* registers, deletes or kills by obligation.                              *)
Fairness ==
  /\ \A w \in Workers : WF_vars(Step(w))
  /\ \A m \in Ids : /\ WF_vars(VisibilityExpires(m))
                    /\ SF_vars(\E w \in Workers, batch \in SUBSET Ids :
                                 m \in batch /\ ReceiveBatch(w, batch))

FairSpec == Spec /\ Fairness

-----------------------------------------------------------------------------
(* process_message never returns normally with a monitor passed over: one  *)
(* that was to hear of the event when it was published and is registered   *)
(* still got it, or had its URL refused, or failed every attempt.          *)
NoSilentSkip ==
  \A m \in Ids : fate[m] = "handled" =>
    \A k \in entitled[m] : monitor[k] = "live" => outcome[m][k] # "none"

(* However often an event is redelivered, and with two invocations on it   *)
(* at once, a webhook is POSTed to at most WEBHOOK_MAX_ATTEMPTS times per  *)
(* receive: queue's and loop's retries multiply, they do not run away.     *)
PostsBounded ==
  \A m \in Ids, k \in Monitors : posts[m][k] <= MaxAttempts * queue[m].receives

(* Every event leaves the queue, handled or to the dead-letter queue, even *)
(* if every invocation on it is killed.                                    *)
EventSettled ==
  \A m \in Ids : queue[m].at = "visible" ~> queue[m].at \in {"deleted", "dead"}

(* config.py: a webhook that fails all attempts is retried "by a future    *)
(* invocation" because "the message becomes visible again".  So it is not  *)
(* deleted.                                                                *)
FailedDeliveryKept ==
  \A m \in Ids, k \in Monitors :
    queue[m].at = "deleted" /\ monitor[k] = "live" => outcome[m][k] # "exhausted"
=============================================================================
