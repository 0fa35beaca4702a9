--------------------------- MODULE CrawlTrigger ---------------------------
(***************************************************************************)
(* GET /v1/domains/{domain} of services/api-service: the cache-miss path   *)
(* that triggers a crawl (api/routes.py get_domain and                     *)
(* _trigger_on_demand_crawl, api/crawl_trigger.py).  Concurrent requests   *)
(* race for the pending-crawl marker of a domain in DynamoDB; the winner   *)
(* pays from its IP's crawl-trigger budget and then either enqueues a      *)
(* crawl or gives the marker back.  Every AWS call is a step of its own;   *)
(* any of them may raise, and the Lambda may be killed between any two.    *)
(*                                                                         *)
(* The crawl itself (crawler-service, parser-service) is CrawlLands and    *)
(* CrawlLost.  The trigger counter's window, ADD and TTL come from         *)
(* FixedWindow; its delays and sweeps are RateLimit's subject, so here its *)
(* clock reading and its ADD are one step and its items are not swept.     *)
(*                                                                         *)
(* Time is in ticks, Second of them to a second, because a marker expires  *)
(* at a whole second but is compared with a fractional clock reading.      *)
(***************************************************************************)
EXTENDS FixedWindow, FiniteSets

CONSTANTS
  None,            \* no domain, no request
  Domains,
  NotBare,         \* the domains that are not bare hostnames
  IPs,
  Requests,        \* the requests of a behaviour, each served once
  Second,          \* ticks in a second; the other times are in ticks too
  TTL,             \* PENDING_CRAWL_TTL_SECONDS
  TriggerLimit,    \* CRAWL_TRIGGER_RATE_LIMIT
  TriggerWindow,   \* CRAWL_TRIGGER_RATE_LIMIT_WINDOW_SECONDS
  LambdaTimeout,   \* the age at which a running request is killed
  Unanswered,      \* the AWS calls whose answers may be lost
  MaxTime          \* bound: the clock stops here

ASSUME NoneAssumption  == None \notin Domains \cup Requests \cup IPs
ASSUME NotBareAssumption == NotBare \subseteq Domains
ASSUME TriggerTimes ==
  /\ Second \in Nat \ {0}
  /\ TTL \in Nat /\ TriggerWindow \in Nat \ {0} /\ LambdaTimeout \in Nat
  /\ TriggerLimit \in Nat /\ MaxTime \in Nat
ASSUME UnansweredAssumption == Unanswered \subseteq {"acquire", "release", "enqueue"}
(* 30 s (infra/terraform/envs/dev/main.tf:695) against 45 s (api/config.py). *)
(* int(now) may cost a marker up to a second of its TTL.                   *)
ASSUME TimeoutBelowTTL == LambdaTimeout + (Second - 1) <= TTL

VARIABLES
  clock,       \* wall-clock seconds
  rows,        \* the domains that have a row in Postgres
  marker,      \* marker[d]: the item pending-crawl#d
  budget,      \* budget[ip][w]: the item crawl-trigger:ip#w
  crawlQueue,  \* the domains with a crawl message not yet handled
  req,         \* req[r]: where request r is
  robbed       \* history: requests whose unexpired marker another one's release deleted

vars == <<clock, rows, marker, budget, crawlQueue, req, robbed>>

Times == 0 .. MaxTime

(* `owner' is not stored by the code: it names the request whose PutItem   *)
(* wrote the marker, so that properties can speak of it.                   *)
NoMarker == [owner |-> None, expires_at |-> 0]
Marker == [owner : Requests, expires_at : Nat] \cup {NoMarker}

\* Those who hold the marker and mean to keep it. "resending": SQS has the
\* message, but did not say so.
Winning == {"won", "enqueueing", "resending"}
Live    == {"miss", "locking", "releasing"} \cup Winning
Answers == {"found",      \* 200
            "refused",    \* 400 unsafe_domain
            "pending",    \* 202, lost the race for the marker
            "triggered",  \* 202, enqueued a crawl
            "limited",    \* 429, over the crawl-trigger budget
            "failed",     \* 500, or killed
            "unanswered"} \* 500, or killed, although SQS has the message

Enqueued == {"resending", "triggered", "unanswered"}

(* `now' is the clock reading try_acquire_crawl_lock sends; `won' the      *)
(* moment DynamoDB accepted its PutItem.                                   *)
RequestState ==
  [pc : {"idle"} \cup Live \cup Answers, ip : IPs \cup {None},
   domain : Domains \cup {None}, started : Times, now : Times, won : Times]

Idle == [pc |-> "idle", ip |-> None, domain |-> None,
         started |-> 0, now |-> 0, won |-> 0]

TypeOK ==
  /\ clock \in Times
  /\ rows \subseteq Domains \ NotBare
  /\ marker \in [Domains -> Marker]
  /\ budget \in [IPs -> [Times -> Item]]
  /\ crawlQueue \subseteq Domains \ NotBare
  /\ req \in [Requests -> RequestState]
  /\ robbed \subseteq Requests

Init ==
  /\ clock = 0
  /\ rows = {}
  /\ marker = [d \in Domains |-> NoMarker]
  /\ budget = [ip \in IPs |-> [w \in Times |-> NoItem]]
  /\ crawlQueue = {}
  /\ req = [r \in Requests |-> Idle]
  /\ robbed = {}

Goto(r, pc) == req' = [req EXCEPT ![r].pc = pc]

-----------------------------------------------------------------------------
(* get_domain up to and including fetch_domain.                            *)
LookUp(r, ip, d) ==
  /\ req[r].pc = "idle"
  /\ req' = [req EXCEPT ![r] = [Idle EXCEPT
               !.pc = IF d \in rows THEN "found" ELSE "miss",
               !.ip = ip, !.domain = d, !.started = clock]]
  /\ UNCHANGED <<clock, rows, marker, budget, crawlQueue, robbed>>

(* Mutant: the SSRF check comes after the enqueue, so not here. *)
ValidateNothing(r) ==
  /\ req[r].pc = "miss"
  /\ req' = [req EXCEPT ![r].pc = "locking", ![r].now = clock]
  /\ UNCHANGED <<clock, rows, marker, budget, crawlQueue, robbed>>

(* validate_crawl_domain: a bare hostname is resolved, at every call anew, *)
(* and refused unless that gives public addresses and no others.           *)
Verdicts(d) == IF d \in NotBare THEN {"refused"} ELSE {"refused", "safe"}

(* It, then the clock reading of try_acquire_crawl_lock.                   *)
Validate(r) ==
  /\ req[r].pc = "miss"
  /\ \E verdict \in Verdicts(req[r].domain) :
       req' = IF verdict = "refused"
              THEN [req EXCEPT ![r].pc = "refused"]
              ELSE [req EXCEPT ![r].pc = "locking", ![r].now = clock]
  /\ UNCHANGED <<clock, rows, marker, budget, crawlQueue, robbed>>

(* Mutants: the condition compares with the new expiry; a marker that      *)
(* expires when it is written.                                             *)
AcquirableTooEarly(m, now) == m = NoMarker \/ m.expires_at < now + TTL
ExpiryWithoutTTL(now) == WindowStart(now, Second)

(* "attribute_not_exists(id) OR expires_at < :now"                          *)
Acquirable(m, now) == m = NoMarker \/ m.expires_at < now

(* int(now) + ttl_seconds *)
Expiry(now) == WindowStart(now, Second) + TTL

WriteMarker(r) ==
  marker' = [marker EXCEPT ![req[r].domain] =
               [owner |-> r, expires_at |-> Expiry(req[r].now)]]

(* try_acquire_crawl_lock returns True.                                    *)
AcquireLock(r) ==
  /\ req[r].pc = "locking"
  /\ Acquirable(marker[req[r].domain], req[r].now)
  /\ WriteMarker(r)
  /\ req' = [req EXCEPT ![r].pc = "won", ![r].won = clock]
  /\ UNCHANGED <<clock, rows, budget, crawlQueue, robbed>>

(* try_acquire_crawl_lock returns False; the caller answers 202 at once.    *)
LoseLock(r) ==
  /\ req[r].pc = "locking"
  /\ ~Acquirable(marker[req[r].domain], req[r].now)
  /\ Goto(r, "pending")
  /\ UNCHANGED <<clock, rows, marker, budget, crawlQueue, robbed>>

(* The PutItem is accepted but its answer is lost: botocore sends it again, *)
(* and the second one meets the request's own marker.                      *)
AcquireAnswerLost(r) ==
  /\ "acquire" \in Unanswered
  /\ req[r].pc = "locking"
  /\ Acquirable(marker[req[r].domain], req[r].now)
  /\ WriteMarker(r)
  /\ UNCHANGED <<clock, rows, budget, crawlQueue, req, robbed>>

(* check_and_increment_for_crawl_trigger                                   *)
CheckTriggerBudget(r) ==
  LET ip == req[r].ip
      w  == WindowStart(clock, TriggerWindow)
      item == AddRequest(budget[ip][w], clock, TriggerWindow)
  IN /\ req[r].pc = "won"
     /\ budget' = [budget EXCEPT ![ip][w] = item]
     /\ Goto(r, IF WithinLimit(item, TriggerLimit) THEN "enqueueing" ELSE "releasing")
     /\ UNCHANGED <<clock, rows, marker, crawlQueue, robbed>>

(* release_crawl_lock, an unconditional DeleteItem.                         *)
DeleteMarker(r) ==
  LET m == marker[req[r].domain]
  IN /\ marker' = [marker EXCEPT ![req[r].domain] = NoMarker]
     /\ robbed' = IF m.owner \notin {r, None} /\ clock <= m.expires_at
                  THEN robbed \cup {m.owner} ELSE robbed

(* It, and the 429.                                                        *)
ReleaseLock(r) ==
  /\ req[r].pc = "releasing"
  /\ DeleteMarker(r)
  /\ Goto(r, "limited")
  /\ UNCHANGED <<clock, rows, budget, crawlQueue>>

(* The DeleteItem is performed but its answer is lost: botocore sends the  *)
(* unconditional delete again, some time later.                            *)
ReleaseAnswerLost(r) ==
  /\ "release" \in Unanswered
  /\ req[r].pc = "releasing"
  /\ DeleteMarker(r)
  /\ UNCHANGED <<clock, rows, budget, crawlQueue, req>>

Enqueuing(r) == req[r].pc \in {"enqueueing", "resending"}

(* enqueue_crawl and the 202.                                              *)
EnqueueCrawl(r) ==
  /\ Enqueuing(r)
  /\ crawlQueue' = crawlQueue \cup {req[r].domain}
  /\ Goto(r, "triggered")
  /\ UNCHANGED <<clock, rows, marker, budget, robbed>>

(* SQS takes the message but its answer is lost: botocore sends it again,  *)
(* by when the first one may have been crawled.                            *)
EnqueueAnswerLost(r) ==
  /\ "enqueue" \in Unanswered
  /\ Enqueuing(r)
  /\ crawlQueue' = crawlQueue \cup {req[r].domain}
  /\ Goto(r, "resending")
  /\ UNCHANGED <<clock, rows, marker, budget, robbed>>

(* The next call of r raises (a 500: nothing above catches it, so nothing  *)
(* is undone), or the Lambda running r is killed.                          *)
Fail(r) ==
  /\ req[r].pc \in Live
  /\ Goto(r, IF req[r].pc = "resending" THEN "unanswered" ELSE "failed")
  /\ UNCHANGED <<clock, rows, marker, budget, crawlQueue, robbed>>

(* DynamoDB's TTL sweep of an expired marker.                              *)
SweepMarker(d) ==
  /\ marker[d] # NoMarker
  /\ marker[d].expires_at < clock
  /\ marker' = [marker EXCEPT ![d] = NoMarker]
  /\ UNCHANGED <<clock, rows, budget, crawlQueue, req, robbed>>

(* The pipeline handles the crawl of d and writes its row, or drops it.     *)
CrawlLands(d) ==
  /\ d \in crawlQueue
  /\ crawlQueue' = crawlQueue \ {d}
  /\ rows' = rows \cup {d}
  /\ UNCHANGED <<clock, marker, budget, req, robbed>>

CrawlLost(d) ==
  /\ d \in crawlQueue
  /\ crawlQueue' = crawlQueue \ {d}
  /\ UNCHANGED <<clock, rows, marker, budget, req, robbed>>

(* Mutant: the Lambda may run for longer than a marker lives. *)
WithinTimeoutNone(r) == TRUE

(* The API Lambda's timeout: a request is over before time goes further.   *)
WithinTimeout(r) == req[r].pc \in Live => clock < req[r].started + LambdaTimeout

Tick ==
  /\ clock < MaxTime
  /\ \A r \in Requests : WithinTimeout(r)
  /\ clock' = clock + 1
  /\ UNCHANGED <<rows, marker, budget, crawlQueue, req, robbed>>

RequestStep(r) ==
  \/ \E ip \in IPs, d \in Domains : LookUp(r, ip, d)
  \/ Validate(r)
  \/ AcquireLock(r) \/ LoseLock(r) \/ AcquireAnswerLost(r)
  \/ CheckTriggerBudget(r)
  \/ ReleaseLock(r) \/ ReleaseAnswerLost(r)
  \/ EnqueueCrawl(r) \/ EnqueueAnswerLost(r)
  \/ Fail(r)

Next ==
  \/ \E r \in Requests : RequestStep(r)
  \/ \E d \in Domains : SweepMarker(d) \/ CrawlLands(d) \/ CrawlLost(d)
  \/ Tick

Spec == Init /\ [][Next]_vars
-----------------------------------------------------------------------------
(* At most one request at a time is between winning a domain's marker and  *)
(* enqueueing the crawl or giving it up: the conditional PutItem is a      *)
(* lock, although it expires by itself and its release is unconditional.   *)
(* The one way around it is to have one's marker deleted by a DeleteItem   *)
(* that was sent twice.                                                    *)
OneWinner ==
  \A r, q \in Requests \ robbed :
    /\ req[r].pc \in Winning /\ req[q].pc \in Winning
    /\ req[r].domain = req[q].domain
    => r = q

(* Two requests that both enqueue a crawl of one domain, whether or not    *)
(* they know that they did, won its marker more than                       *)
(* PENDING_CRAWL_TTL_SECONDS apart, counted from the whole second the      *)
(* earlier one took its clock reading in (same exception).                 *)
DuplicatesSuppressed ==
  \A r, q \in Requests \ robbed :
    /\ r # q /\ req[r].pc \in Enqueued /\ req[q].pc \in Enqueued
    /\ req[r].domain = req[q].domain
    => \/ Expiry(req[r].now) < req[q].won
       \/ Expiry(req[q].now) < req[r].won

(* Only a request that holds the marker of its domain, its own and not     *)
(* expired, spends an IP's crawl-trigger budget: polling for a pending     *)
(* crawl is free (same exception).                                         *)
OnlyTheWinnerPays ==
  [][\A ip \in IPs : budget'[ip] # budget[ip] =>
       \E r \in Requests :
         /\ req[r].ip = ip /\ req[r].pc = "won"
         /\ r \in robbed \/ ( /\ marker[req[r].domain].owner = r
                              /\ clock <= marker[req[r].domain].expires_at )]_vars
=============================================================================
