# A verification project for agent-intelligence

agent-intelligence crawls domains for the signals they publish about AI agents
(`agents.json`, a Web Bot Auth key directory, `llms.txt`), keeps one record per
domain, answers lookups over HTTP, and notifies customers when a record
changes. It runs as six small Python services on AWS Lambda, held together by
three SQS queues, one Postgres database, one DynamoDB table and one S3 bucket.
Each handler is short. What is hard is between them: at-least-once queues,
batches that fail or are killed half way, conditional writes that race, and
events that arrive out of order. That is what these modules model.

## The system

```
             scheduler ──┐                             api-service ── DynamoDB
             (hourly)    │ crawl-queue                  │      (rate limits,
                         ▼                              │       crawl markers)
 api-service ───────► crawler ──► S3                    │
 (cache miss)            │ raw-fetched-queue            │
                         ▼                              ▼
                      parser ──► Postgres: domains, monitors, api_keys
                         │ notify-queue                 ▲
                         ▼                              │
                      notifier ──► customers' webhooks  billing ◄── Stripe
```

| component | state it keeps | operations | what is hard | what makes it correct |
|---|---|---|---|---|
| rate limiter (`api/ratelimit.py`, `enforce_rate_limit`) | one DynamoDB item per subject and window | atomic ADD, usage read | the ADD arrives after the clock reading, is repeated, races the TTL sweep | limits hold per window; refusals are justified; the usage shown is of this key and window |
| crawl trigger (`_trigger_on_demand_crawl`, `api/crawl_trigger.py`) | one marker item per domain, one budget item per IP and window | acquire, release, pay, enqueue | a lock that expires, an unconditional release, calls that fail or are sent twice | one winner at a time, duplicates suppressed, only the winner pays |
| crawler-service | none (S3 objects, messages) | fetch, store, publish | one `gather` per batch, kills between store and publish | no request acknowledged whose crawl was not published, no crawl published that was not stored |
| parser-service: handler | `domains` rows | fetch, diff, upsert, publish | overlapping invocations, commit and publish are two steps, one connection per batch | subscribers hear exactly of real changes; no crawl is dropped unseen |
| notifier-service | none (reads `monitors`) | look up, check URL, POST with retries | redelivery, failure of one of several monitors, monitors that come and go | no monitor passed over, POSTs bounded, every event settles |
| billing-service | `api_keys` rows | mint, switch, show once, open the portal | Stripe's order and repetitions, a secret read, cleared and answered in three steps | a shown secret works and is gone from the database; access follows the subscription |
| success page (frontend) | what one mount of the page shows | fetch the key once, show it | React runs the effect twice, the answer cannot be had again | a secret shown stays shown, the page never hangs |
| monitors API, bulk lookup, export, key usage, authentication (api-service) | `monitors` rows | authorize, limit, create, delete, read | a key is switched off while its calls are served, check and delete are two statements | what a caller is told is true; who left is not served |
| scheduler-service | none (reads rows) | scan, enqueue due domains | a domain stays due until its crawl lands | highest tier wins; never early, at most an hour late |
| signal parsing (`manifest`, `webbotauth`, `confidence`, `normalize`) | none | one crawl's artifacts to the fields of the record | untrusted input, key rotations, validity judged by the clock of the handling | the flags agree with the record; a valid key is a live one; an expiry is announced once, where jsonb keeps the capabilities |
| domain history (`api/history.py`) | none (lists S3) | list, reverse, cut | a capped listing, crawls half stored | newest first, no gaps, agrees with the row |
| SQS queues, Lambda event source mappings | messages | receive, hide, redrive, delete a batch | external code | see SqsQueue |

Calls that cross components are messages (crawl-queue: scheduler and
api-service to crawler; raw-fetched-queue: crawler to parser; notify-queue:
parser to notifier), rows of Postgres (api_keys: billing-service to api-service and the scheduler),
objects of S3 (crawler to parser and to the history), and items of DynamoDB. There are no
threads inside a handler, except that the crawler interleaves its HTTP fetches;
concurrency is several Lambda environments against the shared stores.

## The modules

| module | models | notes |
|---|---|---|
| `FixedWindow` | the fixed-window counter as operators on one item | used by RateLimit and CrawlTrigger |
| `RateLimit`, `MCRateLimit`, `RateLimitProofs` | `check_and_increment` under concurrency | proved, see below |
| `CrawlTrigger`, `MCCrawlTrigger`, `CrawlTriggerProofs` | the cache-miss path of `GET /v1/domains/{domain}` | proved, see below |
| `SqsQueue` | one SQS message behind an event source mapping | used by Crawler, Parser and Notifier |
| `Crawler`, `MCCrawler`, `CrawlerProofs` | crawler-service | proved, see below |
| `Parser`, `MCParser`, `ChangeFeed`, `ParserProofs` | parser-service; ChangeFeed is its abstract specification | proved, the refinement too, see below |
| `Notifier`, `MCNotifier`, `NotifierProofs` | notifier-service and the monitors table | proved, see below |
| `Signals` | what the parsers make of one crawl's artifacts, and the diff of two records | pure operators, used by DomainRecord |
| `DomainRecord`, `MCDomainRecord`, `DomainRecordProofs` | one domain from its site over S3 to its row and its history, under a clock | composes crawler, parser and history; proved, see below |
| `Billing`, `MCBilling` | webhook handling and the display of the key | proved in `CustomersProofs` |
| `SuccessPage` | the page that fetches the key | extends Billing |
| `Customers`, `MCCustomers`, `CustomersProofs` | keyed calls of api-service and the billing portal | extends SuccessPage: billing-service, the browser and api-service together; proved, see below |
| `Scheduler`, `MCScheduler`, `SchedulerProofs` | the hourly recrawl scan against rows, monitors and keys that change | proved, see below |

One action stands for one stretch of code between two calls that leave the
process: a request or an invocation may be interleaved with others, or killed,
exactly at its AWS, Postgres and HTTP calls. `PROJECT.json` names the lines
behind every definition.

**RateLimit.** `req[r]` is a request between reading the clock (which fixes the
item it counts against) and the answer of `update_item`. `StoreAdd` is the
server-side ADD with `if_not_exists`; `AnswerLost` is botocore's retransmission;
`Sweep` deletes an expired item at any moment; `Kill` is the 30 s timeout. The
usage read of `GET /v1/keys/me` changes nothing and is no action:
`CurrentWindowCounts` is the set of its possible answers. It is a `get_item`
without `ConsistentRead`, so it may miss any number of the latest ADDs; the route
calls it best-effort. What the project claims is the other bound.
Counters are kept per subject, whether it is an IP, `key:<id>` or
`crawl-trigger:<ip>`: the code only varies the prefix and the limit.

**CrawlTrigger.** `req[r].pc` follows `get_domain` and
`_trigger_on_demand_crawl`: `miss` (before the SSRF check), `locking` (clock
read, PutItem not yet performed), `won`, `enqueueing` or `releasing`, and the
answers. `marker[d]` carries the `owner` who wrote it, which the code does not
store, so that properties can speak of it. `release_crawl_lock` is an
unconditional DeleteItem: botocore may send it again when its answer is lost
(`ReleaseAnswerLost`) and then delete the marker of another request. `robbed`
records those requests, and the properties about holders except them: nothing
else lets two requests pass. `send_message` may be delivered without an answer
too (`EnqueueAnswerLost`): the request is `resending` then, and `unanswered` if it
raises or is killed although SQS has the message; both count as enqueued. The
SSRF check resolves the name anew at each call, so its verdict is free at each
call (`Verdicts`), except for names that are no bare hostname (`NotBare`), which are
always refused. Time is in ticks, `Second` of them to a second:
`expires_at` is built from `int(now)` but compared with a fractional `now`. The
budget's counter is RateLimit's; here its clock reading and its ADD are one step.

**SqsQueue.** A message is `visible`, `inflight` (received, hidden, `holder`
has the latest receipt handle), `deleted` or `dead`. A batch is deleted after a
normal return only; a delete with an outdated handle may have no effect. The
second copy of a message that botocore sent twice is not a message of its own:
its readers meet the same in a message that is received again after it was handled.

**Crawler.** `worker[w]` is a running invocation: `fetching` are the tasks that
await HTTP answers, `cur` is the task in its synchronous part (S3 and SQS calls
do not yield). A crawl is a pair, the request and the number of its receive:
that is what a raw-fetched message names by its S3 keys, and `artifacts` and `raw`
are sets of crawls. `PublishAnswerLost` is a `send_message` that was delivered
though its answer was lost: botocore sends it again, or it raises after all. A
message that names no domain (`Unreadable`) is left out of the batch's tasks and
deleted with the batch. `FetchRaises` is an exception `fetch_url` does not catch; then
`gather` fails (`failing`), and `Abort` returns the whole batch to the queue.

**Parser.** A crawl's artifacts are one `signal`, the value of `DIFF_FIELDS`
they parse to; crawls are numbered in `crawled_at` order. `worker[w].prev` is the
row fetched before the upsert; `broken` is the aborted transaction of the
batch's shared connection. `announced` are the published messages, `view[d]`
what a subscriber last heard; `fate` is a history variable. A message that
`extract_message` cannot read is left out (`UsableOf`) and deleted with its batch.
`ChangeFeed` is what its subscribers are promised: a domain goes from signal to
signal, each change is owed to them until it is announced or forgotten, and the
next change waits for that. Under the mapping a change is owed while a worker is
between the commit of the row and its publish; a publish that fails, or a kill,
forgets it.

**Signals, DomainRecord.** Where Parser knows a crawl as one value that differs
or not, these say what the value is. The body of an artifact is the shape the
parsers tell apart (undecodable, unparseable, no object, too deeply nested, no
keys, a JWKS) with the keys, `exp`s and capabilities that reach the record.
Some of them make the parsers raise, some make Postgres refuse the row, and some
come back from it as something else: `Jsonb` says what the jsonb column makes of
each value of `declared_capabilities`, and the diff compares a row that has been
stored (`AsStored`) with a new record. Time
runs in half seconds: `exp` is in seconds, the clocks are not, and `isoformat()`
leaves a zero fraction out, which matters to the history's order of strings.
A crawl stores its artifacts one by one and may be aborted after each; published
crawls are parsed in any order, late and again. `parsed` and `repeats` are
history variables. The history is not a transition: `DomainHistory(limit)` is
what the route would answer now.

**Notifier.** `worker[w]` walks through the monitors (`due`) that the SELECT
returned and counts `attempt`s in `deliver_webhook`. `outcome`, `fate` and
`entitled` are history variables.

**Billing.** Stripe is modelled by `subscription`, the `log` of events emitted
and those `unacked`. `inOrder[s]`, chosen when the checkout is completed, says whether Stripe delivers a
session's events in order (each once, or its latest again) or any logged event
at any time. A Checkout Session stands for its customer and subscription because
`create_checkout_session` passes no customer. An event may lack what its handler
needs (`complete`): a completed checkout its email, customer or id, a subscription
its customer. The handler then acknowledges it and leaves the row alone, and Stripe
does not send it again. `Fresh` is the one new secret of a mint: secrets differ in
their names only. A visit reads, clears and answers in three steps.

**SuccessPage.** `page[p]` is a mount of the page: its status, `hasFetchedRef`
and how often React still runs the effect. `fetch[v]` says which page waits for
visit `v` of Billing. What billing-service answered is `visit`, what arrives is
`page`: an answer may be lost between them.

**Customers.** `call` is the sequence of calls with an API key and where each is:
authorized by one look-up of the key, then served. `lookup` stands for
`GET /v1/domains/{domain}` and its history, which take a key but do not ask for
one. A deletion reads the row, then deletes by id, in two steps; `GET /v1/keys/me` looks the key up twice. Which
routes serve which plan, and whether a refusal is 401 or 403, is as in
`api/routes.py`. `Licensed` is a key provisioned by hand, which no Stripe event
reaches; the portal knows no billing account for it. `Email[o]` is the e-mail of
a row: several may share one, by subscribing again, and the portal finds any
active row of it. `left` is a history field; for a call that names an e-mail it
says that every subscription with it has been left.

**Scheduler.** `scan[i]` is an invocation with the due domains it has yet to
send. Time is in whole hours, and all that happens within an hour happens at one
instant in any order; an invocation reads the clock and the rows in one step,
sends in later ones. `CrawlLands` stands for the rest of the system writing a row,
with a fetch up to `MaxLag` hours old. A send is a call of `send_message`: that
botocore may send one twice is not modelled here, where only the count of the
backlog depends on it. `reached`, `overdue` and `asked` are history variables.

## What the runs check

| run | shows | bounds |
|---|---|---|
| `rate_limit` | `NeverOverLimit`, `RejectionsJustified`, `UsageNeverOverstated` | 2 subjects with different limits, 3 requests, a clock over three windows: a window is over-subscribed, ended and swept with requests still on their way |
| `crawl_trigger` | `OneWinner`, `DuplicatesSuppressed`, `OnlyTheWinnerPays` | 3 requests, 2 IPs, a domain that resolves as it likes and a name that is none; the marker expires more than once, half-second ticks; PutItem, DeleteItem and SendMessage repeated at will |
| `crawler` | `DeletedMeansCrawled`, `PublishedMeansStored`, `RequestSettled` | 2 messages, with a domain or without, in one batch or two, 2 invocations, 3 receives, unlimited kills, failing and unanswered calls |
| `crawler_isolation` (violation) | a healthy domain is dead-lettered with a failing batch-mate | 3 requests, 1 invocation |
| `parser` | `FirstSeenStable`, `ReportedChangeIsReal`, `NothingDroppedUnseen`; while invocations do not overlap, `FeedRefined` (Parser implements ChangeFeed) and `EventuallyHandled` | 2 messages, crawls of a domain or unreadable, 1 invocation at a time or 2 overlapping ones, every fault, kills |
| `records` | `FlagsTellTheRecord`, `ValidMeansLiveKey`, `SteadySiteOneChange`, `SnapshotMatchesRow`, `HistoryNewestFirst` | sites with every shape of manifest and directory, rotations in both orders, ties, keys without `exp`, capabilities that jsonb changes; 3 crawls, a listing of 2, 2 seconds in which keys expire |
| `parser_crash` (violation) | a kill between commit and publish loses the announcement | 1 kill |
| `notifier` | `NoSilentSkip`, `PostsBounded`, `EventSettled` | 1 event, 2 monitors, 2 attempts, 2 receives, the deployed overlap, unlimited kills |
| `notifier_redrive` (violation) | an event whose delivery failed is deleted | 1 event |
| `billing` | `ShownSecretWorks`, `ShownMeansCleared`, `AccessFollowsSubscription`, `PaidGetsKey`; `SecretStaysOnScreen`, `LoadingEnds`; `DeleteAnswersTell`, `LeaverIsNotServed` | one session and the licensing key, 4 inputs out of at most 3 events (in order, in any order, repeated, incomplete), pages opened and at most 2 calls; 2 visits, 1 monitor; both rows have one e-mail |
| `billing_reordered` (violation) | a key minted after its cancellation stays active | 3 events |
| `scheduler` | `AskedEveryHour`, `BacklogBounded` | 2 domains, a key of each tier, 2 overlapping invocations, cadences 2 < 3 < 4 hours for 24 < 72 < 168, 6 hours |

Several sessions with one e-mail are in the theorems only: two sessions with the
same inputs are too many states for a run. The largest
runs have 7.0 million (`crawl_trigger`), 3.5 million (`scheduler`) and 1.3 million
(`records`) distinct states, `billing` and `parser` half a million each.

Every run is small because its hazard is: two actors racing for one item, one
message received twice, one batch with a healthy and a failing member. The next
larger instance adds actors that do the same things. Time bounds are chosen so
that the longest relevant period (a marker's life, two windows and a sweep, the
default cadence) ends within the behaviour. In the `billing` run `MaxInputs` bounds
the events, pages and calls together: their mixtures are where the three
parts meet, long runs of one kind add nothing. Pages and visits
differ in their names only, so any unused one is taken. So do Parser's signals: the
first crawl of a behaviour may find any of them, and in the runs one of them
(`FirstSignals`) stands for all. `CHECK_DEADLOCK FALSE` is set
everywhere because clocks and inputs are bounded: a behaviour ends when its
requests are used up. Symmetry is used in safety-only runs. Each property has a
mutant in `PROJECT.json`, a plausible bug of the mapped code that violates it
under the same configuration.

The violation runs are disagreements between the code and what a docstring, a
comment or a Terraform note says of it; `PROJECT.json` quotes each line.

### Known divergences that have no run of their own

Met while modelling. The models contain the behaviour, and the properties are
stated so that they hold in spite of it; `nbf` and the names of exports alone are
below what the models tell apart.

- A loser of the race for a marker is told "pending" although the winner may
  then be refused by its budget and no crawl made. `try_acquire_crawl_lock`'s
  docstring (`api/crawl_trigger.py:86-91`) says a crawl is already in flight.
- The repeated DeleteItem described above. `api/crawl_trigger.py:131-133` says the
  delete "simply undoes that write".
- After a statement Postgres rejects, the connection of the whole batch stays in
  an aborted transaction, and every later message of the batch fails and is
  deleted. The comment at `parser/handler.py:210-213` says one domain's bad data
  "must not take down the rest of the batch".
- Two parser invocations that both read a row before either writes it announce
  changes from the same old signal, and the last announcement need not be the
  last row. This needs overlapping invocations; the `parser` run's
  refinement speaks of the serial ones.
- A POST that raises something else than `httpx.RequestError` (`httpx.InvalidURL`)
  ends an event for its remaining monitors (`notifier/webhook.py:83`), which
  `process_message`'s docstring rules out.
- notify-queue hides a message for 60 s, the notifier may run for 90 s
  (`envs/dev/main.tf:294`, `1171`): two invocations can be on one event, contrary
  to the comment at `main.tf:1165-1171`.
- `api/history.py` caps a listing at the oldest objects, because `list_objects_v2`
  lists in ascending order; its docstring (`history.py:49-50`) says "We take the
  single most recent `HISTORY_S3_LIST_CAP` of those". `HistoryNewestFirst` is claimed up to the cap.
- An `exp` no datetime can hold raises in `parse_web_bot_auth`, too deeply nested
  JSON raises `RecursionError` in both parsers, and a `kid` or a capability with
  NUL or NaN is refused by Postgres: such a crawl never reaches the record, while
  the docstrings say "this never raises" (`parser/manifest.py:32`) and that a
  malformed directory is reported "rather than raising" (`webbotauth.py:22`).
- `nbf` is not looked at: a key that is not valid yet counts as valid.
- `declared_capabilities` is compared with what Postgres gives back from `jsonb`.
  A number that does not survive the round trip (1e23) differs at each crawl, and
  the watchers of a site that never changed are notified each time, while
  `diff_records` is there to find "anything meaningful" that changed. In the model
  `Jsonb` changes such capabilities, and `SteadySiteOneChange` is claimed for the others.
- A `checkout.session.completed` without email, customer or id is answered 200 and
  mints no key. This is intended (`tests/test_webhook_route.py:143-155`), but the
  customer has paid: `PaidGetsKey` is claimed for complete events.
- `build_export_key`'s docstring (`api/export.py:64-66`) says that exports never
  overwrite each other; the key has a resolution of one second.
- The monitors of a cancelled customer are still crawled for and notified; the
  customer's key can no longer delete them (401), nor can any other.

### Fairness

Crawler, Parser and Notifier assume that a running invocation goes on (weak
fairness on `Step`: its HTTP and AWS calls time out, and `Kill` may end it
anyway), that an invisible message becomes visible again, and that a message
which is visible again and again is received (strong fairness: two invocations
may take turns hiding it). Nothing makes crawls, events, kills or monitors
happen. Billing assumes that Stripe goes on delivering an unanswered event.
SuccessPage assumes that the browser runs the effects and that every fetch
resolves or rejects; a page takes finitely many steps, so one weak fairness
condition on all of them says this. Nothing makes anyone call api-service.
Killing goes on without end for the crawler and the notifier, whose queues have
a dead-letter queue. The parser's has none: an invocation killed for ever keeps
its message for ever, so Parser's fairness says that killing ends.
`EventuallyHandled` speaks of behaviours with one invocation at a time.
With overlapping
ones (the deployed 30 s against 60 s) the model, which does not say how long an
invocation takes, could let a message reappear just before every delete; the
crawler's and the notifier's messages settle even then, by their receive count,
and the notifier's run has the deployed overlap.

## What is proved

`RateLimitProofs` proves for every set of subjects, every limit, window,
Lambda timeout not above the window, number of requests and retransmissions:

- `TypeCorrect`: `Spec => []TypeOK`;
- `LimitIsKept`: `Spec => []NeverOverLimit`;
- `RejectionsAreEarned`: `Spec => []RejectionsJustified`;
- `UsageIsEarned`: `Spec => []UsageNeverOverstated`.

The assumptions are the module's: `Subjects` without `None`, finitely many
`Requests`, natural numbers for the rest, and `LambdaTimeout <= Window`
(30 s against 60 s). The argument: `NeverOverLimit` is not inductive because it
does not mention the items. The inductive invariant adds that a request still
adding is timely (its clock reading is at most `LambdaTimeout` old), that an
item in the table does not expire before every request of its window could
have arrived (`expires_at` is at least two windows after the earliest reading),
and that the item of a window counts at least the requests of it that were
let through, while anyone can still add to it. The last needs the sweep to be
late enough, which is where the factor two of the code is used. Facts about `\div` are
lemmas (`WindowStartBounds`, `NextMultiple`, `WindowStartUnique`).
`RejectionsAreEarned` needs the opposite bound: an item counts at most the ADDs
made in its window (`CountIsAdds`), which are the pairs of a request and the number
of one of its ADDs. An ADD makes one more such pair in one window and none in any
other (`OneMoreAdd`); a sweep lowers the count and unmakes no pair. A
rejected request read a count above its limit, and the pairs that made it up are
there for good (`WasOverLimit`). `UsageIsEarned` is the same bound, read off for
whatever part of the count an eventually consistent read returns.

`CrawlTriggerProofs` proves for every set of domains, IPs and requests, every
limit and any time and repetition of the calls:

- `TypeCorrect`, `LockIsExclusive` (`OneWinner`), `DuplicatesStayApart`
  (`DuplicatesSuppressed`), `WinnerPays` (`OnlyTheWinnerPays`).

The assumption that matters is `TimeoutBelowTTL`: the Lambda timeout is at least
a second, less one tick, below the marker's TTL (30 s against 45 s), because
`int(now)` may cost a marker that much of its life. The invariant says that a
running request is younger than the timeout (`Timely`), and that a request which won a marker and has not given
it up either finds it in the table, written by itself, or its lease is over
(`HasLease`). The second is impossible while the request runs (`WinnerHolds`),
which gives `OneWinner`; for two that enqueued, whether or not they were told so, it
gives `Apart`. A request whose
marker a repeated DeleteItem took is in `robbed` by then, and only then.

`CustomersProofs` proves about Billing, for every set of sessions, secrets and
visits, and any number of events in any order and repeated:

- `TypeCorrect`: `Spec => []TypeOK`, which `CustomersTypeOK` of the run contains;
- `ShownWorks`: `Spec => []ShownSecretWorks`;
- `ShownCleared`: `Spec => []ShownMeansCleared`;
- `AccessFollows`: `Spec => []AccessFollowsSubscription`.

Neither of the two about secrets mentions the requests under way, so neither is
inductive: a visit carries a secret it read earlier. The invariant adds that the secret of a
visit on its way is the one its row accepts, that a visit answers only when its
row is cleared, and that a row's pending secret is its own. `RowKept` says what
no event breaks: a row that exists keeps its secret, and its pending secret
stays or goes. It holds because the insert does nothing on a conflict and the
update matches no row before there is one. The assumption is that `None` is no
secret; that a fresh secret differs from the ones before is not needed.
`AccessFollows` has an invariant of its own: the log is what the subscription
went through (`Orderly`), and the row is as the events of the log answered so
far say, or those and the next one, whose answer was lost (`HandledUpTo`). Each
of them leaves the row as it is if it is incomplete (`IsAfter`).

It proves about Customers, for any number of pages, visits, owners, monitors and
calls:

- `CustomersPay`: `CustomersSpec => Spec`, the refinement: success page and
  calls are steps of Billing, or stutter. All theorems about Billing hold of
  Customers by it;
- `SecretStays` (`SecretStaysOnScreen`), `DeletesTell` (`DeleteAnswersTell`),
  `LeaversAreRefused` (`LeaverIsNotServed`).

A page that waits is loading and waits for one visit, its only one (`PagesInv`),
so no answer can arrive at a page that shows something. `CallsInv` says what a
call between two of its steps may rely on: a deletion that passed the owner
check was made by the owner, and the answer to a customer who had left is a
refusal from the first look-up on. A portal call is answered at once: `PortalTells`
says what it may be told when an e-mail is shared by any number of sessions. `CustomersTypes` (`CustomersTypeOK`) adds that a
call has a status just when it is answered and a row an owner just when it was
made. Events, open pages and calls are counted as finite sets, each of which
only its own steps extend, by one: `OpenedKept` says that no answer and no effect
opens a page.

`DomainRecordProofs` proves for every site, every set of keys and capabilities
and any number of crawls and seconds: `TypeCorrect`, `FlagsTell`
(`FlagsTellTheRecord`), `SnapshotMatches` (`SnapshotMatchesRow`), `SteadySite`
(`SteadySiteOneChange`), `LiveKey` (`ValidMeansLiveKey`) and `NewestFirst`
(`HistoryNewestFirst`). The invariant: a published crawl is stored whole, no
crawl under way is published, the row is what one published crawl parses to at
an instant not in the future (`RowParsed`), as jsonb gives it back, and a change
announced for the same artifacts, if their capabilities survive jsonb, means that
the key has expired by the clock (`Expired`), which time does not undo. `LiveKey` and `NewestFirst` are about one state, and what they need
are facts about data of any size. `max()` over the keys of a directory takes one
that no other beats: there is one, because proper subsets of a finite set are
well-founded (`UndominatedElement`), and it has the last expiry (`ChosenIsLatest`).
The listing of S3 is the enumeration of the stored folders in ascending order; that there is
one follows from the rank of a folder, the number of those before it
(`RankFacts`, `AscendingFacts`), and string order is time order (`SortsInTime`) despite the
fraction that `isoformat()` leaves out. What the route reverses and cuts off is then
the newest crawls (`MostRecentFacts`, `LastOnes`).

`CrawlerProofs` proves for every set of requests, batch size and number of
invocations, also overlapping ones: `TypeCorrect`, `DeletedWereCrawled`
(`DeletedMeansCrawled`), `PublishedWereStored` (`PublishedMeansStored`). For the
first, every message of a batch is being fetched, is the current one or was
published (`Progress`), and a normal return leaves the last case only. For the
second, an invocation whose current crawl is marked as stored has that very crawl
among those stored, so that each publish, resent or not, names one of them.

`ParserProofs` proves for every set of domains and signals, every batch size, any
number of crawls and of invocations, also overlapping ones, and failures and
kills anywhere: `TypeCorrect`, `OnlyRealChanges` (`ReportedChangeIsReal`),
`EveryMessageHasItsTurn` (`NothingDroppedUnseen`), `FirstSeenNeverChanges`
(`FirstSeenStable`) and `ImplementsChangeFeed` (`FeedRefined`: Parser implements
ChangeFeed). Rows, announcements and the rows that running invocations have
fetched all name a crawl of the same domain that was stored (`StoredCrawl`), and
no step takes back that it was (`HistoryKept`). An invocation drops from its list
only messages that had their turn (`Invocation`), which a normal return hands on to
the queue. The refinement needs one thing more, and only while invocations do not
overlap: the row an invocation fetched still is the row when it writes
(`PreviousIsRow`). Then each step is a step of ChangeFeed or a stutter: an upsert
changes the signal or writes the same (`FeedChanges`), a publish announces
(`FeedAnnounces`), a failed one or a kill between the two forgets (`FeedForgets`).

`SchedulerProofs` proves for every number of domains, keys, monitors and
invocations, any cadences with licensing's the shortest and the default the
longest, and any lag of the crawls: `TypeCorrect`, `BacklogIsBounded` (`BacklogBounded`)
and `NeverMoreThanAnHourLate` (`AskedEveryHour`). `BacklogBounded` counts what was sent, but what a scan
that read the row earlier will yet send has to be counted too: `Held(d)` is the sends made and
the scans that have `d` on their list, a finite set. A send turns one of the latter into
one of the former; a scan that starts adds itself, once, and only if `d` is due
(`CountedScan`); a crawl that lands starts the count anew with the scans that had read the
row before (`CountedLands`). `NeverMoreThanAnHourLate` rests on `CadenceIsShortest`: the
cascade of `cadence_days_for_tiers` is the minimum over the tiers, so that a domain
overdue at its watchers' cadence is due in every scan (`OverdueIsDue`). Each
running scan has the overdue domains on its list or has tried them (`Covered`).

`NotifierProofs` proves for every number of monitors, events, attempts,
receives and invocations, also overlapping ones: `TypeCorrect`, `NoneIsSkipped`
(`NoSilentSkip`), `PostsStayBounded` (`PostsBounded`). `Busy` says that no monitor
entitled to the event was lost on the way: it is due still, its outcome is
known, or it was deleted. For the bound, `Owed(m, k)` is the set of attempts
that some invocation may still make; the POSTs made and those owed are
together at most `MaxAttempts` times the receives (`WithinBudget`). A POST turns one
owed into one made, a receive adds `MaxAttempts` to each side, a failure or a
kill only takes away.

Every invariant, action property and refinement that a run checks is the
statement of a theorem. Model-checked only: the liveness properties
`RequestSettled`, `EventuallyHandled`, `EventSettled`, `PaidGetsKey` and
`LoadingEnds`, because fairness and `ENABLED` are outside the prover. Sums and
sorting are written in the models as cardinalities and as a choice of an
enumeration, not as folds: what a fold computes cannot be proved here.

## What is not modelled

- What a bulk lookup, an export or a usage answer contains, and the object an
  export leaves in S3: reads of tables that are rows of other modules.
- Strings: names, wording, e-mails, URL syntax. Whether a host is safe is a free
  choice at each look-up, because DNS answers as it likes.
- The lookup page's polling and the dashboard (`apps/frontend/app/page.tsx`,
  `dashboard/page.tsx`): the page's button is disabled while one lookup is
  pending, so its single poll loop meets no other and stops at its deadline.
- `scripts/` (local queue workers, LocalStack verification, seeding), migrations,
  configuration and Terraform beyond the timeouts, batch sizes and queue
  attributes that the configurations take from it.
- Signature checking of webhooks, price tiers, the creation of a Checkout Session.
- DynamoDB, SQS, Postgres, S3, Stripe and Lambda beyond what the handlers rely
  on; message retention, delivery delays and Lambda's scaling.

## Plan

Done: all services, their queues, the composition of billing-service, success
page and api-service (Customers), that of crawler, parser and history for one
domain (DomainRecord); the proofs above. Next, in this order:

1. `Pipeline`: Crawler, Parser and Notifier composed over their queues; an
   abstract specification "a change of a domain is posted at least once, or its
   event is dead", and the faults under which it holds.
2. Proofs of what holds where a violation run fails: `FeedReflectsRows` while
   nothing is killed and no publish fails; that no message of a healthy domain
   is dead-lettered while no fetch raises; that an in-order session's key is
   inactive for good after its cancellation.
3. Theorems that join the modules: what a row says (DomainRecord) of a crawl the
   parser announces (Parser), and what the scheduler asks for and the crawler
   publishes.
