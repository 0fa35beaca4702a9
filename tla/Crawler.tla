------------------------------ MODULE Crawler ------------------------------
(***************************************************************************)
(* services/crawler-service: Lambda invocations take batches of domains    *)
(* off crawl-queue, fetch every domain's signals in one asyncio.gather,    *)
(* store them in S3 and publish one raw-fetched message per domain         *)
(* (crawler/handler.py, crawler/fetch.py, crawler/storage.py).             *)
(*                                                                         *)
(* The tasks of a batch interleave at their HTTP fetches only: the boto3   *)
(* calls are synchronous, so a task that has its signals stores and        *)
(* publishes them before another task runs.  Killing the Lambda can still  *)
(* cut that in two.                                                        *)
(***************************************************************************)
EXTENDS SqsQueue, FiniteSets

CONSTANTS
  None,
  Domains,
  Unreadable,         \* the body of a message that names no domain
  Raising,            \* domains whose fetch raises no httpx.RequestError
  Workers,            \* concurrent Lambda environments
  VisibilityTimeout,  \* of crawl-queue
  LambdaTimeout,      \* of the crawler
  MaxReceive,         \* max_receive_count of crawl-queue's redrive policy
  BatchSize,          \* of the event source mapping
  Faults,             \* the kinds of failure of this instance
  MaxRequests         \* bound: crawl-queue messages in a behaviour

ASSUME NoneAssumption ==
  None \notin Domains /\ Unreadable \notin Domains /\ None # Unreadable
ASSUME RaisingAssumption == Raising \subseteq Domains
ASSUME WorkersAssumption == Workers # {}
ASSUME NumbersAssumption ==
  /\ VisibilityTimeout \in Nat /\ LambdaTimeout \in Nat /\ BatchSize \in Nat
  /\ MaxReceive \in Nat \ {0} /\ MaxRequests \in Nat
ASSUME FaultsAssumption == Faults \subseteq {"aws", "kill"}

VARIABLES
  request,   \* request[m]: the domain message m asks to crawl, or Unreadable;
             \* None before it is sent
  queue,     \* crawl-queue
  worker,    \* worker[w]: the invocation w is running
  artifacts, \* the crawls whose artifacts are all in S3
  raw        \* the crawls a raw-fetched message refers to

vars == <<request, queue, worker, artifacts, raw>>

Ids == 1 .. MaxRequests

(* <<m, k>>: the crawl made for the k-th receipt of message m.  It is what *)
(* a raw-fetched message names by its S3 keys, which hold the domain and   *)
(* the time of the crawl.                                                  *)
Crawls == Ids \X (1 .. MaxReceive)
NoCrawl == <<0, 0>>

(* `fetching' are the tasks waiting for HTTP answers; `cur' is the task in *)
(* its synchronous part.  "failing": a task has raised, gather has passed  *)
(* that on and asyncio.run is about to cancel the others.                  *)
Running == [pc : {"idle", "running", "failing"}, batch : SUBSET Ids,
            fetching : SUBSET Crawls, cur : Crawls \cup {NoCrawl}, stored : BOOLEAN]
Idle == [pc |-> "idle", batch |-> {}, fetching |-> {}, cur |-> NoCrawl, stored |-> FALSE]

TypeOK ==
  /\ request \in [Ids -> Domains \cup {Unreadable, None}]
  /\ queue \in [Ids -> Message(Workers, MaxReceive)]
  /\ worker \in [Workers -> Running]
  /\ \A w \in Workers : \A c \in worker[w].fetching : c[1] \in worker[w].batch
  /\ artifacts \subseteq Crawls
  /\ raw \subseteq Crawls

Init ==
  /\ request = [m \in Ids |-> None]
  /\ queue = [m \in Ids |-> Unsent(CHOOSE w \in Workers : TRUE)]
  /\ worker = [w \in Workers |-> Idle]
  /\ artifacts = {}
  /\ raw = {}

-----------------------------------------------------------------------------
(* The scheduler, api-service or the seed list asks for a crawl, or        *)
(* somebody sends a body extract_domain can make nothing of.               *)
EnqueueCrawl(m, d) ==
  /\ request[m] = None
  /\ \A n \in Ids : n < m => request[n] # None
  /\ request' = [request EXCEPT ![m] = d]
  /\ queue' = [queue EXCEPT ![m] = Sent(@)]
  /\ UNCHANGED <<worker, artifacts, raw>>

(* extract_domain: the messages whose body names a domain.                 *)
UsableOf(batch) == {m \in batch : request[m] \in Domains}

(* The handler starts one task per usable message.  The others are left    *)
(* out; with no usable one at all it returns at once, that is, normally    *)
(* (see Return).                                                           *)
ReceiveBatch(w, batch) ==
  /\ worker[w].pc = "idle"
  /\ batch # {} /\ Cardinality(batch) <= BatchSize
  /\ \A m \in batch : queue[m].at = "visible"
  /\ queue' = [m \in Ids |-> IF m \in batch THEN Received(queue[m], w, MaxReceive)
                                            ELSE queue[m]]
  /\ worker' = [worker EXCEPT ![w] = [Idle EXCEPT
       !.pc = "running", !.batch = batch,
       !.fetching = {<<m, queue'[m].receives>> : m \in UsableOf(batch)}]]
  /\ UNCHANGED <<request, artifacts, raw>>

(* Visible again, or dead after the last receive.  Its holder may still be *)
(* at work then only if it may run for longer.                             *)
VisibilityExpires(m) ==
  /\ queue[m].at = "inflight"
  /\ m \in worker[queue[m].holder].batch => VisibilityTimeout < LambdaTimeout
  /\ queue' = [queue EXCEPT ![m] = Reappeared(@, MaxReceive)]
  /\ UNCHANGED <<request, worker, artifacts, raw>>

(* crawl_domain returns for c: found, absent, timed out or not reachable,  *)
(* fetch_url turns all of these into a result.                             *)
Fetched(w, c) ==
  /\ worker[w].pc # "idle" /\ worker[w].cur = NoCrawl
  /\ c \in worker[w].fetching
  /\ request[c[1]] \notin Raising
  /\ worker' = [worker EXCEPT ![w].fetching = @ \ {c}, ![w].cur = c]
  /\ UNCHANGED <<request, queue, artifacts, raw>>

(* client.get raises something else, which fetch_url does not catch.       *)
FetchRaises(w, c) ==
  /\ worker[w].pc # "idle" /\ worker[w].cur = NoCrawl
  /\ c \in worker[w].fetching
  /\ request[c[1]] \in Raising
  /\ worker' = [worker EXCEPT ![w].fetching = @ \ {c}, ![w].pc = "failing"]
  /\ UNCHANGED <<request, queue, artifacts, raw>>

(* Every store_fetch_result of process_domain.                             *)
StoreArtifacts(w) ==
  /\ worker[w].cur # NoCrawl /\ ~worker[w].stored
  /\ artifacts' = artifacts \cup {worker[w].cur}
  /\ worker' = [worker EXCEPT ![w].stored = TRUE]
  /\ UNCHANGED <<request, queue, raw>>

(* Mutant: the message is published before the artifacts are stored. *)
PublishRawFetchedFirst(w) ==
  /\ worker[w].cur # NoCrawl
  /\ raw' = raw \cup {worker[w].cur}
  /\ worker' = [worker EXCEPT ![w].cur = NoCrawl, ![w].stored = FALSE]
  /\ UNCHANGED <<request, queue, artifacts>>

(* publish_raw_fetched, one message for all the signals of the domain.     *)
PublishRawFetched(w) ==
  /\ worker[w].cur # NoCrawl /\ worker[w].stored
  /\ raw' = raw \cup {worker[w].cur}
  /\ worker' = [worker EXCEPT ![w].cur = NoCrawl, ![w].stored = FALSE]
  /\ UNCHANGED <<request, queue, artifacts>>

(* The send_message is delivered but its answer is lost: botocore sends it *)
(* again (PublishRawFetched, a second copy), or the call raises after all. *)
PublishAnswerLost(w) ==
  /\ "aws" \in Faults
  /\ worker[w].cur # NoCrawl /\ worker[w].stored
  /\ raw' = raw \cup {worker[w].cur}
  /\ UNCHANGED <<request, queue, worker, artifacts>>

(* Mutant: gather(..., return_exceptions=True). *)
AwsCallRaisesUnnoticed(w) ==
  /\ "aws" \in Faults
  /\ worker[w].cur # NoCrawl
  /\ worker' = [worker EXCEPT ![w].cur = NoCrawl, ![w].stored = FALSE]
  /\ UNCHANGED <<request, queue, artifacts, raw>>

(* A put_object or the send_message raises, delivered or not.              *)
AwsCallRaises(w) ==
  /\ "aws" \in Faults
  /\ worker[w].cur # NoCrawl
  /\ worker' = [worker EXCEPT ![w].cur = NoCrawl, ![w].stored = FALSE, ![w].pc = "failing"]
  /\ UNCHANGED <<request, queue, artifacts, raw>>

(* gather had every result: a normal return, and the mapping deletes the   *)
(* batch.                                                                  *)
Return(w) ==
  /\ worker[w].pc = "running" /\ worker[w].cur = NoCrawl /\ worker[w].fetching = {}
  /\ \E gone \in MayDelete(queue, worker[w].batch, w) : queue' = DeleteAll(queue, gone)
  /\ worker' = [worker EXCEPT ![w] = Idle]
  /\ UNCHANGED <<request, artifacts, raw>>

(* Mutant: the other tasks go on fetching. *)
AbortWithoutCancelling(w) ==
  /\ worker[w].pc = "failing" /\ worker[w].cur = NoCrawl
  /\ worker' = [worker EXCEPT ![w].pc = "idle", ![w].batch = {}]
  /\ UNCHANGED <<request, queue, artifacts, raw>>

(* The exception leaves lambda_handler: the tasks still fetching are       *)
(* cancelled and the whole batch stays in the queue.                       *)
Abort(w) ==
  /\ worker[w].pc = "failing" /\ worker[w].cur = NoCrawl
  /\ worker' = [worker EXCEPT ![w] = Idle]
  /\ UNCHANGED <<request, queue, artifacts, raw>>

(* The Lambda times out or crashes.                                        *)
Kill(w) ==
  /\ "kill" \in Faults
  /\ worker[w].pc # "idle"
  /\ worker' = [worker EXCEPT ![w] = Idle]
  /\ UNCHANGED <<request, queue, artifacts, raw>>

Step(w) ==
  \/ \E c \in Crawls : Fetched(w, c) \/ FetchRaises(w, c)
  \/ StoreArtifacts(w) \/ PublishRawFetched(w) \/ AwsCallRaises(w)
  \/ Return(w) \/ Abort(w)

Next ==
  \/ \E m \in Ids, d \in Domains \cup {Unreadable} : EnqueueCrawl(m, d)
  \/ \E w \in Workers : \/ \E batch \in SUBSET Ids : ReceiveBatch(w, batch)
                        \/ Step(w) \/ PublishAnswerLost(w) \/ Kill(w)
  \/ \E m \in Ids : VisibilityExpires(m)

Spec == Init /\ [][Next]_vars

(* A running invocation goes on (its HTTP calls time out), an invisible    *)
(* message reappears, one that keeps becoming visible is received.         *)
Fairness ==
  /\ \A w \in Workers : WF_vars(Step(w))
  /\ \A m \in Ids : /\ WF_vars(VisibilityExpires(m))
                    /\ SF_vars(\E w \in Workers, batch \in SUBSET Ids :
                                 m \in batch /\ ReceiveBatch(w, batch))

FairSpec == Spec /\ Fairness

-----------------------------------------------------------------------------
(* A request leaves crawl-queue for good, other than to the dead-letter    *)
(* queue, only after a crawl of it was published: no failure of a          *)
(* batch-mate, crash or overlap makes the mapping delete one that was not  *)
(* crawled.  (A message that names no domain is deleted as it is.)         *)
DeletedMeansCrawled ==
  \A m \in Ids :
    queue[m].at = "deleted" /\ request[m] \in Domains => \E c \in raw : c[1] = m

(* Every raw-fetched message refers to a crawl whose own artifacts are all *)
(* in S3: not those of an earlier receipt of the same request, whether the *)
(* call is answered, sent again or raises after it was delivered.          *)
PublishedMeansStored == raw \subseteq artifacts

(* Every request leaves the queue: "a domain whose crawl always errors     *)
(* can't block the queue" (envs/dev/main.tf).                              *)
RequestSettled ==
  \A m \in Ids : queue[m].at = "visible" ~> queue[m].at \in {"deleted", "dead"}

(* scripts/run_sqs_worker.py: lambda_handler "catches per-domain           *)
(* exceptions and never lets one bad domain fail the whole batch".  So a   *)
(* domain whose own crawl never raises does not end up dead-lettered.      *)
HealthyNeverDead ==
  \A m \in Ids : queue[m].at = "dead" /\ request[m] \in Domains => request[m] \in Raising
=============================================================================
