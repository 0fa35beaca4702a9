------------------------------- MODULE Parser -------------------------------
(***************************************************************************)
(* services/parser-service: concurrent Lambda invocations take batches of  *)
(* crawls off raw-fetched-queue, keep one row per domain in Postgres and   *)
(* publish `record-changed' when a crawl differs from the row before it    *)
(* (parser/handler.py, parser/db.py, parser/messaging.py).                 *)
(*                                                                         *)
(* A crawl's artifacts are one `signal': the value of the DIFF_FIELDS that *)
(* parsing makes of them, a value that Postgres gives back as it was put   *)
(* in (DomainRecord tells those that it does not).  The domain of a        *)
(* message that extract_message can make nothing of is `Unreadable'.  The  *)
(* messages of a batch share one connection,                               *)
(* whose transaction nobody rolls back: after a statement Postgres rejects *)
(* it refuses every later one.                                             *)
(***************************************************************************)
EXTENDS SqsQueue, FiniteSets, Sequences

CONSTANTS
  None,
  Domains,
  Unreadable,         \* stands for the domain that a message does not name
  Signals,            \* values of the DIFF_FIELDS
  FirstSignals,       \* those of the very first crawl
  Workers,            \* Lambda environments
  Pools,              \* the sets of them that the mapping may scale to
  VisibilityTimeout,  \* of raw-fetched-queue
  LambdaTimeout,      \* of the parser
  BatchSize,          \* of the event source mapping
  Faults,             \* the kinds of failure of this instance
  MaxCrawls           \* bound: crawls in a behaviour

ASSUME NoneAssumption == None \notin Domains \cup Signals
ASSUME UnreadableAssumption == Unreadable \notin Domains
ASSUME SignalsAssumption == FirstSignals \subseteq Signals
ASSUME WorkersAssumption == Workers # {} /\ None \notin Workers
ASSUME PoolsAssumption == Pools # {} /\ {} \notin Pools /\ Pools \subseteq SUBSET Workers
ASSUME NumbersAssumption ==
  /\ VisibilityTimeout \in Nat /\ LambdaTimeout \in Nat /\ BatchSize \in Nat
  /\ MaxCrawls \in Nat
ASSUME FaultsAssumption == Faults \subseteq {"artifact", "statement", "publish"}

VARIABLES
  crawls,     \* the crawls in crawled_at order; crawl i is message i;
              \* the messages that are no crawl are among them
  queue,      \* raw-fetched-queue
  rows,       \* rows[d]: the row of d in Postgres
  worker,     \* worker[w]: the invocation w is running
  announced,  \* the record-changed messages ever published
  view,       \* view[d]: what d's subscribers last heard its signal to be
  fate,       \* history: fate[m], what became of message m
  pool        \* the environments the mapping scales to, never changed

state == <<crawls, queue, rows, worker, announced, view, fate>>
vars == <<state, pool>>

Ids == 1 .. MaxCrawls
NoDLQ == 0   \* raw_fetched_queue is created without enable_dlq

NoRow == [first_seen |-> 0, last_crawled |-> 0, signal |-> None]
Row == [first_seen : Ids, last_crawled : Ids, signal : Signals]

Crawls == [domain : Domains \cup {Unreadable}, signal : Signals]
Change == [domain : Domains, crawl : Ids, old : Signals, new : Signals]

(* "next": between two messages of the batch; "dead": killed, to start anew. *)
Running == [pc : {"idle", "dead", "next", "upserting", "publishing"},
            batch : SUBSET Ids, todo : SUBSET Ids, cur : {0} \cup Ids,
            prev : Row \cup {NoRow}, broken : BOOLEAN]
Idle == [pc |-> "idle", batch |-> {}, todo |-> {}, cur |-> 0,
         prev |-> NoRow, broken |-> FALSE]
Dead == [Idle EXCEPT !.pc = "dead"]

Fates == {"none", "stored", "faulted", "unreadable"}

TypeOK ==
  /\ crawls \in Seq(Crawls) /\ Len(crawls) <= MaxCrawls
  /\ queue \in [Ids -> Message(Workers, NoDLQ)]
  /\ rows \in [Domains -> Row \cup {NoRow}]
  /\ worker \in [Workers -> Running]
  /\ announced \subseteq Change
  /\ view \in [Domains -> Signals \cup {None}]
  /\ fate \in [Ids -> Fates]
  /\ pool \in Pools

Init ==
  /\ crawls = <<>>
  /\ queue = [m \in Ids |-> Unsent(CHOOSE w \in Workers : TRUE)]
  /\ rows = [d \in Domains |-> NoRow]
  /\ worker = [w \in Workers |-> Idle]
  /\ announced = {}
  /\ view = [d \in Domains |-> None]
  /\ fate = [m \in Ids |-> "none"]
  /\ pool \in Pools

(* Invocations cannot overlap. *)
Serial == \A v, w \in pool : v = w

DomainOf(m) == crawls[m].domain
SignalOf(m) == crawls[m].signal

-----------------------------------------------------------------------------
(* crawler-service publishes one raw-fetched message per crawl; whoever    *)
(* else may send to the queue, one without a domain.                       *)
Crawl(d, v) ==
  /\ Len(crawls) < MaxCrawls
  /\ crawls' = Append(crawls, [domain |-> d, signal |-> v])
  /\ queue' = [queue EXCEPT ![Len(crawls) + 1] = Sent(@)]
  /\ UNCHANGED <<rows, worker, announced, view, fate>>

(* extract_message: the body is no JSON object, or has no domain.          *)
UsableOf(batch) == {m \in batch : DomainOf(m) # Unreadable}

Mark(ms, what) ==
  fate' = [m \in Ids |-> IF m \in ms /\ fate[m] # "stored" THEN what ELSE fate[m]]

(* The event source mapping invokes the handler.  It opens a connection    *)
(* for the messages that extract_message can read; with none there is      *)
(* nothing for it to do but return.                                        *)
ReceiveBatch(w, batch) ==
  /\ w \in pool /\ worker[w] \in {Idle, Dead}
  /\ batch # {} /\ Cardinality(batch) <= BatchSize
  /\ \A m \in batch : queue[m].at = "visible"
  /\ queue' = [m \in Ids |-> IF m \in batch THEN Received(queue[m], w, NoDLQ) ELSE queue[m]]
  /\ worker' = [worker EXCEPT ![w] = [Idle EXCEPT
                  !.pc = "next", !.batch = batch, !.todo = UsableOf(batch)]]
  /\ Mark(batch \ UsableOf(batch), "unreadable")
  /\ UNCHANGED <<crawls, rows, announced, view>>

(* A message is visible again VisibilityTimeout after its last receive.    *)
(* Its holder may still be at work then only if it may run for longer.     *)
VisibilityExpires(m) ==
  /\ queue[m].at = "inflight"
  /\ m \in worker[queue[m].holder].batch => VisibilityTimeout < LambdaTimeout
  /\ queue' = [queue EXCEPT ![m] = Reappeared(@, NoDLQ)]
  /\ UNCHANGED <<crawls, rows, worker, announced, view, fate>>

(* The batch loop goes on with the next message.                           *)
Next_(w) == [worker[w] EXCEPT !.pc = "next", !.todo = @ \ {worker[w].cur},
                              !.cur = 0, !.prev = NoRow]

(* Mutant: the change is published before the row is written. *)
FetchPreviousAndPublish(w, m) ==
  /\ worker[w].pc = "next" /\ m \in worker[w].todo
  /\ ~worker[w].broken
  /\ worker' = [worker EXCEPT ![w].pc = "upserting", ![w].cur = m,
                              ![w].prev = rows[DomainOf(m)]]
  /\ announced' = announced \cup
       {n \in {[domain |-> DomainOf(m), crawl |-> m,
                old |-> rows[DomainOf(m)].signal, new |-> SignalOf(m)]} :
          n.old \notin {None, n.new}}
  /\ UNCHANGED <<crawls, queue, rows, view, fate>>

(* process_message up to fetch_domain: the artifacts are read and parsed   *)
(* and the row before this crawl is fetched.                               *)
FetchPrevious(w, m) ==
  /\ worker[w].pc = "next" /\ m \in worker[w].todo
  /\ ~worker[w].broken
  /\ worker' = [worker EXCEPT ![w].pc = "upserting", ![w].cur = m,
                              ![w].prev = rows[DomainOf(m)]]
  /\ UNCHANGED <<crawls, queue, rows, announced, view, fate>>

(* Mutants: the try is around the loop; the except clause raises again. *)
ArtifactRaisesOutOfLoop(w, m) ==
  /\ "artifact" \in Faults
  /\ worker[w].pc = "next" /\ m \in worker[w].todo
  /\ worker' = [worker EXCEPT ![w].todo = {}]
  /\ Mark({m}, "faulted")
  /\ UNCHANGED <<crawls, queue, rows, announced, view>>

ArtifactRaisesAgain(w, m) ==
  /\ "artifact" \in Faults
  /\ worker[w].pc = "next" /\ m \in worker[w].todo
  /\ worker' = [worker EXCEPT ![w] = Idle]
  /\ Mark({m}, "faulted")
  /\ UNCHANGED <<crawls, queue, rows, announced, view>>

(* An artifact cannot be read, or parsing it raises.                       *)
ArtifactRaises(w, m) ==
  /\ "artifact" \in Faults
  /\ worker[w].pc = "next" /\ m \in worker[w].todo
  /\ worker' = [worker EXCEPT ![w].todo = @ \ {m}]
  /\ Mark({m}, "faulted")
  /\ UNCHANGED <<crawls, queue, rows, announced, view>>

(* The connection is broken already: fetch_domain raises.                  *)
ConnectionRefuses(w, m) ==
  /\ worker[w].pc = "next" /\ m \in worker[w].todo
  /\ worker[w].broken
  /\ worker' = [worker EXCEPT ![w].todo = @ \ {m}]
  /\ Mark({m}, "faulted")
  /\ UNCHANGED <<crawls, queue, rows, announced, view>>

(* Mutant: no `previous is None' case. *)
ChangedFromNothing(prev, signal) == prev.signal # signal

(* diff_records is not empty: a first crawl is no change.                  *)
Changed(prev, signal) == prev # NoRow /\ prev.signal # signal

(* build_domain_record carries first_seen_at over from the row it fetched. *)
Record(m, prev) ==
  [first_seen   |-> IF prev = NoRow THEN m ELSE prev.first_seen,
   last_crawled |-> m, signal |-> SignalOf(m)]

(* Mutant: every column is updated on conflict. *)
UpsertedAllColumns(row, record) == record

(* INSERT ... ON CONFLICT DO UPDATE keeps first_seen_at as well.           *)
Upserted(row, record) ==
  IF row = NoRow THEN record ELSE [record EXCEPT !.first_seen = row.first_seen]

(* upsert_domain: the statement and its commit.                            *)
Upsert(w) ==
  LET m == worker[w].cur
      d == DomainOf(m)
      v == SignalOf(m)
  IN /\ worker[w].pc = "upserting"
     /\ rows' = [rows EXCEPT ![d] = Upserted(@, Record(m, worker[w].prev))]
     /\ worker' = [worker EXCEPT ![w] = IF Changed(@.prev, v)
                                        THEN [@ EXCEPT !.pc = "publishing"]
                                        ELSE Next_(w)]
     /\ view' = IF rows[d] = NoRow THEN [view EXCEPT ![d] = v] ELSE view
     /\ Mark({m}, "stored")
     /\ UNCHANGED <<crawls, queue, announced>>

(* Postgres rejects a statement of this message, which leaves the          *)
(* transaction aborted: nothing calls rollback.                            *)
StatementFails(w) ==
  /\ "statement" \in Faults
  /\ worker[w].pc = "upserting"
  /\ worker' = [worker EXCEPT ![w] = [Next_(w) EXCEPT !.broken = TRUE]]
  /\ Mark({worker[w].cur}, "faulted")
  /\ UNCHANGED <<crawls, queue, rows, announced, view>>

(* Mutant: old and new are swapped. *)
AnnouncementSwapped(w) ==
  [domain |-> DomainOf(worker[w].cur), crawl |-> worker[w].cur,
   new |-> worker[w].prev.signal, old |-> SignalOf(worker[w].cur)]

Announcement(w) ==
  [domain |-> DomainOf(worker[w].cur), crawl |-> worker[w].cur,
   old |-> worker[w].prev.signal, new |-> SignalOf(worker[w].cur)]

(* publish_record_changed; the same when the answer of send_message is     *)
(* lost, for the loop goes on, and when botocore sends again.              *)
Publish(w) ==
  /\ worker[w].pc = "publishing"
  /\ announced' = announced \cup {Announcement(w)}
  /\ view' = [view EXCEPT ![Announcement(w).domain] = Announcement(w).new]
  /\ worker' = [worker EXCEPT ![w] = Next_(w)]
  /\ UNCHANGED <<crawls, queue, rows, fate>>

PublishFails(w) ==
  /\ "publish" \in Faults
  /\ worker[w].pc = "publishing"
  /\ worker' = [worker EXCEPT ![w] = Next_(w)]
  /\ UNCHANGED <<crawls, queue, rows, announced, view, fate>>

(* lambda_handler returns normally, whatever the messages' own outcomes:   *)
(* the mapping deletes the whole batch.                                    *)
Return(w) ==
  /\ worker[w].pc = "next" /\ worker[w].todo = {}
  /\ \E gone \in MayDelete(queue, worker[w].batch, w) : queue' = DeleteAll(queue, gone)
  /\ worker' = [worker EXCEPT ![w] = Idle]
  /\ UNCHANGED <<crawls, rows, announced, view, fate>>

(* The invocation times out or crashes, or get_connection raises: the      *)
(* whole batch stays in the queue.                                         *)
Kill(w) ==
  /\ worker[w] \notin {Idle, Dead}
  /\ worker' = [worker EXCEPT ![w] = Dead]
  /\ UNCHANGED <<crawls, queue, rows, announced, view, fate>>

(* FirstSignals is Signals; as these are interchangeable, one will do.     *)
Crawled == IF crawls = <<>> THEN FirstSignals ELSE Signals

Step(w) ==
  \/ \E m \in Ids : FetchPrevious(w, m) \/ ArtifactRaises(w, m) \/ ConnectionRefuses(w, m)
  \/ Upsert(w) \/ StatementFails(w)
  \/ Publish(w) \/ PublishFails(w)
  \/ Return(w)

Next ==
  /\ \/ \E d \in Domains, v \in Crawled : Crawl(d, v)
     \/ \E v \in FirstSignals : Crawl(Unreadable, v)
     \/ \E w \in Workers : \/ \E batch \in SUBSET Ids : ReceiveBatch(w, batch)
                           \/ Step(w) \/ Kill(w)
     \/ \E m \in Ids : VisibilityExpires(m)
  /\ UNCHANGED pool

Spec == Init /\ [][Next]_vars

(* A running invocation goes on, an invisible message reappears, and a     *)
(* message that is visible again and again is received again.  Invocations *)
(* are not killed for ever.  Nothing makes crawls happen.                  *)
Fairness ==
  /\ \A w \in Workers : WF_state(Step(w)) /\ <>[][~Kill(w)]_vars
  /\ \A m \in Ids : /\ WF_state(VisibilityExpires(m))
                    /\ SF_state(\E w \in Workers, batch \in SUBSET Ids :
                                  m \in batch /\ ReceiveBatch(w, batch))

FairSpec == Spec /\ Fairness

-----------------------------------------------------------------------------
(* first_seen_at never changes once a domain has a row, although two       *)
(* invocations may both find no row before them.                           *)
FirstSeenStable ==
  [][\A d \in Domains :
       rows[d] # NoRow => rows'[d].first_seen = rows[d].first_seen]_vars

(* A subscriber is only told of a change between two different signals     *)
(* that the domain's row really had, the new one from the crawl that was   *)
(* committed: never of a first crawl, and never ahead of the commit.       *)
ReportedChangeIsReal ==
  \A n \in announced :
    /\ n.old # n.new
    /\ fate[n.crawl] = "stored" /\ SignalOf(n.crawl) = n.new
    /\ \E m \in Ids : /\ fate[m] = "stored"
                     /\ DomainOf(m) = n.domain /\ SignalOf(m) = n.old

(* A crawl leaves raw-fetched-queue, which has no dead-letter queue, only  *)
(* after its own turn in a batch: no kill and no failure of another        *)
(* message drops one that was never looked at.                             *)
NothingDroppedUnseen ==
  \A m \in Ids : queue[m].at = "deleted" => fate[m] # "none"

(* While invocations do not overlap, every crawl is handled in the end: a  *)
(* message that cannot be processed does not circulate in                  *)
(* raw-fetched-queue for ever.                                             *)
EventuallyHandled ==
  \A m \in Ids : Serial /\ queue[m].at = "visible" ~> queue[m].at = "deleted"

AtRest == \A w \in Workers : worker[w] \in {Idle, Dead}

(* process_message's docstring: "publish `record-changed` if anything      *)
(* meaningful changed".  With every crawl handled, what subscribers last   *)
(* heard of a domain is what its row says.                                 *)
FeedReflectsRows ==
  AtRest /\ (\A m \in Ids : queue[m].at \in {"unsent", "deleted"})
    => \A d \in Domains : view[d] = rows[d].signal

-----------------------------------------------------------------------------
(* A change is owed from the commit of the row to its publish.  Nothing is *)
(* promised of overlapping invocations.                                    *)
Owed == {<<Announcement(w).domain, Announcement(w).old, Announcement(w).new>> :
           w \in {v \in Workers : worker[v].pc = "publishing"}}
NoSignal == [d \in Domains |-> None]

Feed == INSTANCE ChangeFeed WITH
  signal <- IF Serial THEN [d \in Domains |-> rows[d].signal] ELSE NoSignal,
  told   <- IF Serial THEN view ELSE NoSignal,
  owed   <- IF Serial THEN Owed ELSE {}

(* One invocation at a time, with crawls in any order, failures and kills  *)
(* anywhere, is a ChangeFeed: what is published always follows the row.    *)
FeedRefined == Feed!Spec
=============================================================================
