---------------------------- MODULE ParserProofs ----------------------------
(***************************************************************************)
(* Theorems about Parser: for any number of crawls, domains, signals and   *)
(* invocations, batches of any size, every kind of failure, kills anywhere *)
(* and messages that reappear under a running invocation.                  *)
(***************************************************************************)
EXTENDS Parser, TLAPS

-----------------------------------------------------------------------------
(* The inductive invariant.  Its core is what the rows, the announcements  *)
(* and the fetched rows of running invocations have in common: each names  *)
(* a crawl of the same domain that was stored.                             *)
Known == 1 .. Len(crawls)
Usable == UsableOf(Known)

StoredCrawl(d, v) ==
  \E m \in Known : fate[m] = "stored" /\ DomainOf(m) = d /\ SignalOf(m) = v

(* An invocation drops a message from its todo list only when the message  *)
(* had its turn, and publishes only what it stored, against a row that was *)
(* there.                                                                  *)
Invocation(w) ==
  LET r == worker[w]
  IN /\ r \in {Idle, Dead} \/ (w \in pool /\ r.pc \in {"next", "upserting", "publishing"})
     /\ r.batch \subseteq Known /\ r.todo \subseteq r.batch /\ r.todo \subseteq Usable
     /\ \A m \in r.batch \ r.todo : fate[m] # "none"
     /\ r.pc \in {"upserting", "publishing"} =>
          /\ r.cur \in Usable
          /\ r.prev # NoRow => StoredCrawl(DomainOf(r.cur), r.prev.signal)
     /\ r.pc = "publishing" =>
          fate[r.cur] = "stored" /\ Changed(r.prev, SignalOf(r.cur))

RowsReal ==
  \A d \in Domains : rows[d] # NoRow => StoredCrawl(d, rows[d].signal)

SentAreKnown ==
  \A m \in Ids : queue[m].at # "unsent" => m \in Known

(* ReportedChangeIsReal, of crawls that took place.                        *)
RealChange(n) ==
  /\ n.old # n.new
  /\ n.crawl \in Known /\ fate[n.crawl] = "stored" /\ SignalOf(n.crawl) = n.new
  /\ StoredCrawl(n.domain, n.old)

AnnouncedReal == \A n \in announced : RealChange(n)

(* With one invocation at a time, the row it fetched is still the row.     *)
PreviousIsRow ==
  Serial => \A w \in Workers :
    worker[w].pc = "upserting" => worker[w].prev = rows[DomainOf(worker[w].cur)]

IInv ==
  /\ TypeOK
  /\ \A w \in Workers : Invocation(w)
  /\ RowsReal
  /\ SentAreKnown
  /\ AnnouncedReal
  /\ NothingDroppedUnseen
  /\ PreviousIsRow

(* What no step takes back: a crawl, and what became of its message.       *)
HistoryKept ==
  /\ \A m \in Known : m \in Known' /\ crawls'[m] = crawls[m]
  /\ \A m \in Ids : /\ fate[m] = "stored" => fate'[m] = "stored"
                    /\ fate[m] # "none" => fate'[m] # "none"

-----------------------------------------------------------------------------
(* Facts about the data.                                                   *)
LEMMA AtRestRecords ==
  /\ Idle \in Running /\ Dead \in Running
  /\ Idle.pc = "idle" /\ Idle.batch = {} /\ Idle.todo = {} /\ Idle.cur = 0
  /\ Dead.pc = "dead" /\ Dead.batch = {} /\ Dead.todo = {} /\ Dead.cur = 0
<1>1. Idle \in Running /\ Idle.pc = "idle" /\ Idle.batch = {} /\ Idle.todo = {} /\ Idle.cur = 0
  BY DEF Idle, Running
<1>2. Dead \in Running /\ Dead.pc = "dead" /\ Dead.batch = {} /\ Dead.todo = {} /\ Dead.cur = 0
  BY <1>1 DEF Dead, Running
<1>3. QED  BY <1>1, <1>2

LEMMA NoRowIsNone ==
  /\ NoRow \notin Row /\ NoRow.signal = None
  /\ \A row \in Row \cup {NoRow} : row.signal = None <=> row = NoRow
<1>1. 0 \notin Ids /\ NoRow.signal = None /\ NoRow.first_seen = 0
  BY DEF Ids, NoRow
<1>2. \A row \in Row : row.first_seen \in Ids /\ row.signal \in Signals
  BY DEF Row
<1>3. QED  BY <1>1, <1>2, NoneAssumption

LEMMA KnownCrawls ==
  ASSUME TypeOK
  PROVE  /\ Known \subseteq Ids /\ 0 \notin Known
         /\ \A m \in Known : SignalOf(m) \in Signals
         /\ Usable \subseteq Known /\ \A m \in Usable : DomainOf(m) \in Domains
<1>1. /\ crawls \in Seq(Crawls) /\ Len(crawls) <= MaxCrawls
      /\ MaxCrawls \in Nat
  BY NumbersAssumption DEF TypeOK
<1>2. \A m \in Known : crawls[m] \in Crawls
  BY <1>1 DEF Known
<1>3. \A m \in Known : DomainOf(m) \in Domains \cup {Unreadable} /\ SignalOf(m) \in Signals
  BY <1>2 DEF DomainOf, SignalOf, Crawls
<1>4. Usable \subseteq Known /\ \A m \in Usable : DomainOf(m) \in Domains
  BY <1>3 DEF Usable, UsableOf
<1>5. QED  BY <1>1, <1>3, <1>4 DEF Known, Ids

(* Marking messages takes nothing back.                                    *)
LEMMA MarkKeeps ==
  ASSUME TypeOK, NEW ms \in SUBSET Ids, NEW what \in Fates \ {"none"}, Mark(ms, what),
         UNCHANGED crawls
  PROVE  /\ fate' \in [Ids -> Fates] /\ HistoryKept
         /\ \A m \in ms : fate'[m] # "none" /\ (what = "stored" => fate'[m] = "stored")
<1>1. fate \in [Ids -> Fates]
  BY DEF TypeOK
<1>2. \A n \in Ids : fate'[n] = IF n \in ms /\ fate[n] # "stored" THEN what ELSE fate[n]
  BY <1>1 DEF Mark
<1>3. fate' \in [Ids -> Fates]
  BY <1>1, <1>2 DEF Mark, Fates
<1>4. HistoryKept
  BY <1>2 DEF HistoryKept, Known
<1>5. QED  BY <1>2, <1>3, <1>4

LEMMA NothingMarked ==
  ASSUME UNCHANGED <<crawls, fate>>
  PROVE  HistoryKept
BY DEF HistoryKept, Known

(* What was stored stays stored.                                           *)
LEMMA StoredKept ==
  ASSUME TypeOK, HistoryKept, NEW d, NEW v, StoredCrawl(d, v)
  PROVE  StoredCrawl(d, v)'
<1>1. PICK m \in Known : fate[m] = "stored" /\ DomainOf(m) = d /\ SignalOf(m) = v
  BY DEF StoredCrawl
<1>2. m \in Known' /\ crawls'[m] = crawls[m] /\ fate'[m] = "stored"
  BY <1>1, KnownCrawls DEF HistoryKept
<1>3. QED  BY <1>1, <1>2 DEF StoredCrawl, DomainOf, SignalOf

LEMMA KnownKept ==
  ASSUME HistoryKept, NEW m \in Known
  PROVE  m \in Known' /\ DomainOf(m)' = DomainOf(m) /\ SignalOf(m)' = SignalOf(m)
BY DEF HistoryKept, DomainOf, SignalOf

LEMMA UsableKept ==
  ASSUME HistoryKept
  PROVE  Usable \subseteq Usable'
BY KnownKept DEF Usable, UsableOf

(* Whoever does not move keeps its part of the invariant.                  *)
LEMMA InvocationKept ==
  ASSUME TypeOK, HistoryKept, UNCHANGED pool,
         NEW w \in Workers, worker'[w] = worker[w], Invocation(w)
  PROVE  Invocation(w)'
<1> DEFINE r == worker[w]
<1>1. r \in Running
  BY DEF TypeOK
<1>2. r.batch \subseteq Known' /\ r.todo \subseteq Usable'
  BY UsableKept DEF Invocation, HistoryKept
<1>3. \A m \in r.batch \ r.todo : fate'[m] # "none"
  BY KnownCrawls DEF Invocation, HistoryKept
<1>4. ASSUME r.pc \in {"upserting", "publishing"}
      PROVE  /\ r.cur \in Usable'
             /\ r.prev # NoRow => StoredCrawl(DomainOf(r.cur), r.prev.signal)'
  <2>1. r.cur \in Usable /\ (r.prev # NoRow => StoredCrawl(DomainOf(r.cur), r.prev.signal))
    BY <1>4 DEF Invocation
  <2>2. PICK m \in Known : m = r.cur
    BY <2>1, KnownCrawls
  <2>3. PICK d, v : d = DomainOf(m) /\ v = r.prev.signal
    OBVIOUS
  <2>4. m \in Usable' /\ DomainOf(m)' = d
    BY <2>1, <2>2, <2>3, KnownKept, UsableKept
  <2>5. StoredCrawl(d, v) => StoredCrawl(d, v)'
    BY StoredKept
  <2>6. QED  BY <2>1, <2>2, <2>3, <2>4, <2>5
<1>5. ASSUME r.pc = "publishing"
      PROVE  fate'[r.cur] = "stored" /\ Changed(r.prev, SignalOf(r.cur))'
  <2>1. r.cur \in Known /\ fate[r.cur] = "stored" /\ Changed(r.prev, SignalOf(r.cur))
    BY <1>5, KnownCrawls DEF Invocation
  <2>2. PICK m \in Known : m = r.cur
    BY <2>1
  <2>3. SignalOf(m)' = SignalOf(m) /\ fate'[m] = "stored"
    BY <2>1, <2>2, KnownKept, KnownCrawls DEF HistoryKept
  <2>4. QED  BY <2>1, <2>2, <2>3 DEF Changed
<1>6. QED  BY <1>2, <1>3, <1>4, <1>5 DEF Invocation

LEMMA RowsKept ==
  ASSUME TypeOK, HistoryKept, RowsReal, UNCHANGED rows
  PROVE  RowsReal'
BY StoredKept DEF RowsReal

LEMMA AnnouncedKept ==
  ASSUME TypeOK, HistoryKept, AnnouncedReal,
         \A n \in announced' : n \in announced \/ RealChange(n)'
  PROVE  AnnouncedReal'
<1> SUFFICES ASSUME NEW n \in announced
             PROVE  RealChange(n)'
  BY DEF AnnouncedReal
<1>1. /\ n.old # n.new /\ n.crawl \in Known /\ fate[n.crawl] = "stored"
      /\ SignalOf(n.crawl) = n.new /\ StoredCrawl(n.domain, n.old)
  BY DEF AnnouncedReal, RealChange
<1>2. n.crawl \in Known' /\ SignalOf(n.crawl)' = n.new /\ fate'[n.crawl] = "stored"
  BY <1>1, KnownKept, KnownCrawls DEF HistoryKept
<1>3. StoredCrawl(n.domain, n.old)'
  BY <1>1, StoredKept
<1>4. QED  BY <1>1, <1>2, <1>3 DEF RealChange

-----------------------------------------------------------------------------
ViewTypeOK == view \in [Domains -> Signals \cup {None}]

(* A step of invocation w that writes no row: what it makes of its own     *)
(* record, of the queue and of the announcements decides.                  *)
LEMMA InvocationMoves ==
  ASSUME IInv, HistoryKept, NEW w \in Workers, NEW new \in Running,
         worker' = [worker EXCEPT ![w] = new],
         UNCHANGED <<crawls, rows, pool>>, UNCHANGED view \/ ViewTypeOK',
         \A n \in announced' : n \in announced \/ (n \in Change /\ RealChange(n)'),
         fate' \in [Ids -> Fates],
         queue' \in [Ids -> Message(Workers, NoDLQ)],
         \A m \in Ids : /\ queue'[m].at # "unsent" => queue[m].at # "unsent" \/ m \in Known
                        /\ queue'[m].at = "deleted" => queue[m].at = "deleted" \/ fate'[m] # "none",
         new \in {Idle, Dead} \/ (w \in pool /\ new.pc \in {"next", "upserting"}),
         new.batch \subseteq Known, new.todo \subseteq new.batch, new.todo \subseteq Usable,
         \A m \in new.batch \ new.todo : fate'[m] # "none",
         new.pc = "upserting" => new.cur \in Usable /\ new.prev = rows[DomainOf(new.cur)]
  PROVE  IInv'
<1>1. /\ TypeOK /\ \A v \in Workers : Invocation(v)
      /\ RowsReal /\ SentAreKnown /\ AnnouncedReal /\ NothingDroppedUnseen /\ PreviousIsRow
  BY DEF IInv
<1>2. worker \in [Workers -> Running]
  BY <1>1 DEF TypeOK
<1>3. worker'[w] = new /\ \A v \in Workers : v # w => worker'[v] = worker[v]
  BY <1>2
<1>4. Known' = Known /\ Usable' = Usable /\ \A m : DomainOf(m)' = DomainOf(m)
  BY DEF Known, Usable, UsableOf, DomainOf
<1>5. TypeOK'
  BY <1>1, <1>2 DEF TypeOK, ViewTypeOK
<1>6. Invocation(w)'
  <2>1. new.pc # "publishing"
    BY AtRestRecords
  <2>2. ASSUME new.pc = "upserting", new.prev # NoRow
        PROVE  StoredCrawl(DomainOf(new.cur), new.prev.signal)'
    <3>1. PICK m \in Usable : m = new.cur
      BY <2>2
    <3>2. PICK d, v : d = DomainOf(m) /\ v = new.prev.signal
      OBVIOUS
    <3>3. StoredCrawl(d, v)
      BY <1>1, <2>2, <3>1, <3>2, KnownCrawls DEF RowsReal
    <3>4. StoredCrawl(d, v)'
      BY <1>1, <3>3, StoredKept
    <3>5. DomainOf(m)' = d
      BY <1>4, <3>2
    <3>6. QED  BY <3>1, <3>2, <3>4, <3>5
  <2>3. QED  BY <1>3, <1>4, <2>1, <2>2 DEF Invocation
<1>7. \A v \in Workers : Invocation(v)'
  BY <1>1, <1>3, <1>6, InvocationKept
<1>8. RowsReal' /\ AnnouncedReal'
  BY <1>1, RowsKept, AnnouncedKept
<1>9. SentAreKnown'
  BY <1>1, <1>4 DEF SentAreKnown
<1>10. NothingDroppedUnseen'
  BY <1>1 DEF NothingDroppedUnseen, HistoryKept
<1>11. PreviousIsRow'
  BY <1>1, <1>3, <1>4 DEF PreviousIsRow, Serial
<1>12. QED  BY <1>5, <1>7, <1>8, <1>9, <1>10, <1>11 DEF IInv

(* The batch loop goes on, perhaps with a broken connection: the message   *)
(* in hand had its turn.                                                   *)
LEMMA LoopGoesOn ==
  ASSUME IInv, NEW w \in Workers, worker[w].pc \in {"next", "upserting", "publishing"},
         NEW done \in SUBSET Known, NEW new \in Running,
         new.pc = "next", new.batch = worker[w].batch, new.todo = worker[w].todo \ done,
         worker' = [worker EXCEPT ![w] = new],
         UNCHANGED <<crawls, queue, rows, pool>>, UNCHANGED view \/ ViewTypeOK',
         \A n \in announced' : n \in announced \/ (n \in Change /\ RealChange(n)'),
         HistoryKept, fate' \in [Ids -> Fates], \A m \in done : fate'[m] # "none"
  PROVE  IInv'
<1>1. /\ TypeOK /\ Invocation(w) /\ Known \subseteq Ids
  BY KnownCrawls DEF IInv
<1>2. /\ w \in pool /\ new.batch \subseteq Known
      /\ new.todo \subseteq new.batch /\ new.todo \subseteq Usable
  BY <1>1, AtRestRecords DEF Invocation
<1>3. \A m \in new.batch \ new.todo : fate'[m] # "none"
  BY <1>1 DEF Invocation, HistoryKept
<1>4. queue' \in [Ids -> Message(Workers, NoDLQ)]
  BY <1>1 DEF TypeOK
<1>5. QED  BY <1>2, <1>3, <1>4, InvocationMoves

-----------------------------------------------------------------------------
(* The queue's side.                                                       *)
LEMMA CrawlKeeps ==
  ASSUME IInv, NEW d \in Domains \cup {Unreadable}, NEW v \in Signals, Crawl(d, v),
         UNCHANGED pool
  PROVE  IInv'
<1> DEFINE new == [domain |-> d, signal |-> v]
           n == Len(crawls) + 1
<1>1. /\ TypeOK /\ \A w \in Workers : Invocation(w)
      /\ RowsReal /\ SentAreKnown /\ AnnouncedReal /\ NothingDroppedUnseen /\ PreviousIsRow
  BY DEF IInv
<1>2. /\ crawls' = Append(crawls, new) /\ n \in Ids
      /\ queue' = [queue EXCEPT ![n] = Sent(queue[n])]
      /\ UNCHANGED <<rows, worker, announced, view, fate, pool>>
  <2>1. Len(crawls) \in Nat /\ MaxCrawls \in Nat /\ Len(crawls) < MaxCrawls
    BY <1>1, NumbersAssumption DEF TypeOK, Crawl
  <2>2. QED  BY <2>1 DEF Crawl, Ids
<1>3. /\ crawls' \in Seq(Crawls) /\ Len(crawls') = n
      /\ n <= MaxCrawls
      /\ \A m \in Known : crawls'[m] = crawls[m]
  <2>2. crawls \in Seq(Crawls) /\ new \in Crawls
    BY <1>1 DEF TypeOK, Crawls
  <2> HIDE DEF new
  <2>3. crawls' \in Seq(Crawls) /\ Len(crawls') = Len(crawls) + 1
        /\ \A m \in 1 .. Len(crawls) : crawls'[m] = crawls[m]
    BY <1>2, <2>2
  <2>4. n <= MaxCrawls
    BY <1>2, NumbersAssumption DEF Ids
  <2>5. QED  BY <2>3, <2>4 DEF Known
<1> HIDE DEF new
<1>4. Known' = 1 .. n /\ Len(crawls) \in Nat
  BY <1>1, <1>3 DEF Known, TypeOK
<1>5. HistoryKept
  BY <1>2, <1>3, <1>4 DEF HistoryKept, Known
<1>6. /\ queue' \in [Ids -> Message(Workers, NoDLQ)]
      /\ queue'[n].at = "visible" /\ \A m \in Ids : m # n => queue'[m] = queue[m]
  <2>1. queue \in [Ids -> Message(Workers, NoDLQ)] /\ queue[n] \in Message(Workers, NoDLQ)
    BY <1>1, <1>2 DEF TypeOK
  <2>2. Sent(queue[n]) \in Message(Workers, NoDLQ) /\ Sent(queue[n]).at = "visible"
    BY <2>1 DEF Sent, Message
  <2>3. QED  BY <1>2, <2>1, <2>2
<1>7. TypeOK'
  BY <1>1, <1>2, <1>3, <1>6 DEF TypeOK
<1>8. \A w \in Workers : Invocation(w)'
  BY <1>1, <1>2, <1>5, InvocationKept
<1>9. RowsReal' /\ AnnouncedReal'
  BY <1>1, <1>2, <1>5, RowsKept, AnnouncedKept
<1>10. SentAreKnown'
  <2>1. \A m \in Known : m \in Known'
    BY <1>5 DEF HistoryKept
  <2>2. n \in Known'
    BY <1>4
  <2>3. QED  BY <1>1, <1>6, <2>1, <2>2 DEF SentAreKnown
<1>11. NothingDroppedUnseen'
  BY <1>1, <1>2, <1>6 DEF NothingDroppedUnseen
<1>12. PreviousIsRow'
  <2> SUFFICES ASSUME Serial, NEW w \in Workers, worker[w].pc = "upserting"
               PROVE  worker[w].prev = rows[DomainOf(worker[w].cur)']
    BY <1>2 DEF PreviousIsRow, Serial, DomainOf
  <2>1. worker[w].cur \in Known /\ worker[w].prev = rows[DomainOf(worker[w].cur)]
    BY <1>1, KnownCrawls DEF PreviousIsRow, Invocation
  <2>2. crawls'[worker[w].cur] = crawls[worker[w].cur]
    BY <1>3, <2>1
  <2>3. QED  BY <1>2, <2>1, <2>2 DEF DomainOf
<1>13. QED  BY <1>7, <1>8, <1>9, <1>10, <1>11, <1>12 DEF IInv

LEMMA ExpiryKeeps ==
  ASSUME IInv, NEW m \in Ids, VisibilityExpires(m), UNCHANGED pool
  PROVE  IInv'
<1>1. /\ TypeOK /\ \A w \in Workers : Invocation(w)
      /\ RowsReal /\ SentAreKnown /\ AnnouncedReal /\ NothingDroppedUnseen /\ PreviousIsRow
  BY DEF IInv
<1>2. /\ queue[m].at = "inflight" /\ queue' = [queue EXCEPT ![m] = Reappeared(queue[m], NoDLQ)]
      /\ UNCHANGED <<crawls, rows, worker, announced, view, fate, pool>>
  BY DEF VisibilityExpires
<1>3. HistoryKept
  BY <1>2, NothingMarked
<1>4. /\ queue' \in [Ids -> Message(Workers, NoDLQ)]
      /\ queue'[m].at = "visible" /\ \A n \in Ids : n # m => queue'[n] = queue[n]
  <2>1. queue \in [Ids -> Message(Workers, NoDLQ)] /\ queue[m] \in Message(Workers, NoDLQ)
    BY <1>1 DEF TypeOK
  <2>2. /\ Reappeared(queue[m], NoDLQ) \in Message(Workers, NoDLQ)
        /\ Reappeared(queue[m], NoDLQ).at = "visible"
    BY <2>1 DEF Reappeared, Message, NoDLQ
  <2>3. QED  BY <1>2, <2>1, <2>2
<1>5. TypeOK'
  BY <1>1, <1>2, <1>4 DEF TypeOK
<1>6. \A w \in Workers : Invocation(w)'
  BY <1>1, <1>2, <1>3, InvocationKept
<1>7. RowsReal' /\ AnnouncedReal'
  BY <1>1, <1>2, <1>3, RowsKept, AnnouncedKept
<1>8. SentAreKnown'
  <2>1. Known' = Known
    BY <1>2 DEF Known
  <2>2. QED  BY <1>1, <1>2, <1>4, <2>1 DEF SentAreKnown
<1>9. NothingDroppedUnseen'
  BY <1>1, <1>2, <1>4 DEF NothingDroppedUnseen
<1>10. PreviousIsRow'
  BY <1>1, <1>2 DEF PreviousIsRow, Serial, DomainOf
<1>11. QED  BY <1>5, <1>6, <1>7, <1>8, <1>9, <1>10 DEF IInv

LEMMA ReceiveKeeps ==
  ASSUME IInv, NEW w \in Workers, NEW batch \in SUBSET Ids, ReceiveBatch(w, batch),
         UNCHANGED pool
  PROVE  IInv'
<1> DEFINE started == [Idle EXCEPT !.pc = "next"]
           holding == [started EXCEPT !.batch = batch]
           new == [holding EXCEPT !.todo = UsableOf(batch)]
<1>1. /\ w \in pool /\ worker' = [worker EXCEPT ![w] = new]
      /\ queue' = [m \in Ids |-> IF m \in batch THEN Received(queue[m], w, NoDLQ) ELSE queue[m]]
      /\ \A m \in batch : queue[m].at = "visible"
      /\ Mark(batch \ UsableOf(batch), "unreadable")
      /\ UNCHANGED <<crawls, rows, announced, view>>
  BY DEF ReceiveBatch
<1>2. /\ new \in Running /\ new.pc = "next" /\ new.batch = batch /\ new.todo = UsableOf(batch)
  <2>1. started \in Running /\ started.pc = "next"
    BY AtRestRecords DEF Running
  <2> HIDE DEF started
  <2>2. holding \in Running /\ holding.pc = "next" /\ holding.batch = batch
    BY <2>1 DEF Running
  <2> HIDE DEF holding
  <2>3. UsableOf(batch) \subseteq Ids
    BY DEF UsableOf
  <2>4. QED  BY <2>2, <2>3 DEF Running
<1> HIDE DEF new
<1>3. HistoryKept /\ fate' \in [Ids -> Fates]
      /\ \A m \in batch \ UsableOf(batch) : fate'[m] # "none"
  <2>1. batch \ UsableOf(batch) \in SUBSET Ids /\ "unreadable" \in Fates \ {"none"}
    BY DEF Fates
  <2>2. QED  BY <1>1, <2>1, MarkKeeps DEF IInv
<1>4. ASSUME NEW m \in Ids
      PROVE  /\ queue'[m] \in Message(Workers, NoDLQ)
             /\ queue'[m].at # "unsent" => queue[m].at # "unsent"
             /\ queue'[m].at = "deleted" => queue[m].at = "deleted"
  <2>1. queue[m] \in Message(Workers, NoDLQ)
    BY DEF IInv, TypeOK
  <2>2. /\ Received(queue[m], w, NoDLQ) \in Message(Workers, NoDLQ)
        /\ Received(queue[m], w, NoDLQ).at = "inflight"
    BY <2>1 DEF Received, Message, NoDLQ
  <2>3. QED  BY <1>1, <2>1, <2>2
<1>5. queue' \in [Ids -> Message(Workers, NoDLQ)]
  BY <1>1, <1>4
<1>6. batch \subseteq Known
  BY <1>1 DEF IInv, SentAreKnown
<1>7. UsableOf(batch) \subseteq batch /\ UsableOf(batch) \subseteq Usable
  BY <1>6 DEF UsableOf, Usable
<1>8. QED  BY <1>1, <1>2, <1>3, <1>4, <1>5, <1>6, <1>7, InvocationMoves

(* The whole batch has had its turn.                                       *)
LEMMA ReturnKeeps ==
  ASSUME IInv, NEW w \in Workers, Return(w), UNCHANGED pool
  PROVE  IInv'
<1> DEFINE batch == worker[w].batch
<1>1. /\ worker[w].todo = {} /\ worker' = [worker EXCEPT ![w] = Idle]
      /\ UNCHANGED <<crawls, rows, announced, view, fate>>
  BY DEF Return
<1>2. PICK gone \in MayDelete(queue, batch, w) : queue' = DeleteAll(queue, gone)
  BY DEF Return
<1>3. /\ TypeOK /\ batch \subseteq Known /\ batch \subseteq Ids
      /\ \A m \in batch : fate[m] # "none"
  BY <1>1, KnownCrawls DEF IInv, Invocation
<1>4. queue \in [Ids -> Message(Workers, NoDLQ)]
  BY <1>3 DEF TypeOK
<1> HIDE DEF batch
<1>5. gone \subseteq batch /\ DOMAIN queue = Ids
  BY <1>4 DEF MayDelete
<1>6. queue' = [m \in Ids |-> IF m \in gone THEN Deleted(queue[m]) ELSE queue[m]]
  BY <1>2, <1>5 DEF DeleteAll
<1>7. \A m \in Ids : /\ Deleted(queue[m]) \in Message(Workers, NoDLQ)
                     /\ Deleted(queue[m]).at = "deleted"
  BY <1>4 DEF Deleted, Message
<1>8. HistoryKept /\ fate' \in [Ids -> Fates]
  BY <1>1, <1>3, NothingMarked DEF TypeOK
<1>9. \A m \in Ids : m \notin batch => queue'[m] = queue[m]
  BY <1>5, <1>6
<1>10. queue' \in [Ids -> Message(Workers, NoDLQ)]
  BY <1>4, <1>6, <1>7
<1>11. QED  BY <1>1, <1>3, <1>8, <1>9, <1>10, AtRestRecords, InvocationMoves

LEMMA KillKeeps ==
  ASSUME IInv, NEW w \in Workers, Kill(w), UNCHANGED pool
  PROVE  IInv'
<1>1. /\ worker' = [worker EXCEPT ![w] = Dead]
      /\ UNCHANGED <<crawls, queue, rows, announced, view, fate>>
  BY DEF Kill
<1>2. HistoryKept /\ fate' \in [Ids -> Fates] /\ queue' \in [Ids -> Message(Workers, NoDLQ)]
  BY <1>1, NothingMarked DEF IInv, TypeOK
<1>3. QED  BY <1>1, <1>2, AtRestRecords, InvocationMoves

-----------------------------------------------------------------------------
(* The batch loop.                                                         *)

(* The record of a loop that goes on with the next message.                *)
LEMMA NextRecord ==
  ASSUME TypeOK, NEW w \in Workers
  PROVE  /\ Next_(w) \in Running /\ Next_(w).pc = "next"
         /\ Next_(w).batch = worker[w].batch
         /\ Next_(w).todo = worker[w].todo \ {worker[w].cur}
<1> DEFINE r == worker[w]
           a == [r EXCEPT !.pc = "next"]
           b == [a EXCEPT !.todo = @ \ {r.cur}]
           c == [b EXCEPT !.cur = 0]
           e == [c EXCEPT !.prev = NoRow]
<1>1. r \in Running
  BY DEF TypeOK
<1>2. Next_(w) = e
  BY <1>1 DEF Next_, Running
<1> HIDE DEF r
<1>3. a \in Running /\ a.pc = "next" /\ a.batch = r.batch /\ a.todo = r.todo
  BY <1>1 DEF Running
<1> HIDE DEF a
<1>4. b \in Running /\ b.pc = "next" /\ b.batch = r.batch /\ b.todo = r.todo \ {r.cur}
  BY <1>3 DEF Running
<1> HIDE DEF b
<1>5. c \in Running /\ c.pc = "next" /\ c.batch = r.batch /\ c.todo = r.todo \ {r.cur}
  BY <1>4 DEF Running
<1> HIDE DEF c
<1>6. e \in Running /\ e.pc = "next" /\ e.batch = r.batch /\ e.todo = r.todo \ {r.cur}
  BY <1>5 DEF Running
<1>7. QED  BY <1>2, <1>6 DEF r

LEMMA FetchKeeps ==
  ASSUME IInv, NEW w \in Workers, NEW m \in Ids, FetchPrevious(w, m), UNCHANGED pool
  PROVE  IInv'
<1> DEFINE r == worker[w]
           a == [r EXCEPT !.pc = "upserting"]
           b == [a EXCEPT !.cur = m]
           new == [b EXCEPT !.prev = rows[DomainOf(m)]]
<1>1. /\ r.pc = "next" /\ m \in r.todo
      /\ UNCHANGED <<crawls, queue, rows, announced, view, fate>>
  BY DEF FetchPrevious
<1>2. /\ TypeOK /\ r \in Running /\ Invocation(w)
      /\ queue \in [Ids -> Message(Workers, NoDLQ)] /\ fate \in [Ids -> Fates]
  BY DEF IInv, TypeOK
<1>3. worker' = [worker EXCEPT ![w] = new]
  BY DEF FetchPrevious, TypeOK, IInv
<1>4. /\ w \in pool /\ r.batch \subseteq Known
      /\ r.todo \subseteq r.batch /\ r.todo \subseteq Usable
      /\ \A n \in r.batch \ r.todo : fate[n] # "none"
  BY <1>1, <1>2, AtRestRecords DEF Invocation
<1>5. rows[DomainOf(m)] \in Row \cup {NoRow}
  BY <1>1, <1>2, <1>4, KnownCrawls DEF TypeOK
<1> HIDE DEF r
<1>6. /\ new \in Running /\ new.pc = "upserting" /\ new.cur = m
      /\ new.batch = r.batch /\ new.todo = r.todo /\ new.prev = rows[DomainOf(m)]
  <2>1. a \in Running /\ a.pc = "upserting" /\ a.batch = r.batch /\ a.todo = r.todo
    BY <1>2 DEF Running
  <2> HIDE DEF a
  <2>2. /\ b \in Running /\ b.pc = "upserting" /\ b.cur = m
        /\ b.batch = r.batch /\ b.todo = r.todo
    BY <2>1 DEF Running
  <2> HIDE DEF b
  <2>3. QED  BY <1>5, <2>2 DEF Running
<1> HIDE DEF new
<1>7. HistoryKept
  BY <1>1, NothingMarked
<1>8. m \in Usable
  BY <1>1, <1>4
<1>9. QED  BY <1>1, <1>2, <1>3, <1>4, <1>6, <1>7, <1>8, InvocationMoves

LEMMA ArtifactKeeps ==
  ASSUME IInv, NEW w \in Workers, NEW m \in Ids,
         ArtifactRaises(w, m) \/ ConnectionRefuses(w, m), UNCHANGED pool
  PROVE  IInv'
<1> DEFINE r == worker[w]
           new == [r EXCEPT !.todo = @ \ {m}]
<1>1. /\ r.pc = "next" /\ m \in r.todo /\ Mark({m}, "faulted")
      /\ UNCHANGED <<crawls, queue, rows, announced, view>>
  BY DEF ArtifactRaises, ConnectionRefuses
<1>2. TypeOK /\ r \in Running /\ Invocation(w)
  BY DEF IInv, TypeOK
<1>3. worker' = [worker EXCEPT ![w] = new]
  BY <1>2 DEF ArtifactRaises, ConnectionRefuses, TypeOK
<1>4. m \in Known
  BY <1>1, <1>2 DEF Invocation
<1>5. HistoryKept /\ fate' \in [Ids -> Fates] /\ fate'[m] # "none"
  BY <1>1, <1>2, MarkKeeps DEF Fates
<1>6. new \in Running /\ new.pc = "next" /\ new.batch = r.batch /\ new.todo = r.todo \ {m}
  BY <1>1, <1>2 DEF Running
<1> HIDE DEF new
<1>7. QED  BY <1>1, <1>3, <1>4, <1>5, <1>6, LoopGoesOn

LEMMA StatementFailsKeeps ==
  ASSUME IInv, NEW w \in Workers, StatementFails(w), UNCHANGED pool
  PROVE  IInv'
<1> DEFINE m == worker[w].cur
           new == [Next_(w) EXCEPT !.broken = TRUE]
<1>1. /\ worker[w].pc = "upserting" /\ Mark({m}, "faulted")
      /\ worker' = [worker EXCEPT ![w] = new]
      /\ UNCHANGED <<crawls, queue, rows, announced, view>>
  BY DEF StatementFails
<1>2. TypeOK /\ Invocation(w)
  BY DEF IInv
<1>3. m \in Known /\ m \in Ids
  BY <1>1, <1>2, KnownCrawls DEF Invocation
<1>4. HistoryKept /\ fate' \in [Ids -> Fates] /\ fate'[m] # "none"
  BY <1>1, <1>2, <1>3, MarkKeeps DEF Fates
<1>5. /\ new \in Running /\ new.pc = "next" /\ new.batch = worker[w].batch
      /\ new.todo = worker[w].todo \ {m}
  BY <1>2, NextRecord DEF Running
<1> HIDE DEF new
<1>6. QED  BY <1>1, <1>3, <1>4, <1>5, LoopGoesOn

(* The announcement of a change is a change that took place.               *)
LEMMA AnnouncementIsReal ==
  ASSUME TypeOK, NEW w \in Workers, Invocation(w), worker[w].pc = "publishing"
  PROVE  Announcement(w) \in Change /\ RealChange(Announcement(w))
<1> DEFINE r == worker[w]
           n == Announcement(w)
<1>1. /\ r \in Running /\ r.cur \in Usable /\ fate[r.cur] = "stored"
      /\ r.prev # NoRow /\ r.prev.signal # SignalOf(r.cur)
      /\ StoredCrawl(DomainOf(r.cur), r.prev.signal)
  BY DEF TypeOK, Invocation, Changed
<1>2. r.prev \in Row
  BY <1>1 DEF Running
<1>3. r.prev.signal \in Signals
  BY <1>2 DEF Row
<1>4. n.domain = DomainOf(r.cur) /\ n.crawl = r.cur /\ n.old = r.prev.signal
      /\ n.new = SignalOf(r.cur)
  BY DEF Announcement
<1>5. n \in Change
  BY <1>1, <1>3, KnownCrawls DEF Announcement, Change
<1>6. QED  BY <1>1, <1>4, <1>5, KnownCrawls DEF RealChange

LEMMA PublishKeeps ==
  ASSUME IInv, NEW w \in Workers, Publish(w) \/ PublishFails(w), UNCHANGED pool
  PROVE  IInv'
<1> DEFINE m == worker[w].cur
<1>1. /\ worker[w].pc = "publishing" /\ worker' = [worker EXCEPT ![w] = Next_(w)]
      /\ announced' \in {announced, announced \cup {Announcement(w)}}
      /\ UNCHANGED <<crawls, queue, rows, fate>>
  BY DEF Publish, PublishFails
<1>2. TypeOK /\ Invocation(w)
  BY DEF IInv
<1>3. m \in Known /\ fate[m] = "stored"
  BY <1>1, <1>2, KnownCrawls DEF Invocation
<1>4. HistoryKept /\ fate' \in [Ids -> Fates] /\ fate'[m] # "none"
  BY <1>1, <1>2, <1>3, NothingMarked DEF TypeOK
<1>5. PICK n : n = Announcement(w)
  OBVIOUS
<1>6. n \in Change /\ RealChange(n)
  BY <1>1, <1>2, <1>5, AnnouncementIsReal
<1>7. RealChange(n)'
  BY <1>1, <1>6 DEF RealChange, StoredCrawl, Known, DomainOf, SignalOf
<1>8. UNCHANGED view \/ ViewTypeOK'
  <2>1. n.new \in Signals
    BY <1>6 DEF Change
  <2>2. view' \in {view, [view EXCEPT ![n.domain] = n.new]}
    BY <1>5 DEF Publish, PublishFails
  <2>3. QED  BY <1>2, <2>1, <2>2 DEF ViewTypeOK, TypeOK
<1>9. \A k \in announced' : k \in announced \/ (k \in Change /\ RealChange(k)')
  BY <1>1, <1>5, <1>6, <1>7
<1>10. QED  BY <1>1, <1>2, <1>3, <1>4, <1>8, <1>9, NextRecord, LoopGoesOn

(* The row that an upsert makes.                                           *)
LEMMA UpsertedRow ==
  ASSUME TypeOK, NEW m \in Known, NEW row \in Row \cup {NoRow}, NEW prev \in Row \cup {NoRow}
  PROVE  /\ Upserted(row, Record(m, prev)) \in Row
         /\ Upserted(row, Record(m, prev)).signal = SignalOf(m)
         /\ row # NoRow => Upserted(row, Record(m, prev)).first_seen = row.first_seen
<1>1. m \in Ids /\ SignalOf(m) \in Signals
  BY KnownCrawls
<1>2. prev # NoRow => prev.first_seen \in Ids
  BY DEF Row
<1>3. PICK record : record = Record(m, prev)
  OBVIOUS
<1>4. record \in Row /\ record.signal = SignalOf(m)
  BY <1>1, <1>2, <1>3 DEF Record, Row
<1>5. CASE row = NoRow
  BY <1>3, <1>4, <1>5 DEF Upserted
<1>6. CASE row # NoRow
  <2>1. row.first_seen \in Ids
    BY <1>6 DEF Row
  <2>2. PICK kept : kept = [record EXCEPT !.first_seen = row.first_seen]
    OBVIOUS
  <2>3. kept \in Row /\ kept.signal = record.signal /\ kept.first_seen = row.first_seen
    BY <1>4, <2>1, <2>2 DEF Row
  <2>4. Upserted(row, Record(m, prev)) = kept
    BY <1>3, <1>6, <2>2 DEF Upserted
  <2>5. QED  BY <1>4, <2>3, <2>4
<1>7. QED  BY <1>5, <1>6

LEMMA UpsertKeeps ==
  ASSUME IInv, NEW w \in Workers, Upsert(w), UNCHANGED pool
  PROVE  IInv'
<1> DEFINE r == worker[w]
<1>1. /\ TypeOK /\ \A u \in Workers : Invocation(u)
      /\ RowsReal /\ SentAreKnown /\ AnnouncedReal /\ NothingDroppedUnseen
      /\ r \in Running /\ r.pc = "upserting" /\ r.cur \in Usable
      /\ w \in pool /\ r.batch \subseteq Known
      /\ r.todo \subseteq r.batch /\ r.todo \subseteq Usable
      /\ \A n \in r.batch \ r.todo : fate[n] # "none"
      /\ r.prev # NoRow => StoredCrawl(DomainOf(r.cur), r.prev.signal)
  <2>1. /\ TypeOK /\ \A u \in Workers : Invocation(u)
        /\ RowsReal /\ SentAreKnown /\ AnnouncedReal /\ NothingDroppedUnseen
        /\ r \in Running /\ r.pc = "upserting"
    BY DEF IInv, TypeOK, Upsert
  <2>2. QED  BY <2>1, AtRestRecords DEF Invocation
<1>2. PICK m \in Known, prev \in Row \cup {NoRow} : m = r.cur /\ prev = r.prev
  BY <1>1, KnownCrawls DEF Running
<1>3. PICK d \in Domains, v \in Signals : d = DomainOf(m) /\ v = SignalOf(m)
  BY <1>1, <1>2, KnownCrawls
<1>4. PICK row \in Row : row = Upserted(rows[d], Record(m, prev))
  BY <1>1, UpsertedRow DEF TypeOK
<1>5. row.signal = v
  BY <1>1, <1>3, <1>4, UpsertedRow DEF TypeOK
<1> DEFINE publishing == [r EXCEPT !.pc = "publishing"]
<1>6. PICK new : new = IF Changed(prev, v) THEN publishing ELSE Next_(w)
  OBVIOUS
<1>7. /\ rows' = [rows EXCEPT ![d] = row] /\ worker' = [worker EXCEPT ![w] = new]
      /\ Mark({m}, "stored") /\ UNCHANGED <<crawls, queue, announced, pool>>
  BY <1>1, <1>2, <1>3, <1>4, <1>6 DEF Upsert, TypeOK
<1>8. view' \in {view, [view EXCEPT ![d] = v]}
  BY <1>2, <1>3 DEF Upsert
<1>9. HistoryKept /\ fate' \in [Ids -> Fates] /\ fate'[m] = "stored"
  BY <1>1, <1>7, KnownCrawls, MarkKeeps DEF Fates
<1>10. /\ publishing \in Running /\ publishing.pc = "publishing" /\ publishing.batch = r.batch
       /\ publishing.todo = r.todo /\ publishing.cur = m /\ publishing.prev = prev
  BY <1>1, <1>2 DEF Running
<1>11. /\ new \in Running /\ new.pc \in {"next", "publishing"} /\ new.batch = r.batch
       /\ new.pc = "publishing" =>
            new.todo = r.todo /\ new.cur = m /\ new.prev = prev /\ Changed(prev, v)
       /\ new.pc = "next" => new.todo = r.todo \ {m}
  BY <1>1, <1>2, <1>6, <1>10, NextRecord
<1> HIDE DEF publishing
<1>12. /\ worker'[w] = new /\ \A u \in Workers : u # w => worker'[u] = worker[u]
       /\ rows'[d] = row /\ \A e \in Domains : e # d => rows'[e] = rows[e]
  BY <1>1, <1>7 DEF TypeOK
<1>13. TypeOK'
  BY <1>1, <1>7, <1>8, <1>9, <1>11 DEF TypeOK
<1>14. StoredCrawl(d, v)' /\ DomainOf(m)' = d /\ SignalOf(m)' = v
       /\ Known' = Known /\ Usable' = Usable
  BY <1>3, <1>7, <1>9 DEF StoredCrawl, Known, Usable, UsableOf, DomainOf, SignalOf
<1>15. Invocation(w)'
  <2>1. \A n \in new.batch \ new.todo : fate'[n] # "none"
    BY <1>1, <1>9, <1>11, KnownCrawls DEF HistoryKept
  <2>2. new.batch \subseteq Known' /\ new.todo \subseteq new.batch /\ new.todo \subseteq Usable'
    BY <1>1, <1>11, <1>14
  <2>3. ASSUME new.pc = "publishing"
        PROVE  /\ new.cur \in Usable' /\ fate'[new.cur] = "stored"
               /\ new.prev # NoRow => StoredCrawl(DomainOf(new.cur), new.prev.signal)'
               /\ Changed(new.prev, SignalOf(new.cur))'
    <3>1. new.cur = m /\ new.prev = prev /\ Changed(prev, v)
      BY <1>11, <2>3
    <3>2. PICK old : old = prev.signal
      OBVIOUS
    <3>3. prev # NoRow => StoredCrawl(d, old)
      BY <1>1, <1>2, <1>3, <3>2
    <3>4. prev # NoRow => StoredCrawl(d, old)'
      BY <1>1, <1>9, <3>3, StoredKept
    <3>5. QED  BY <1>1, <1>2, <1>9, <1>14, <3>1, <3>2, <3>4
  <2>4. QED  BY <1>1, <1>7, <1>11, <1>12, <2>1, <2>2, <2>3 DEF Invocation
<1>16. \A u \in Workers : Invocation(u)'
  BY <1>1, <1>7, <1>9, <1>12, <1>15, InvocationKept
<1>17. RowsReal'
  BY <1>1, <1>5, <1>9, <1>12, <1>14, StoredKept DEF RowsReal
<1>18. AnnouncedReal'
  BY <1>1, <1>7, <1>9, AnnouncedKept
<1>19. SentAreKnown' /\ NothingDroppedUnseen'
  BY <1>1, <1>7, <1>9, <1>14 DEF SentAreKnown, NothingDroppedUnseen, HistoryKept
<1>20. PreviousIsRow'
  <2> SUFFICES ASSUME Serial, NEW u \in Workers PROVE worker'[u].pc # "upserting"
    BY <1>7 DEF PreviousIsRow, Serial
  <2>1. CASE u = w
    BY <1>11, <1>12, <2>1
  <2>2. CASE u # w
    BY <1>1, <1>12, <2>2, AtRestRecords DEF Serial, Invocation
  <2>3. QED  BY <2>1, <2>2
<1>21. QED  BY <1>13, <1>16, <1>17, <1>18, <1>19, <1>20 DEF IInv

-----------------------------------------------------------------------------
(* The theorems.                                                           *)
LEMMA InitInv == Init => IInv
<1> SUFFICES ASSUME Init PROVE IInv
  OBVIOUS
<1>1. /\ crawls = <<>> /\ rows = [d \in Domains |-> NoRow]
      /\ worker = [w \in Workers |-> Idle] /\ announced = {}
      /\ view = [d \in Domains |-> None] /\ fate = [m \in Ids |-> "none"] /\ pool \in Pools
  BY DEF Init
<1>2. PICK u \in Workers : queue = [m \in Ids |-> Unsent(u)]
  BY WorkersAssumption DEF Init
<1>3. Unsent(u) \in Message(Workers, NoDLQ) /\ Unsent(u).at = "unsent"
  BY DEF Unsent, Message, NoDLQ
<1>4. crawls \in Seq([domain : Domains, signal : Signals]) /\ Len(crawls) = 0 /\ 0 <= MaxCrawls
  BY <1>1, NumbersAssumption
<1>5. TypeOK
  BY <1>1, <1>2, <1>3, <1>4, AtRestRecords DEF TypeOK, Fates
<1>6. \A w \in Workers : Invocation(w)
  BY <1>1, AtRestRecords DEF Invocation
<1>7. RowsReal /\ SentAreKnown /\ AnnouncedReal /\ NothingDroppedUnseen
  BY <1>1, <1>2, <1>3 DEF RowsReal, SentAreKnown, AnnouncedReal, NothingDroppedUnseen
<1>8. PreviousIsRow
  BY <1>1, AtRestRecords DEF PreviousIsRow
<1>9. QED  BY <1>5, <1>6, <1>7, <1>8 DEF IInv

LEMMA NextInv == IInv /\ [Next]_vars => IInv'
<1> SUFFICES ASSUME IInv, [Next]_vars PROVE IInv'
  OBVIOUS
<1>1. CASE Next
  <2> USE <1>1
  <2>1. UNCHANGED pool
    BY DEF Next
  <2>2. ASSUME NEW d \in Domains \cup {Unreadable}, NEW v \in Signals, Crawl(d, v) PROVE IInv'
    BY <2>1, <2>2, CrawlKeeps
  <2>3. ASSUME NEW w \in Workers, NEW batch \in SUBSET Ids, ReceiveBatch(w, batch) PROVE IInv'
    BY <2>1, <2>3, ReceiveKeeps
  <2>4. ASSUME NEW w \in Workers, Step(w) PROVE IInv'
    BY <2>1, <2>4, FetchKeeps, ArtifactKeeps, UpsertKeeps, StatementFailsKeeps,
       PublishKeeps, ReturnKeeps DEF Step
  <2>5. ASSUME NEW w \in Workers, Kill(w) PROVE IInv'
    BY <2>1, <2>5, KillKeeps
  <2>6. ASSUME NEW m \in Ids, VisibilityExpires(m) PROVE IInv'
    BY <2>1, <2>6, ExpiryKeeps
  <2>7. Crawled \subseteq Signals /\ FirstSignals \subseteq Signals
    BY SignalsAssumption DEF Crawled
  <2>8. QED  BY <2>2, <2>3, <2>4, <2>5, <2>6, <2>7 DEF Next
<1>2. CASE UNCHANGED vars
  <2>1. UNCHANGED <<crawls, queue, rows, worker, announced, view, fate, pool>>
    BY <1>2 DEF vars, state
  <2>2. HistoryKept
    BY <2>1, NothingMarked
  <2>3. TypeOK' /\ SentAreKnown' /\ NothingDroppedUnseen'
    BY <2>1 DEF IInv, TypeOK, SentAreKnown, NothingDroppedUnseen, Known
  <2>4. (\A w \in Workers : Invocation(w)') /\ RowsReal' /\ AnnouncedReal'
    BY <2>1, <2>2, InvocationKept, RowsKept, AnnouncedKept DEF IInv
  <2>5. PreviousIsRow'
    BY <2>1 DEF IInv, PreviousIsRow, Serial, DomainOf
  <2>6. QED  BY <2>3, <2>4, <2>5 DEF IInv
<1>3. QED  BY <1>1, <1>2

LEMMA Invariant == Spec => []IInv
BY InitInv, NextInv, PTL DEF Spec

(* The state keeps its types under every failure and kill of parser-service. *)
THEOREM TypeCorrect == Spec => []TypeOK
<1>1. IInv => TypeOK
  BY DEF IInv
<1>2. QED  BY <1>1, Invariant, PTL

(* publish_record_changed, under any interleaving: no subscriber is told   *)
(* of a change between two signals that the domain's row did not have.     *)
THEOREM OnlyRealChanges == Spec => []ReportedChangeIsReal
<1>1. IInv => ReportedChangeIsReal
  <2> SUFFICES ASSUME IInv, NEW n \in announced
               PROVE  /\ n.old # n.new
                      /\ fate[n.crawl] = "stored" /\ SignalOf(n.crawl) = n.new
                      /\ \E m \in Ids : /\ fate[m] = "stored"
                                       /\ DomainOf(m) = n.domain /\ SignalOf(m) = n.old
    BY DEF ReportedChangeIsReal
  <2>1. RealChange(n) /\ Known \subseteq Ids
    BY KnownCrawls DEF IInv, AnnouncedReal
  <2>2. QED  BY <2>1 DEF RealChange, StoredCrawl
<1>2. QED  BY <1>1, Invariant, PTL

(* Whatever fails in a batch, lambda_handler's normal return lets go only  *)
(* of messages that had their turn.                                        *)
THEOREM EveryMessageHasItsTurn == Spec => []NothingDroppedUnseen
<1>1. IInv => NothingDroppedUnseen
  BY DEF IInv
<1>2. QED  BY <1>1, Invariant, PTL

(* upsert_domain keeps first_seen_at, even where two invocations found no  *)
(* row before them.                                                        *)
THEOREM FirstSeenNeverChanges == Spec => FirstSeenStable
<1> DEFINE Stable == \A d \in Domains :
             rows[d] # NoRow => rows'[d].first_seen = rows[d].first_seen
<1>1. IInv /\ [Next]_vars => [Stable]_vars
  <2> SUFFICES ASSUME IInv, Next, rows' # rows PROVE Stable
    BY DEF vars, state
  <2>1. PICK w \in Workers : Upsert(w)
    BY DEF Next, Step, Crawl, ReceiveBatch, VisibilityExpires, FetchPrevious, ArtifactRaises,
           ConnectionRefuses, StatementFails, Publish, PublishFails, Return, Kill
  <2>2. TypeOK /\ Invocation(w) /\ worker[w] \in Running /\ worker[w].pc = "upserting"
    BY <2>1 DEF IInv, TypeOK, Upsert
  <2>3. PICK m \in Usable, prev \in Row \cup {NoRow} : m = worker[w].cur /\ prev = worker[w].prev
    BY <2>2 DEF Invocation, Running
  <2>4. PICK e \in Domains : e = DomainOf(m)
    BY <2>2, KnownCrawls
  <2>5. rows' = [rows EXCEPT ![e] = Upserted(rows[e], Record(m, prev))]
    BY <2>1, <2>3, <2>4 DEF Upsert
  <2>6. rows \in [Domains -> Row \cup {NoRow}]
    BY <2>2 DEF TypeOK
  <2>7. QED  BY <2>2, <2>5, <2>6, KnownCrawls, UpsertedRow
<1>2. QED  BY <1>1, Invariant, PTL DEF Spec, FirstSeenStable

-----------------------------------------------------------------------------
(* One invocation at a time is a ChangeFeed.                               *)
Publishing(w) == worker[w].pc = "publishing"

(* With one invocation at a time, what it is to publish is all that is     *)
(* owed, before and after a step of its own.                               *)
LEMMA OwedNow ==
  ASSUME IInv, Serial, NEW w \in Workers, w \in pool
  PROVE  Owed = IF Publishing(w)
                THEN {<<Announcement(w).domain, Announcement(w).old, Announcement(w).new>>}
                ELSE {}
<1>1. \A v \in Workers : v # w => worker[v] \in {Idle, Dead}
  BY DEF IInv, Invocation, Serial
<1>2. \A v \in Workers : Publishing(v) => v = w
  BY <1>1, AtRestRecords DEF Publishing
<1>3. QED  BY <1>2 DEF Owed, Publishing

LEMMA OwedNext ==
  ASSUME IInv, Serial, NEW w \in Workers, w \in pool, NEW new,
         worker' = [worker EXCEPT ![w] = new]
  PROVE  Owed' = IF new.pc = "publishing"
                 THEN {<<crawls'[new.cur].domain, new.prev.signal, crawls'[new.cur].signal>>}
                 ELSE {}
<1>1. \A v \in Workers : v # w => worker[v] \in {Idle, Dead}
  BY DEF IInv, Invocation, Serial
<1>2. worker'[w] = new /\ \A v \in Workers : v # w => worker'[v] = worker[v]
  BY DEF IInv, TypeOK
<1>3. \A v \in Workers : worker'[v].pc = "publishing" => v = w
  BY <1>1, <1>2, AtRestRecords
<1>4. Owed' = {<<Announcement(v).domain', Announcement(v).old', Announcement(v).new'>> :
                 v \in {u \in Workers : worker'[u].pc = "publishing"}}
  BY DEF Owed
<1>5. /\ Announcement(w).domain' = crawls'[new.cur].domain
      /\ Announcement(w).old' = new.prev.signal
      /\ Announcement(w).new' = crawls'[new.cur].signal
  BY <1>2 DEF Announcement, DomainOf, SignalOf
<1>6. QED  BY <1>2, <1>3, <1>4, <1>5

(* A step that writes no row, tells nobody and takes no change in hand, or *)
(* leaves one: nothing happens in the feed, or a change is forgotten.      *)
LEMMA FeedForgets ==
  ASSUME IInv, Serial, UNCHANGED <<rows, view, pool>>,
         NEW w \in Workers, w \in pool, NEW new, new.pc # "publishing",
         worker' = [worker EXCEPT ![w] = new]
  PROVE  [Feed!Next]_(Feed!vars)
<1>1. Owed' = {} /\ Serial'
  BY OwedNext DEF Serial
<1>2. CASE Publishing(w)
  <2>1. PICK n : n = <<Announcement(w).domain, Announcement(w).old, Announcement(w).new>>
    OBVIOUS
  <2>2. Owed = {n}
    BY <1>2, <2>1, OwedNow
  <2>3. Feed!Forget(n)
    BY <1>1, <2>2 DEF Feed!Forget
  <2>4. QED  BY <2>2, <2>3 DEF Feed!Next
<1>3. CASE ~Publishing(w)
  <2>1. Owed = {}
    BY <1>3, OwedNow
  <2>2. QED  BY <1>1, <2>1 DEF Feed!vars
<1>4. QED  BY <1>2, <1>3

(* The queue's steps do not touch the feed.                                *)
LEMMA FeedWaits ==
  ASSUME IInv, HistoryKept, UNCHANGED <<rows, worker, view, pool>>
  PROVE  UNCHANGED Feed!vars
<1>1. ASSUME NEW w \in Workers, worker[w].pc = "publishing"
      PROVE  crawls'[worker[w].cur] = crawls[worker[w].cur]
  BY <1>1, KnownCrawls DEF IInv, Invocation, HistoryKept
<1>2. Owed' = Owed
  BY <1>1 DEF Owed, Announcement, DomainOf, SignalOf
<1>3. Serial' = Serial
  BY DEF Serial
<1>4. QED  BY <1>2, <1>3 DEF Feed!vars

(* The publish announces the one change that is owed.                      *)
LEMMA FeedAnnounces ==
  ASSUME IInv, Serial, UNCHANGED pool, NEW w \in Workers, w \in pool, Publish(w)
  PROVE  Feed!Next
<1>1. PICK n : n = <<Announcement(w).domain, Announcement(w).old, Announcement(w).new>>
  OBVIOUS
<1>2. /\ Publishing(w) /\ worker' = [worker EXCEPT ![w] = Next_(w)] /\ UNCHANGED rows
      /\ view' = [view EXCEPT ![n[1]] = n[3]]
  BY <1>1 DEF Publish, Publishing
<1>3. Owed = {n}
  BY <1>1, <1>2, OwedNow
<1>4. Owed' = {} /\ Serial'
  BY <1>2, OwedNext, NextRecord DEF Serial, IInv
<1>5. Feed!Announce(n)
  BY <1>2, <1>3, <1>4 DEF Feed!Announce
<1>6. QED  BY <1>3, <1>5 DEF Feed!Next

(* The upsert gives the domain its first signal, a new one, or the same.   *)
LEMMA FeedChanges ==
  ASSUME IInv, Serial, UNCHANGED pool, NEW w \in Workers, w \in pool, Upsert(w)
  PROVE  [Feed!Next]_(Feed!vars)
<1>1. /\ TypeOK /\ Invocation(w) /\ PreviousIsRow /\ worker[w] \in Running
      /\ worker[w].pc = "upserting" /\ ~Publishing(w)
  BY DEF IInv, TypeOK, Upsert, Publishing
<1>2. PICK m \in Usable, prev \in Row \cup {NoRow} : m = worker[w].cur /\ prev = worker[w].prev
  BY <1>1 DEF Invocation, Running
<1>3. PICK d \in Domains, v \in Signals : m \in Known /\ d = DomainOf(m) /\ v = SignalOf(m)
  BY <1>1, KnownCrawls
<1>4. prev = rows[d]
  BY <1>1, <1>2, <1>3 DEF PreviousIsRow
<1>5. PICK row \in Row : row = Upserted(rows[d], Record(m, prev))
  BY <1>1, <1>3, UpsertedRow DEF TypeOK
<1>6. row.signal = v
  BY <1>1, <1>3, <1>5, UpsertedRow DEF TypeOK
<1> DEFINE publishing == [worker[w] EXCEPT !.pc = "publishing"]
<1>7. PICK new : new = IF Changed(prev, v) THEN publishing ELSE Next_(w)
  OBVIOUS
<1>8. /\ rows' = [rows EXCEPT ![d] = row] /\ worker' = [worker EXCEPT ![w] = new]
      /\ view' = IF rows[d] = NoRow THEN [view EXCEPT ![d] = v] ELSE view
      /\ UNCHANGED crawls
  BY <1>1, <1>2, <1>3, <1>5, <1>7 DEF Upsert, TypeOK
<1>9. /\ Changed(prev, v) => new.pc = "publishing" /\ new.cur = m /\ new.prev = prev
      /\ ~Changed(prev, v) => new.pc # "publishing"
  BY <1>1, <1>2, <1>7, NextRecord DEF Running
<1>10. Owed = {}
  BY <1>1, OwedNow
<1>11. Owed' = IF Changed(prev, v) THEN {<<d, prev.signal, v>>} ELSE {}
  BY <1>3, <1>8, <1>9, OwedNext DEF DomainOf, SignalOf
<1>12. Serial'
  BY DEF Serial
<1> DEFINE before == [e \in Domains |-> rows[e].signal]
           after  == [e \in Domains |-> rows'[e].signal]
<1>13. after = [before EXCEPT ![d] = v]
  BY <1>1, <1>6, <1>8 DEF TypeOK
<1>14. /\ before[d] = prev.signal /\ (prev = NoRow <=> prev.signal = None)
       /\ Changed(prev, v) <=> prev.signal \notin {None, v}
  BY <1>4, NoRowIsNone DEF Changed
<1>15. CASE prev = NoRow
  <2>1. view' = [view EXCEPT ![d] = v] /\ Owed' = {} /\ before[d] = None
    BY <1>4, <1>8, <1>11, <1>14, <1>15
  <2>2. Feed!FirstSeen(d, v)
    BY <1>10, <1>12, <1>13, <2>1 DEF Feed!FirstSeen
  <2>3. QED  BY <2>2 DEF Feed!Next
<1>16. CASE Changed(prev, v)
  <2>1. view' = view /\ Owed' = {<<d, before[d], v>>} /\ before[d] \notin {None, v}
    BY <1>4, <1>8, <1>11, <1>14, <1>16
  <2>2. Feed!Change(d, v)
    BY <1>10, <1>12, <1>13, <2>1 DEF Feed!Change, Feed!NothingOwed
  <2>3. QED  BY <2>2 DEF Feed!Next
<1>17. CASE prev # NoRow /\ ~Changed(prev, v)
  <2>1. view' = view /\ Owed' = {} /\ before[d] = v
    BY <1>4, <1>8, <1>11, <1>14, <1>17
  <2>2. after = before
    BY <1>13, <2>1
  <2>3. UNCHANGED Feed!vars
    BY <1>10, <1>12, <2>1, <2>2 DEF Feed!vars
  <2>4. QED  BY <2>3
<1>18. QED  BY <1>15, <1>16, <1>17 DEF Changed

LEMMA FeedInit == Init => Feed!Init
<1> SUFFICES ASSUME Init PROVE Feed!Init
  OBVIOUS
<1>1. /\ rows = [d \in Domains |-> NoRow] /\ view = [d \in Domains |-> None]
      /\ worker = [w \in Workers |-> Idle]
  BY DEF Init
<1>2. Owed = {}
  BY <1>1, AtRestRecords DEF Owed
<1>3. [d \in Domains |-> rows[d].signal] = [d \in Domains |-> None]
  BY <1>1, NoRowIsNone
<1>4. QED  BY <1>1, <1>2, <1>3 DEF Feed!Init, NoSignal

LEMMA FeedStep == IInv /\ [Next]_vars => [Feed!Next]_(Feed!vars)
<1> SUFFICES ASSUME IInv, [Next]_vars PROVE [Feed!Next]_(Feed!vars)
  OBVIOUS
<1>1. UNCHANGED pool
  BY DEF Next, vars
<1>2. CASE ~Serial
  BY <1>1, <1>2 DEF Feed!vars, Serial
<1>3. CASE Serial /\ Next
  <2>1. ASSUME NEW w \in Workers, NEW batch \in SUBSET Ids, ReceiveBatch(w, batch)
        PROVE  [Feed!Next]_(Feed!vars)
    <3>1. PICK new : new = [Idle EXCEPT !.pc = "next", !.batch = batch,
                                        !.todo = UsableOf(batch)]
      OBVIOUS
    <3>2. new.pc = "next"
      BY <3>1 DEF Idle
    <3>3. w \in pool /\ worker' = [worker EXCEPT ![w] = new] /\ UNCHANGED <<rows, view>>
      BY <2>1, <3>1 DEF ReceiveBatch
    <3>4. QED  BY <1>1, <1>3, <3>2, <3>3, FeedForgets
  <2>2. ASSUME NEW w \in Workers, Step(w) \/ Kill(w)
        PROVE  [Feed!Next]_(Feed!vars)
    <3>1. w \in pool /\ worker[w] \in Running /\ TypeOK
      <4>1. worker[w] \notin {Idle, Dead}
        BY <2>2, AtRestRecords DEF Step, Kill, FetchPrevious, ArtifactRaises, ConnectionRefuses,
           Upsert, StatementFails, Publish, PublishFails, Return
      <4>2. QED  BY <4>1 DEF IInv, TypeOK, Invocation
    <3>2. CASE Upsert(w)
      BY <1>1, <1>3, <3>1, <3>2, FeedChanges
    <3>3. CASE Publish(w)
      BY <1>1, <1>3, <3>1, <3>3, FeedAnnounces
    <3>4. CASE ~Upsert(w) /\ ~Publish(w)
      <4>1. UNCHANGED <<rows, view>>
        BY <2>2, <3>4 DEF Step, Kill, FetchPrevious, ArtifactRaises, ConnectionRefuses,
           StatementFails, PublishFails, Return
      <4>2. \E new : new.pc # "publishing" /\ worker' = [worker EXCEPT ![w] = new]
        <5>1. CASE Kill(w) \/ Return(w)
          BY <5>1, AtRestRecords DEF Kill, Return
        <5>2. CASE PublishFails(w)
          BY <3>1, <5>2, NextRecord DEF PublishFails
        <5>3. CASE StatementFails(w)
          <6>1. PICK new : new = [Next_(w) EXCEPT !.broken = TRUE]
            OBVIOUS
          <6>2. new.pc = "next"
            BY <3>1, <6>1, NextRecord DEF Running
          <6>3. QED  BY <5>3, <6>1, <6>2 DEF StatementFails
        <5>4. ASSUME NEW m \in Ids, FetchPrevious(w, m)
              PROVE  \E new : new.pc # "publishing" /\ worker' = [worker EXCEPT ![w] = new]
          <6>1. PICK new : new = [worker[w] EXCEPT !.pc = "upserting", !.cur = m,
                                                   !.prev = rows[DomainOf(m)]]
            OBVIOUS
          <6>2. new.pc = "upserting"
            BY <3>1, <6>1 DEF Running
          <6>3. worker' = [worker EXCEPT ![w] = new]
            BY <3>1, <5>4, <6>1 DEF FetchPrevious, TypeOK
          <6>4. QED  BY <6>2, <6>3
        <5>5. ASSUME NEW m \in Ids, ArtifactRaises(w, m) \/ ConnectionRefuses(w, m)
              PROVE  \E new : new.pc # "publishing" /\ worker' = [worker EXCEPT ![w] = new]
          <6>1. PICK new : new = [worker[w] EXCEPT !.todo = @ \ {m}]
            OBVIOUS
          <6>2. new.pc = "next"
            BY <3>1, <5>5, <6>1 DEF ArtifactRaises, ConnectionRefuses, Running
          <6>3. worker' = [worker EXCEPT ![w] = new]
            BY <3>1, <5>5, <6>1 DEF ArtifactRaises, ConnectionRefuses, TypeOK
          <6>4. QED  BY <6>2, <6>3
        <5>6. QED  BY <2>2, <3>4, <5>1, <5>2, <5>3, <5>4, <5>5 DEF Step
      <4>3. PICK new : new.pc # "publishing" /\ worker' = [worker EXCEPT ![w] = new]
        BY <4>2
      <4>4. QED  BY <1>1, <1>3, <3>1, <4>1, <4>3, FeedForgets
    <3>5. QED  BY <3>2, <3>3, <3>4
  <2>3. ASSUME NEW d \in Domains \cup {Unreadable}, NEW v \in Signals, Crawl(d, v)
        PROVE  UNCHANGED Feed!vars
    <3>1. UNCHANGED <<rows, worker, view, fate>>
      BY <2>3 DEF Crawl
    <3>2. HistoryKept
      <4>1. PICK S, x : x \in S /\ crawls \in Seq(S) /\ crawls' = Append(crawls, x)
        <5>1. /\ crawls' = Append(crawls, [domain |-> d, signal |-> v])
              /\ [domain |-> d, signal |-> v] \in Crawls
          BY <2>3 DEF Crawl, Crawls
        <5>2. QED  BY <5>1 DEF IInv, TypeOK
      <4>2. \A m \in Known : m \in Known' /\ crawls'[m] = crawls[m]
        BY <4>1 DEF Known
      <4>3. QED  BY <3>1, <4>2 DEF HistoryKept
    <3>3. QED  BY <1>1, <3>1, <3>2, FeedWaits
  <2>4. ASSUME NEW m \in Ids, VisibilityExpires(m)
        PROVE  UNCHANGED Feed!vars
    <3>1. UNCHANGED <<crawls, rows, worker, view, fate>>
      BY <2>4 DEF VisibilityExpires
    <3>2. QED  BY <1>1, <3>1, NothingMarked, FeedWaits
  <2>5. Crawled \subseteq Signals /\ FirstSignals \subseteq Signals
    BY SignalsAssumption DEF Crawled
  <2>6. QED  BY <1>3, <2>1, <2>2, <2>3, <2>4, <2>5 DEF Next
<1>4. CASE Serial /\ UNCHANGED vars
  BY <1>1, <1>4, NothingMarked, FeedWaits DEF vars, state
<1>5. QED  BY <1>2, <1>3, <1>4

(* One invocation at a time, with failures and kills anywhere: the row of  *)
(* a domain, what its subscribers last heard and what                      *)
(* publish_record_changed has yet to say make up a ChangeFeed.             *)
THEOREM ImplementsChangeFeed == Spec => FeedRefined
BY FeedInit, FeedStep, Invariant, PTL DEF Spec, FeedRefined, Feed!Spec
=============================================================================
