---------------------------- MODULE CrawlerProofs ----------------------------
(***************************************************************************)
(* Theorems about Crawler: for any number of invocations, messages and     *)
(* failures, and also where the queue gives a batch to a second invocation *)
(* while the first still works on it.                                      *)
(***************************************************************************)
EXTENDS Crawler, TLAPS

-----------------------------------------------------------------------------
(* The inductive invariant.                                                *)

Published(m) == \E c \in raw : c[1] = m

(* As long as no task has raised, a request of the batch is being fetched, *)
(* is the one in its synchronous part, or has been published.              *)
Progress(w) ==
  worker[w].pc = "running" =>
    \A m \in worker[w].batch :
      request[m] \in Domains =>
        \/ \E c \in worker[w].fetching : c[1] = m
        \/ worker[w].cur[1] = m
        \/ Published(m)

(* What an invocation is about to publish is in S3, and its batch was sent. *)
Sound(w) ==
  /\ worker[w].stored => worker[w].cur # NoCrawl /\ worker[w].cur \in artifacts
  /\ \A m \in worker[w].batch : request[m] # None

IInv ==
  /\ TypeOK
  /\ \A w \in Workers : Progress(w) /\ Sound(w)
  /\ \A m \in Ids : request[m] = None => queue[m].at = "unsent"
  /\ DeletedMeansCrawled
  /\ PublishedMeansStored

-----------------------------------------------------------------------------
(* A step of invocation w: what it does to its own record decides.  S3 and *)
(* raw-fetched only gain crawls, and what leaves the queue is published.   *)
LEMMA WorkerGoesOn ==
  ASSUME IInv, NEW w \in Workers, NEW new \in Running,
         \A c \in new.fetching : c[1] \in new.batch,
         worker' = [worker EXCEPT ![w] = new], request' = request,
         artifacts \subseteq artifacts', artifacts' \subseteq Crawls,
         raw \subseteq raw', raw' \subseteq artifacts',
         queue' \in [Ids -> Message(Workers, MaxReceive)],
         \A m \in Ids : /\ request[m] = None => queue'[m].at = "unsent"
                        /\ queue'[m].at = "deleted" =>
                             \/ queue[m].at = "deleted"
                             \/ request[m] \in Domains => Published(m),
         new.stored => new.cur # NoCrawl /\ new.cur \in artifacts',
         \A m \in new.batch : request[m] # None,
         new.pc = "running" => \A m \in new.batch :
           request[m] \in Domains =>
             (\E c \in new.fetching : c[1] = m) \/ new.cur[1] = m \/ Published(m)'
  PROVE  IInv'
<1>1. \A v \in Workers : worker'[v] = IF v = w THEN new ELSE worker[v]
  BY DEF IInv, TypeOK
<1>2. TypeOK'
  BY <1>1 DEF IInv, TypeOK
<1>3. \A m : Published(m) => Published(m)'
  BY DEF Published
<1>4. \A v \in Workers : Progress(v)' /\ Sound(v)'
  BY <1>1, <1>3 DEF IInv, Progress, Sound
<1>5. DeletedMeansCrawled'
  BY <1>3 DEF IInv, DeletedMeansCrawled, Published
<1>6. \A m \in Ids : request'[m] = None => queue'[m].at = "unsent"
  BY DEF IInv
<1>7. QED  BY <1>2, <1>4, <1>5, <1>6 DEF IInv, PublishedMeansStored

(* A step that leaves the queue, S3 and raw-fetched alone.                 *)
LEMMA WorkerWorks ==
  ASSUME IInv, NEW w \in Workers, NEW new \in Running,
         \A c \in new.fetching : c[1] \in new.batch,
         worker' = [worker EXCEPT ![w] = new],
         UNCHANGED <<request, queue, artifacts, raw>>,
         new.stored => new.cur # NoCrawl /\ new.cur \in artifacts,
         \A m \in new.batch : request[m] # None,
         new.pc = "running" => \A m \in new.batch :
           request[m] \in Domains =>
             (\E c \in new.fetching : c[1] = m) \/ new.cur[1] = m \/ Published(m)
  PROVE  IInv'
<1>1. \A m : Published(m)' <=> Published(m)
  BY DEF Published
<1>2. /\ artifacts \subseteq artifacts' /\ artifacts' \subseteq Crawls
      /\ raw \subseteq raw' /\ raw' \subseteq artifacts'
      /\ queue' \in [Ids -> Message(Workers, MaxReceive)]
  BY DEF IInv, TypeOK, PublishedMeansStored
<1>3. \A m \in Ids : request[m] = None => queue'[m].at = "unsent"
  BY DEF IInv
<1>4. QED  BY <1>1, <1>2, <1>3, WorkerGoesOn

LEMMA EnqueueKeeps ==
  ASSUME IInv, NEW m \in Ids, NEW d \in Domains \cup {Unreadable}, EnqueueCrawl(m, d)
  PROVE  IInv'
<1>1. queue' = [queue EXCEPT ![m] = Sent(queue[m])] /\ request' = [request EXCEPT ![m] = d]
      /\ request[m] = None /\ d # None /\ UNCHANGED <<worker, artifacts, raw>>
  BY NoneAssumption DEF EnqueueCrawl
<1>2. Sent(queue[m]) \in Message(Workers, MaxReceive) /\ Sent(queue[m]).at = "visible"
  <2>1. queue[m] \in Message(Workers, MaxReceive)
    BY DEF IInv, TypeOK
  <2>2. QED  BY <2>1 DEF Sent, Message
<1>3. /\ request' \in [Ids -> Domains \cup {Unreadable, None}]
      /\ queue' \in [Ids -> Message(Workers, MaxReceive)]
      /\ request'[m] = d /\ queue'[m].at = "visible"
      /\ \A n \in Ids : n # m => request'[n] = request[n] /\ queue'[n] = queue[n]
  BY <1>1, <1>2 DEF IInv, TypeOK
<1>4. TypeOK'
  BY <1>1, <1>3 DEF IInv, TypeOK
<1>5. DeletedMeansCrawled' /\ PublishedMeansStored'
  BY <1>1, <1>3 DEF IInv, DeletedMeansCrawled, PublishedMeansStored
<1>6. ASSUME NEW w \in Workers PROVE Progress(w)' /\ Sound(w)'
  <2>1. Progress(w) /\ Sound(w) /\ worker'[w] = worker[w]
    BY <1>1 DEF IInv
  <2>2. \A n \in worker[w].batch : n \in Ids /\ n # m
    BY <1>1, <2>1 DEF IInv, TypeOK, Running, Sound
  <2>3. \A n \in worker[w].batch : request'[n] = request[n]
    BY <1>3, <2>2
  <2>4. \A n : Published(n)' <=> Published(n)
    BY <1>1 DEF Published
  <2>5. Progress(w)'
    BY <2>1, <2>3, <2>4 DEF Progress
  <2>6. QED  BY <1>1, <2>1, <2>3, <2>5 DEF Sound
<1>7. \A n \in Ids : request'[n] = None => queue'[n].at = "unsent"
  BY <1>1, <1>3 DEF IInv
<1>8. QED  BY <1>4, <1>5, <1>6, <1>7 DEF IInv

LEMMA ExpiryKeeps ==
  ASSUME IInv, NEW m \in Ids, VisibilityExpires(m)
  PROVE  IInv'
<1>1. queue' = [queue EXCEPT ![m] = Reappeared(queue[m], MaxReceive)]
      /\ queue[m].at = "inflight" /\ UNCHANGED <<request, worker, artifacts, raw>>
  BY DEF VisibilityExpires
<1>2. /\ Reappeared(queue[m], MaxReceive) \in Message(Workers, MaxReceive)
      /\ Reappeared(queue[m], MaxReceive).at # "deleted"
  <2>1. queue[m] \in Message(Workers, MaxReceive)
    BY DEF IInv, TypeOK
  <2>2. QED  BY <2>1 DEF Reappeared, Message
<1>3. TypeOK' /\ DeletedMeansCrawled' /\ PublishedMeansStored'
  BY <1>1, <1>2 DEF IInv, TypeOK, DeletedMeansCrawled, PublishedMeansStored
<1>4. \A n \in Ids : request'[n] = None => queue'[n].at = "unsent"
  BY <1>1 DEF IInv, TypeOK
<1>5. \A w \in Workers : Progress(w)' /\ Sound(w)'
  BY <1>1 DEF IInv, Progress, Sound, Published
<1>6. QED  BY <1>3, <1>4, <1>5 DEF IInv

LEMMA ReceiveKeeps ==
  ASSUME IInv, NEW w \in Workers, NEW batch \in SUBSET Ids, ReceiveBatch(w, batch)
  PROVE  IInv'
<1> DEFINE tasks == {<<m, queue'[m].receives>> : m \in {n \in batch : request[n] \in Domains}}
           started == [Idle EXCEPT !.pc = "running"]
           holding == [started EXCEPT !.batch = batch]
           new == [holding EXCEPT !.fetching = tasks]
<1>1. worker' = [worker EXCEPT ![w] = new]
  BY DEF ReceiveBatch, UsableOf
<1>2. /\ queue' = [m \in Ids |-> IF m \in batch THEN Received(queue[m], w, MaxReceive)
                                                ELSE queue[m]]
      /\ \A m \in batch : queue[m].at = "visible"
      /\ UNCHANGED <<request, artifacts, raw>>
  BY DEF ReceiveBatch
<1>3. ASSUME NEW m \in Ids
      PROVE  /\ queue'[m] \in Message(Workers, MaxReceive)
             /\ m \in batch => queue'[m].receives \in 1 .. MaxReceive
             /\ queue'[m].at = "deleted" => queue[m].at = "deleted"
             /\ request[m] = None => queue'[m].at = "unsent"
  <2>1. queue[m] \in Message(Workers, MaxReceive) /\ MaxReceive \in Nat \ {0}
    BY NumbersAssumption DEF IInv, TypeOK
  <2>2. /\ Received(queue[m], w, MaxReceive) \in Message(Workers, MaxReceive)
        /\ Received(queue[m], w, MaxReceive).at = "inflight"
        /\ Received(queue[m], w, MaxReceive).receives \in 1 .. MaxReceive
    BY <2>1 DEF Received, Message
  <2>3. request[m] = None => m \notin batch /\ queue[m].at = "unsent"
    BY <1>2 DEF IInv
  <2>4. QED  BY <1>2, <2>1, <2>2, <2>3
<1>4. queue' \in [Ids -> Message(Workers, MaxReceive)]
  BY <1>2, <1>3
<1>5. /\ tasks \in SUBSET Crawls
      /\ \A c \in tasks : c[1] \in batch
      /\ \A m \in batch : request[m] \in Domains => \E c \in tasks : c[1] = m
  <2>1. \A c \in tasks : \E m \in batch : c = <<m, queue'[m].receives>>
    OBVIOUS
  <2>2. \A m \in batch : request[m] \in Domains => <<m, queue'[m].receives>> \in tasks
    OBVIOUS
  <2> HIDE DEF tasks
  <2>3. \A m \in batch : <<m, queue'[m].receives>> \in Crawls
    BY <1>3 DEF Crawls
  <2>4. \A m \in batch : <<m, queue'[m].receives>>[1] = m
    OBVIOUS
  <2>5. tasks \in SUBSET Crawls
    BY <2>1, <2>3
  <2>6. \A c \in tasks : c[1] \in batch
    BY <2>1, <2>4
  <2>7. \A m \in batch : request[m] \in Domains => \E c \in tasks : c[1] = m
    BY <2>2, <2>4
  <2>8. QED  BY <2>5, <2>6, <2>7
<1> HIDE DEF tasks
<1>6. /\ new \in Running /\ new.pc = "running" /\ new.batch = batch /\ new.fetching = tasks
      /\ new.stored = FALSE
  <2>1. started \in Running /\ started.pc = "running" /\ started.stored = FALSE
    BY DEF Idle, Running
  <2> HIDE DEF started
  <2>2. /\ holding \in Running /\ holding.pc = "running" /\ holding.batch = batch
        /\ holding.stored = FALSE
    BY <2>1 DEF Running
  <2> HIDE DEF holding
  <2>3. QED  BY <1>5, <2>2 DEF Running
<1> HIDE DEF new
<1>7. \A m \in batch : request[m] # None
  BY <1>2 DEF IInv
<1>8. /\ artifacts \subseteq artifacts' /\ artifacts' \subseteq Crawls
      /\ raw \subseteq raw' /\ raw' \subseteq artifacts'
  BY <1>2 DEF IInv, TypeOK, PublishedMeansStored
<1>9. QED  BY <1>1, <1>2, <1>3, <1>4, <1>5, <1>6, <1>7, <1>8, WorkerGoesOn

LEMMA FetchedKeeps ==
  ASSUME IInv, NEW w \in Workers, NEW c \in Crawls, Fetched(w, c)
  PROVE  IInv'
<1> DEFINE r == worker[w]
           rest == r.fetching \ {c}
           waiting == [r EXCEPT !.fetching = rest]
           new == [waiting EXCEPT !.cur = c]
<1>1. /\ r.cur = NoCrawl /\ ~r.stored /\ c \in r.fetching /\ r \in Running
      /\ \A e \in r.fetching : e[1] \in r.batch
      /\ UNCHANGED <<request, queue, artifacts, raw>>
  BY DEF Fetched, IInv, TypeOK, Sound
<1>2. worker' = [worker EXCEPT ![w] = new]
  BY DEF Fetched
<1>3. waiting = [pc |-> r.pc, batch |-> r.batch, fetching |-> rest, cur |-> r.cur,
                 stored |-> r.stored]
  BY <1>1 DEF Running
<1> HIDE DEF waiting
<1>4. new = [pc |-> r.pc, batch |-> r.batch, fetching |-> rest, cur |-> c, stored |-> r.stored]
  BY <1>3
<1> HIDE DEF new
<1>5. /\ new \in Running /\ new.pc = r.pc /\ new.batch = r.batch /\ new.fetching = rest
      /\ new.cur = c /\ ~new.stored
  BY <1>1, <1>4 DEF Running
<1>6. new.pc = "running" => \A m \in new.batch :
        request[m] \in Domains =>
          (\E e \in new.fetching : e[1] = m) \/ new.cur[1] = m \/ Published(m)
  <2> SUFFICES ASSUME r.pc = "running", NEW m \in r.batch, request[m] \in Domains
               PROVE  (\E e \in rest : e[1] = m) \/ c[1] = m \/ Published(m)
    BY <1>5
  <2>1. (\E e \in r.fetching : e[1] = m) \/ r.cur[1] = m \/ Published(m)
    BY DEF IInv, Progress
  <2>2. m \in Ids /\ m # 0
    BY <1>1 DEF Running, Ids
  <2>3. r.cur[1] = 0
    BY <1>1 DEF NoCrawl
  <2>4. QED  BY <2>1, <2>2, <2>3
<1>7. \A m \in new.batch : request[m] # None
  BY <1>5 DEF IInv, Sound
<1>8. \A e \in new.fetching : e[1] \in new.batch
  BY <1>1, <1>5
<1>9. QED  BY <1>1, <1>2, <1>5, <1>6, <1>7, <1>8, WorkerWorks

LEMMA FetchRaisesKeeps ==
  ASSUME IInv, NEW w \in Workers, NEW c \in Crawls, FetchRaises(w, c)
  PROVE  IInv'
<1> DEFINE r == worker[w]
           rest == r.fetching \ {c}
           waiting == [r EXCEPT !.fetching = rest]
           new == [waiting EXCEPT !.pc = "failing"]
<1>1. /\ r.cur = NoCrawl /\ ~r.stored /\ r \in Running
      /\ \A e \in r.fetching : e[1] \in r.batch
      /\ UNCHANGED <<request, queue, artifacts, raw>>
  BY DEF FetchRaises, IInv, TypeOK, Sound
<1>2. worker' = [worker EXCEPT ![w] = new]
  BY DEF FetchRaises
<1>3. waiting = [pc |-> r.pc, batch |-> r.batch, fetching |-> rest, cur |-> r.cur,
                 stored |-> r.stored]
  BY <1>1 DEF Running
<1> HIDE DEF waiting
<1>4. new = [pc |-> "failing", batch |-> r.batch, fetching |-> rest, cur |-> r.cur,
             stored |-> r.stored]
  BY <1>3
<1> HIDE DEF new
<1>5. /\ new \in Running /\ new.pc = "failing" /\ new.batch = r.batch /\ new.fetching = rest
      /\ ~new.stored
  BY <1>1, <1>4 DEF Running
<1>6. \A m \in new.batch : request[m] # None
  BY <1>5 DEF IInv, Sound
<1>7. \A e \in new.fetching : e[1] \in new.batch
  BY <1>1, <1>5
<1>8. QED  BY <1>1, <1>2, <1>5, <1>6, <1>7, WorkerWorks

LEMMA RaisesKeeps ==
  ASSUME IInv, NEW w \in Workers, AwsCallRaises(w)
  PROVE  IInv'
<1> DEFINE r == worker[w]
           left == [r EXCEPT !.cur = NoCrawl]
           dropped == [left EXCEPT !.stored = FALSE]
           new == [dropped EXCEPT !.pc = "failing"]
<1>1. r \in Running /\ \A e \in r.fetching : e[1] \in r.batch
  BY DEF IInv, TypeOK
<1>2. worker' = [worker EXCEPT ![w] = new] /\ UNCHANGED <<request, queue, artifacts, raw>>
  BY DEF AwsCallRaises
<1>3. left \in Running /\ left.batch = r.batch /\ left.fetching = r.fetching
  BY <1>1 DEF Running
<1> HIDE DEF left
<1>4. /\ dropped \in Running /\ dropped.batch = r.batch /\ dropped.fetching = r.fetching
      /\ dropped.stored = FALSE
  BY <1>3 DEF Running
<1> HIDE DEF dropped
<1>5. /\ new \in Running /\ new.pc = "failing" /\ new.batch = r.batch
      /\ new.fetching = r.fetching /\ new.stored = FALSE
  BY <1>4 DEF Running
<1> HIDE DEF new
<1>6. \A m \in new.batch : request[m] # None
  BY <1>5 DEF IInv, Sound
<1>7. QED  BY <1>1, <1>2, <1>5, <1>6, WorkerWorks

LEMMA StopKeeps ==
  ASSUME IInv, NEW w \in Workers, Abort(w) \/ Kill(w)
  PROVE  IInv'
<1>1. Idle \in Running /\ Idle.pc = "idle" /\ Idle.batch = {} /\ Idle.fetching = {}
      /\ ~Idle.stored
  BY DEF Idle, Running
<1>2. worker' = [worker EXCEPT ![w] = Idle] /\ UNCHANGED <<request, queue, artifacts, raw>>
  BY DEF Abort, Kill
<1>3. QED  BY <1>1, <1>2, WorkerWorks

(* All tasks are through: every request of the batch has been published.   *)
LEMMA ReturnKeeps ==
  ASSUME IInv, NEW w \in Workers, Return(w)
  PROVE  IInv'
<1> DEFINE batch == worker[w].batch
<1>1. Idle \in Running /\ Idle.pc = "idle" /\ Idle.batch = {} /\ Idle.fetching = {}
      /\ ~Idle.stored
  BY DEF Idle, Running
<1>2. /\ worker[w].pc = "running" /\ worker[w].cur = NoCrawl /\ worker[w].fetching = {}
      /\ worker' = [worker EXCEPT ![w] = Idle] /\ UNCHANGED <<request, artifacts, raw>>
  BY DEF Return
<1>3. PICK gone \in MayDelete(queue, batch, w) : queue' = DeleteAll(queue, gone)
  BY DEF Return
<1>4. batch \in SUBSET Ids /\ queue \in [Ids -> Message(Workers, MaxReceive)]
  BY DEF IInv, TypeOK, Running
<1>5. \A m \in batch : request[m] # None
  BY DEF IInv, Sound
<1>6. /\ queue' \in [Ids -> Message(Workers, MaxReceive)]
      /\ \A m \in Ids : m \notin batch => queue'[m] = queue[m]
      /\ \A m \in Ids : queue'[m] = queue[m] \/ m \in batch
  <2> HIDE DEF batch
  <2>1. gone \subseteq batch /\ DOMAIN queue = Ids
    BY <1>4 DEF MayDelete
  <2>2. queue' = [m \in Ids |-> IF m \in gone THEN Deleted(queue[m]) ELSE queue[m]]
    BY <1>3, <2>1 DEF DeleteAll
  <2>3. \A m \in Ids : Deleted(queue[m]) \in Message(Workers, MaxReceive)
    BY <1>4 DEF Deleted, Message
  <2>4. QED  BY <1>4, <2>1, <2>2, <2>3
<1>7. \A m \in batch : request[m] \in Domains => Published(m)
  <2> SUFFICES ASSUME NEW m \in batch, request[m] \in Domains PROVE Published(m)
    OBVIOUS
  <2>1. worker[w].cur[1] = 0 /\ m # 0
    BY <1>2, <1>4 DEF NoCrawl, Ids
  <2>2. QED  BY <1>2, <2>1 DEF IInv, Progress
<1>8. \A m \in Ids : request[m] = None => queue'[m].at = "unsent"
  BY <1>5, <1>6 DEF IInv
<1>9. /\ artifacts \subseteq artifacts' /\ artifacts' \subseteq Crawls
      /\ raw \subseteq raw' /\ raw' \subseteq artifacts'
  BY <1>2 DEF IInv, TypeOK, PublishedMeansStored
<1>10. QED  BY <1>1, <1>2, <1>5, <1>6, <1>7, <1>8, <1>9, WorkerGoesOn

(* The crawl of the invocation is in S3 from here on. *)
LEMMA StoreKeeps ==
  ASSUME IInv, NEW w \in Workers, StoreArtifacts(w)
  PROVE  IInv'
<1> DEFINE r == worker[w]
           new == [r EXCEPT !.stored = TRUE]
<1>1. r \in Running /\ \A e \in r.fetching : e[1] \in r.batch
  BY DEF IInv, TypeOK
<1>2. /\ worker' = [worker EXCEPT ![w] = new] /\ UNCHANGED <<request, queue, raw>>
      /\ artifacts' = artifacts \cup {r.cur} /\ r.cur # NoCrawl
  BY DEF StoreArtifacts
<1>3. /\ new \in Running /\ new.pc = r.pc /\ new.batch = r.batch /\ new.fetching = r.fetching
      /\ new.cur = r.cur /\ new.stored = TRUE
  BY <1>1 DEF Running
<1> HIDE DEF new
<1>4. r.cur \in Crawls
  BY <1>1, <1>2 DEF Running
<1>5. /\ artifacts \subseteq artifacts' /\ artifacts' \subseteq Crawls
      /\ raw \subseteq raw' /\ raw' \subseteq artifacts'
      /\ queue' \in [Ids -> Message(Workers, MaxReceive)]
  BY <1>2, <1>4 DEF IInv, TypeOK, PublishedMeansStored
<1>6. \A m : Published(m)' <=> Published(m)
  BY <1>2 DEF Published
<1>7. /\ \A m \in new.batch : request[m] # None
      /\ new.pc = "running" => \A m \in new.batch :
           request[m] \in Domains =>
             (\E c \in new.fetching : c[1] = m) \/ new.cur[1] = m \/ Published(m)'
  BY <1>3, <1>6 DEF IInv, Progress, Sound
<1>8. new.cur # NoCrawl /\ new.cur \in artifacts'
  BY <1>2, <1>3
<1>9. \A c \in new.fetching : c[1] \in new.batch
  BY <1>1, <1>3
<1>10. \A m \in Ids : /\ request[m] = None => queue'[m].at = "unsent"
                      /\ queue'[m].at = "deleted" => queue[m].at = "deleted"
  BY <1>2 DEF IInv
<1>11. QED  BY <1>2, <1>3, <1>5, <1>7, <1>8, <1>9, <1>10, WorkerGoesOn

(* It is published: by the call that is answered, and the task is through, *)
(* or by one whose answer is lost, and the task stays where it is.         *)
LEMMA PublishKeeps ==
  ASSUME IInv, NEW w \in Workers, PublishRawFetched(w) \/ PublishAnswerLost(w)
  PROVE  IInv'
<1>1. PICK r \in Running : r = worker[w]
  BY DEF IInv, TypeOK
<1> DEFINE done == [r EXCEPT !.cur = NoCrawl]
           through == [done EXCEPT !.stored = FALSE]
<1>2. /\ UNCHANGED <<request, queue, artifacts>> /\ raw' = raw \cup {r.cur}
      /\ r.stored /\ r.cur # NoCrawl
      /\ \/ worker' = [worker EXCEPT ![w] = through]
         \/ worker' = worker
  BY <1>1 DEF PublishRawFetched, PublishAnswerLost
<1>3. /\ done \in Running /\ done.pc = r.pc /\ done.batch = r.batch
      /\ done.fetching = r.fetching
  BY <1>1 DEF Running
<1> HIDE DEF done
<1>4. /\ through \in Running /\ through.pc = r.pc /\ through.batch = r.batch
      /\ through.fetching = r.fetching /\ through.stored = FALSE
  BY <1>3 DEF Running
<1> HIDE DEF through
<1>5. PICK new : /\ new = r \/ new = through
                 /\ worker' = [worker EXCEPT ![w] = new]
  <2>1. CASE worker' = worker
    <3>1. worker' = [worker EXCEPT ![w] = r]
      BY <1>1, <2>1 DEF IInv, TypeOK
    <3>2. QED  BY <3>1
  <2>2. QED  BY <1>2, <2>1
<1>6. /\ new \in Running /\ new.pc = r.pc /\ new.batch = r.batch
      /\ new.fetching = r.fetching /\ (new.stored => new = r)
  BY <1>1, <1>4, <1>5
<1>7. /\ r.cur \in artifacts
      /\ \A m \in r.batch : request[m] # None
      /\ \A c \in r.fetching : c[1] \in r.batch
      /\ r.pc = "running" => \A m \in r.batch : request[m] \in Domains =>
           (\E c \in r.fetching : c[1] = m) \/ r.cur[1] = m \/ Published(m)
  BY <1>1, <1>2 DEF IInv, TypeOK, Sound, Progress
<1>8. /\ artifacts \subseteq artifacts' /\ artifacts' \subseteq Crawls
      /\ raw \subseteq raw' /\ raw' \subseteq artifacts'
      /\ queue' \in [Ids -> Message(Workers, MaxReceive)]
  BY <1>2, <1>7 DEF IInv, TypeOK, PublishedMeansStored
<1>9. \A m : Published(m) \/ r.cur[1] = m => Published(m)'
  BY <1>2 DEF Published
<1>10. new.pc = "running" => \A m \in new.batch :
         request[m] \in Domains =>
           (\E c \in new.fetching : c[1] = m) \/ new.cur[1] = m \/ Published(m)'
  BY <1>6, <1>7, <1>9
<1>11. /\ \A m \in new.batch : request[m] # None
       /\ \A c \in new.fetching : c[1] \in new.batch
  BY <1>6, <1>7
<1>12. new.stored => new.cur # NoCrawl /\ new.cur \in artifacts'
  BY <1>2, <1>6, <1>7
<1>13. \A m \in Ids : /\ request[m] = None => queue'[m].at = "unsent"
                      /\ queue'[m].at = "deleted" => queue[m].at = "deleted"
  BY <1>2 DEF IInv
<1>14. QED  BY <1>2, <1>5, <1>6, <1>8, <1>10, <1>11, <1>12, <1>13, WorkerGoesOn

-----------------------------------------------------------------------------
LEMMA InitIInv == Init => IInv
<1> SUFFICES ASSUME Init PROVE IInv
  OBVIOUS
<1>1. Unsent(CHOOSE w \in Workers : TRUE) \in Message(Workers, MaxReceive)
  BY WorkersAssumption, NumbersAssumption DEF Unsent, Message
<1>2. Idle \in Running
  BY DEF Idle, Running
<1>3. TypeOK
  BY <1>1, <1>2 DEF Init, TypeOK, Idle
<1>4. \A w \in Workers : Progress(w) /\ Sound(w)
  BY DEF Init, Progress, Sound, Idle
<1>5. DeletedMeansCrawled /\ PublishedMeansStored /\ \A m \in Ids : queue[m].at = "unsent"
  BY DEF Init, DeletedMeansCrawled, PublishedMeansStored, Unsent
<1>6. QED  BY <1>3, <1>4, <1>5 DEF IInv

LEMMA NextIInv == IInv /\ [Next]_vars => IInv'
<1> SUFFICES ASSUME IInv, [Next]_vars PROVE IInv'
  OBVIOUS
<1>1. ASSUME NEW m \in Ids, NEW d \in Domains \cup {Unreadable}, EnqueueCrawl(m, d)
      PROVE  IInv'
  BY <1>1, EnqueueKeeps
<1>2. ASSUME NEW w \in Workers, NEW batch \in SUBSET Ids, ReceiveBatch(w, batch) PROVE IInv'
  BY <1>2, ReceiveKeeps
<1>3. ASSUME NEW w \in Workers, Step(w) PROVE IInv'
  BY <1>3, FetchedKeeps, FetchRaisesKeeps, StoreKeeps, PublishKeeps, RaisesKeeps, ReturnKeeps,
    StopKeeps DEF Step
<1>4. ASSUME NEW w \in Workers, PublishAnswerLost(w) \/ Kill(w) PROVE IInv'
  BY <1>4, PublishKeeps, StopKeeps
<1>5. ASSUME NEW m \in Ids, VisibilityExpires(m) PROVE IInv'
  BY <1>5, ExpiryKeeps
<1>6. CASE UNCHANGED vars
  BY <1>6 DEF IInv, TypeOK, Progress, Sound, Published, DeletedMeansCrawled,
    PublishedMeansStored, vars
<1>7. QED  BY <1>1, <1>2, <1>3, <1>4, <1>5, <1>6 DEF Next

LEMMA Invariance == Spec => []IInv
BY InitIInv, NextIInv, PTL DEF Spec

-----------------------------------------------------------------------------
(* The types of Crawler's variables. *)
THEOREM TypeCorrect == Spec => []TypeOK
<1>1. IInv => TypeOK
  BY DEF IInv
<1>2. QED  BY <1>1, Invariance, PTL

(* The event source mapping deletes no request whose crawl was not         *)
(* published, whatever fails and however many invocations share a batch.   *)
THEOREM DeletedWereCrawled == Spec => []DeletedMeansCrawled
<1>1. IInv => DeletedMeansCrawled
  BY DEF IInv
<1>2. QED  BY <1>1, Invariance, PTL

(* No raw-fetched message is published before the artifacts of its own     *)
(* crawl are in S3, however often a request is received or a message sent. *)
THEOREM PublishedWereStored == Spec => []PublishedMeansStored
<1>1. IInv => PublishedMeansStored
  BY DEF IInv
<1>2. QED  BY <1>1, Invariance, PTL
=============================================================================
