--------------------------- MODULE NotifierProofs ---------------------------
(***************************************************************************)
(* Theorems about Notifier: for any number of monitors, events, concurrent *)
(* invocations and attempts, whatever fails or is killed, and also where a *)
(* second invocation works on an event next to the first.                  *)
(***************************************************************************)
EXTENDS Notifier, FiniteSetTheorems, TLAPS

-----------------------------------------------------------------------------
(* The inductive invariant.                                                *)

(* What an invocation is at, and that no monitor of its event was lost: it *)
(* is due still, or its outcome is known.                                  *)
Busy(w) ==
  LET r == worker[w]
  IN  /\ r.pc = "idle" => r.todo = {}
      /\ r.pc \in {"idle", "next"} => r.cur = 0
      /\ r.pc # "posting" => r.to = None
      /\ r.pc = "posting" => r.to \in r.due /\ r.attempt \in 1 .. MaxAttempts
      /\ \A m \in r.todo \cup r.batch : event[m] # None
      /\ r.pc \in {"monitors", "posting"} =>
           /\ r.cur \in r.todo
           /\ \A k \in entitled[r.cur] :
                monitor[k] = "live" => k \in r.due \/ outcome[r.cur][k] # "none"

(* A message that may be received has receives left. *)
Countable ==
  \A m \in Ids :
    /\ event[m] = None => queue[m].at = "unsent" /\ fate[m] = "none"
    /\ queue[m].at = "unsent" => queue[m].receives = 0
    /\ queue[m].at = "visible" => queue[m].receives < MaxReceive

EntitledWatch ==
  \A m \in Ids : \A k \in entitled[m] :
    monitor[k] # "unregistered" /\ Watched[k] = event[m]

(* The i-th attempt at k is still to be made by w, for the receive of m it *)
(* is working on.                                                          *)
Owes(w, m, k, i) ==
  /\ m \in worker[w].todo
  /\ worker[w].cur = m => /\ k \in worker[w].due
                          /\ worker[w].to = k => worker[w].attempt <= i

Owed(m, k) == {a \in Workers \X (1 .. MaxAttempts) : Owes(a[1], m, k, a[2])}

(* The POSTs made and those still owed are no more than the receives allow. *)
WithinBudget(m, k) ==
  /\ IsFiniteSet(Owed(m, k))
  /\ posts[m][k] + Cardinality(Owed(m, k)) <= MaxAttempts * queue[m].receives

IInv ==
  /\ TypeOK
  /\ \A w \in Workers : Busy(w)
  /\ Countable
  /\ EntitledWatch
  /\ NoSilentSkip
  /\ \A m \in Ids, k \in Monitors : WithinBudget(m, k)

-----------------------------------------------------------------------------
(* The records of an invocation.                                           *)
LEMMA SkipRecord ==
  ASSUME TypeOK, NEW w \in Workers, NEW k \in Monitors
  PROVE  LET r == worker[w]
             new == Skip(w, k)
         IN  /\ new \in Running /\ new.pc = "monitors" /\ new.batch = r.batch
             /\ new.todo = r.todo /\ new.cur = r.cur /\ new.due = r.due \ {k}
             /\ new.to = None
<1> DEFINE r == worker[w]
           listed == [r EXCEPT !.pc = "monitors"]
           gone == [listed EXCEPT !.due = r.due \ {k}]
           nobody == [gone EXCEPT !.to = None]
           new == [nobody EXCEPT !.attempt = 0]
<1>1. r \in Running
  BY DEF TypeOK
<1>2. Skip(w, k) = new
  BY DEF Skip
<1>3. /\ listed \in Running /\ listed.pc = "monitors" /\ listed.batch = r.batch
      /\ listed.todo = r.todo /\ listed.cur = r.cur
  BY <1>1 DEF Running
<1> HIDE DEF listed
<1>4. /\ gone \in Running /\ gone.pc = "monitors" /\ gone.batch = r.batch
      /\ gone.todo = r.todo /\ gone.cur = r.cur /\ gone.due = r.due \ {k}
  BY <1>1, <1>3 DEF Running
<1> HIDE DEF gone
<1>5. /\ nobody \in Running /\ nobody.pc = "monitors" /\ nobody.batch = r.batch
      /\ nobody.todo = r.todo /\ nobody.cur = r.cur /\ nobody.due = r.due \ {k}
      /\ nobody.to = None
  BY <1>4 DEF Running
<1> HIDE DEF nobody
<1>6. /\ new \in Running /\ new.pc = "monitors" /\ new.batch = r.batch
      /\ new.todo = r.todo /\ new.cur = r.cur /\ new.due = r.due \ {k}
      /\ new.to = None
  BY <1>5, NumbersAssumption DEF Running
<1>7. QED  BY <1>2, <1>6

LEMMA LeaveRecord ==
  ASSUME TypeOK, NEW w \in Workers
  PROVE  LET r == worker[w]
             new == Leave(w)
         IN  /\ new \in Running /\ new.pc = "next" /\ new.batch = r.batch
             /\ new.todo = r.todo \ {r.cur} /\ new.cur = 0 /\ new.to = None
<1> DEFINE r == worker[w]
           over == [r EXCEPT !.pc = "next"]
           did == [over EXCEPT !.todo = r.todo \ {r.cur}]
           none == [did EXCEPT !.cur = 0]
           cleared == [none EXCEPT !.due = {}]
           nobody == [cleared EXCEPT !.to = None]
           new == [nobody EXCEPT !.attempt = 0]
<1>1. r \in Running
  BY DEF TypeOK
<1>2. Leave(w) = new
  BY DEF Leave
<1>3. over \in Running /\ over.pc = "next" /\ over.batch = r.batch
  BY <1>1 DEF Running
<1> HIDE DEF over
<1>4. /\ did \in Running /\ did.pc = "next" /\ did.batch = r.batch
      /\ did.batch = r.batch /\ did.todo = r.todo \ {r.cur}
  BY <1>1, <1>3 DEF Running
<1> HIDE DEF did
<1>5. /\ none \in Running /\ none.pc = "next" /\ none.batch = r.batch
      /\ none.todo = r.todo \ {r.cur} /\ none.cur = 0
  BY <1>4 DEF Running
<1> HIDE DEF none
<1>6. /\ cleared \in Running /\ cleared.pc = "next" /\ cleared.batch = r.batch
      /\ cleared.todo = r.todo \ {r.cur} /\ cleared.cur = 0
  BY <1>5 DEF Running
<1> HIDE DEF cleared
<1>7. /\ nobody \in Running /\ nobody.pc = "next" /\ nobody.batch = r.batch
      /\ nobody.todo = r.todo \ {r.cur} /\ nobody.cur = 0 /\ nobody.to = None
  BY <1>6 DEF Running
<1> HIDE DEF nobody
<1>8. /\ new \in Running /\ new.pc = "next" /\ new.batch = r.batch
      /\ new.todo = r.todo \ {r.cur} /\ new.cur = 0 /\ new.to = None
  BY <1>7, NumbersAssumption DEF Running
<1>9. QED  BY <1>2, <1>8

-----------------------------------------------------------------------------
(* What a step of one invocation leaves true.                              *)
LEMMA OthersBusy ==
  ASSUME IInv, NEW w \in Workers, NEW new \in Running, worker' = [worker EXCEPT ![w] = new],
         UNCHANGED <<event, monitor, entitled>>,
         \A m \in Ids, k \in Monitors : outcome[m][k] # "none" => outcome'[m][k] # "none",
         NEW v \in Workers \ {w}
  PROVE  Busy(v)'
<1>1. worker'[v] = worker[v] /\ worker[v] \in Running
  BY DEF IInv, TypeOK
<1>2. \A m \in Ids : entitled[m] \subseteq Monitors
  BY DEF IInv, TypeOK
<1>3. Busy(v)
  BY DEF IInv
<1>4. worker[v].pc \in {"monitors", "posting"} => worker[v].cur \in Ids
  BY <1>1, <1>3 DEF Busy, Running
<1>5. QED  BY <1>1, <1>2, <1>3, <1>4 DEF Busy

(* An invocation owes no more than it did, and nothing was posted.         *)
LEMMA OwesLess ==
  ASSUME IInv, NEW w \in Workers, NEW new \in Running, worker' = [worker EXCEPT ![w] = new],
         posts' = posts, NEW m \in Ids, NEW k \in Monitors,
         queue'[m].receives = queue[m].receives,
         \A i \in 1 .. MaxAttempts :
           /\ m \in new.todo
           /\ new.cur = m => k \in new.due /\ (new.to = k => new.attempt <= i)
           => Owes(w, m, k, i)
  PROVE  WithinBudget(m, k)'
<1>1. \A v \in Workers : worker'[v] = IF v = w THEN new ELSE worker[v]
  BY DEF IInv, TypeOK
<1>2. WithinBudget(m, k)
  BY DEF IInv
<1>3. Owed(m, k)' \subseteq Owed(m, k)
  BY <1>1 DEF Owed, Owes
<1>4. /\ IsFiniteSet(Owed(m, k)') /\ Cardinality(Owed(m, k)') <= Cardinality(Owed(m, k))
  BY <1>2, <1>3, FS_Subset DEF WithinBudget
<1>5. /\ Cardinality(Owed(m, k)') \in Nat /\ Cardinality(Owed(m, k)) \in Nat
      /\ posts[m][k] \in Nat
  BY <1>2, <1>4, FS_CardinalityType DEF IInv, TypeOK, WithinBudget
<1>6. queue[m].receives \in Nat /\ MaxAttempts * queue[m].receives \in Nat
  <2>1. queue[m] \in Message(Workers, MaxReceive)
    BY DEF IInv, TypeOK
  <2>2. queue[m].receives \in 0 .. MaxReceive
    BY <2>1 DEF Message
  <2>3. QED  BY <2>2, NumbersAssumption
<1>7. posts[m][k] + Cardinality(Owed(m, k)') <= MaxAttempts * queue[m].receives
  <2>1. posts[m][k] + Cardinality(Owed(m, k)) <= MaxAttempts * queue[m].receives
    BY <1>2 DEF WithinBudget
  <2>2. QED  BY <1>4, <1>5, <1>6, <2>1
<1>8. QED  BY <1>4, <1>7 DEF WithinBudget

(* It owes the attempt no more that it just made.                          *)
LEMMA OwedSpent ==
  ASSUME IInv, NEW w \in Workers, worker[w].pc = "posting",
         NEW new \in Running, worker' = [worker EXCEPT ![w] = new],
         CountPost(w), queue' = queue, NEW m \in Ids, NEW k \in Monitors,
         \A i \in 1 .. MaxAttempts :
           /\ m \in new.todo
           /\ new.cur = m => k \in new.due /\ (new.to = k => new.attempt <= i)
           => Owes(w, m, k, i),
         m = worker[w].cur /\ k = worker[w].to =>
           ~ ( /\ m \in new.todo
               /\ new.cur = m => /\ k \in new.due
                                 /\ new.to = k => new.attempt <= worker[w].attempt )
  PROVE  WithinBudget(m, k)'
<1> DEFINE a == <<w, worker[w].attempt>>
<1>1. \A v \in Workers : worker'[v] = IF v = w THEN new ELSE worker[v]
  BY DEF IInv, TypeOK
<1>2. /\ IsFiniteSet(Owed(m, k))
      /\ posts[m][k] + Cardinality(Owed(m, k)) <= MaxAttempts * queue[m].receives
  BY DEF IInv, WithinBudget
<1>3. Owed(m, k)' \subseteq Owed(m, k)
  BY <1>1 DEF Owed, Owes
<1>4. /\ worker[w].cur \in worker[w].todo /\ worker[w].to \in worker[w].due
      /\ worker[w].attempt \in 1 .. MaxAttempts /\ worker[w].cur \in Ids
      /\ worker[w].to \in Monitors
  BY DEF IInv, Busy, TypeOK, Running
<1>5. posts'[m][k] = IF m = worker[w].cur /\ k = worker[w].to
                     THEN posts[m][k] + 1 ELSE posts[m][k]
  BY <1>4 DEF CountPost, IInv, TypeOK
<1>6. posts[m][k] \in Nat /\ Cardinality(Owed(m, k)) \in Nat
  BY <1>2, FS_CardinalityType DEF IInv, TypeOK
<1>7. queue[m].receives \in Nat /\ MaxAttempts * queue[m].receives \in Nat
  <2>1. queue[m] \in Message(Workers, MaxReceive)
    BY DEF IInv, TypeOK
  <2>2. queue[m].receives \in 0 .. MaxReceive
    BY <2>1 DEF Message
  <2>3. QED  BY <2>2, NumbersAssumption
<1>8. CASE m = worker[w].cur /\ k = worker[w].to
  <2>1. a \in Owed(m, k)
    BY <1>4, <1>8 DEF Owed, Owes
  <2>2. a \notin Owed(m, k)'
    BY <1>1, <1>8 DEF Owed, Owes
  <2> HIDE DEF a
  <2>3. Owed(m, k)' \subseteq Owed(m, k) \ {a}
    BY <1>3, <2>2
  <2>4. /\ IsFiniteSet(Owed(m, k) \ {a})
        /\ Cardinality(Owed(m, k) \ {a}) = Cardinality(Owed(m, k)) - 1
    BY <1>2, <2>1, FS_RemoveElement
  <2>5. /\ IsFiniteSet(Owed(m, k)')
        /\ Cardinality(Owed(m, k)') <= Cardinality(Owed(m, k)) - 1
    BY <2>3, <2>4, FS_Subset
  <2>6. Cardinality(Owed(m, k)') \in Nat
    BY <2>5, FS_CardinalityType
  <2>7. posts'[m][k] + Cardinality(Owed(m, k)') <= MaxAttempts * queue[m].receives
    BY <1>2, <1>5, <1>6, <1>7, <1>8, <2>5, <2>6
  <2>8. QED  BY <2>5, <2>7 DEF WithinBudget
<1>9. CASE ~(m = worker[w].cur /\ k = worker[w].to)
  <2>1. /\ IsFiniteSet(Owed(m, k)')
        /\ Cardinality(Owed(m, k)') <= Cardinality(Owed(m, k))
    BY <1>2, <1>3, FS_Subset
  <2>2. Cardinality(Owed(m, k)') \in Nat
    BY <2>1, FS_CardinalityType
  <2>3. posts'[m][k] + Cardinality(Owed(m, k)') <= MaxAttempts * queue[m].receives
    BY <1>2, <1>5, <1>6, <1>7, <1>9, <2>1, <2>2
  <2>4. QED  BY <2>1, <2>3 DEF WithinBudget
<1>10. QED  BY <1>8, <1>9

(* It has received m, and owes every attempt at every monitor.             *)
LEMMA OwedForReceive ==
  ASSUME IInv, NEW w \in Workers, worker[w].pc = "idle",
         NEW new \in Running, worker' = [worker EXCEPT ![w] = new],
         posts' = posts, NEW m \in Ids, NEW k \in Monitors,
         queue'[m].receives = queue[m].receives + 1
  PROVE  WithinBudget(m, k)'
<1> DEFINE all == {w} \X (1 .. MaxAttempts)
<1>1. \A v \in Workers : worker'[v] = IF v = w THEN new ELSE worker[v]
  BY DEF IInv, TypeOK
<1>2. /\ IsFiniteSet(Owed(m, k))
      /\ posts[m][k] + Cardinality(Owed(m, k)) <= MaxAttempts * queue[m].receives
  BY DEF IInv, WithinBudget
<1>3. Owed(m, k)' \subseteq Owed(m, k) \cup all
  BY <1>1 DEF Owed, Owes
<1>4. IsFiniteSet(all) /\ Cardinality(all) = MaxAttempts
  <2>1. IsFiniteSet(1 .. MaxAttempts) /\ Cardinality(1 .. MaxAttempts) = MaxAttempts
    BY FS_Interval, NumbersAssumption
  <2>2. IsFiniteSet({w}) /\ Cardinality({w}) = 1
    BY FS_Singleton
  <2>3. QED  BY <2>1, <2>2, FS_Product, NumbersAssumption
<1> HIDE DEF all
<1>5. /\ IsFiniteSet(Owed(m, k) \cup all)
      /\ Cardinality(Owed(m, k) \cup all) <= Cardinality(Owed(m, k)) + MaxAttempts
  <2>1. /\ IsFiniteSet(Owed(m, k) \cup all)
        /\ Cardinality(Owed(m, k) \cup all)
              = Cardinality(Owed(m, k)) + Cardinality(all) - Cardinality(Owed(m, k) \cap all)
    BY <1>2, <1>4, FS_Union
  <2>2. IsFiniteSet(Owed(m, k) \cap all)
    BY <1>4, FS_Intersection
  <2>3. Cardinality(Owed(m, k) \cap all) \in Nat /\ Cardinality(Owed(m, k)) \in Nat
    BY <1>2, <2>2, FS_CardinalityType
  <2>4. QED  BY <1>4, <2>1, <2>3, NumbersAssumption
<1>6. /\ IsFiniteSet(Owed(m, k)')
      /\ Cardinality(Owed(m, k)') <= Cardinality(Owed(m, k) \cup all)
  BY <1>3, <1>5, FS_Subset
<1>7. /\ Cardinality(Owed(m, k)') \in Nat /\ Cardinality(Owed(m, k)) \in Nat
      /\ Cardinality(Owed(m, k) \cup all) \in Nat /\ posts[m][k] \in Nat
  BY <1>2, <1>5, <1>6, FS_CardinalityType DEF IInv, TypeOK
<1>8. MaxAttempts * queue'[m].receives = MaxAttempts * queue[m].receives + MaxAttempts
      /\ MaxAttempts * queue[m].receives \in Nat
  <2>1. queue[m] \in Message(Workers, MaxReceive)
    BY DEF IInv, TypeOK
  <2>2. queue[m].receives \in 0 .. MaxReceive
    BY <2>1 DEF Message
  <2>3. QED  BY <2>2, NumbersAssumption
<1>9. posts[m][k] + Cardinality(Owed(m, k)') <= MaxAttempts * queue'[m].receives
  BY <1>2, <1>5, <1>6, <1>7, <1>8, NumbersAssumption
<1>10. QED  BY <1>6, <1>9 DEF WithinBudget

LEMMA Recorded ==
  ASSUME TypeOK, NEW m \in Ids, NEW k \in Monitors, NEW what \in Outcomes \ {"none"},
         Record(m, k, what)
  PROVE  /\ outcome' \in [Ids -> [Monitors -> Outcomes]]
         /\ outcome'[m][k] # "none"
         /\ \A n \in Ids, l \in Monitors : outcome[n][l] # "none" => outcome'[n][l] # "none"
<1> DEFINE one == IF outcome[m][k] = "delivered" THEN outcome[m][k] ELSE what
<1>1. outcome' = [outcome EXCEPT ![m][k] = one] /\ one \in Outcomes /\ one # "none"
  BY DEF Record, TypeOK, Outcomes
<1> HIDE DEF one
<1>2. QED  BY <1>1 DEF TypeOK

LEMMA Marked ==
  ASSUME TypeOK, NEW m \in Ids, NEW what \in {"handled", "failed"}, Mark(m, what)
  PROVE  /\ fate' \in [Ids -> Fates]
         /\ \A n \in Ids : n # m => fate'[n] = fate[n]
         /\ fate'[m] = IF fate[m] = "handled" THEN "handled" ELSE what
<1>1. fate' = [fate EXCEPT ![m] = IF fate[m] = "handled" THEN fate[m] ELSE what]
  BY DEF Mark
<1>2. QED  BY <1>1 DEF TypeOK, Fates

(* A step of one invocation that leaves queue and monitors alone.          *)
LEMMA WorkerStep ==
  ASSUME IInv, NEW w \in Workers, NEW new \in Running, worker' = [worker EXCEPT ![w] = new],
         UNCHANGED <<event, queue, monitor, entitled>>,
         posts' \in [Ids -> [Monitors -> Nat]],
         outcome' \in [Ids -> [Monitors -> Outcomes]],
         \A m \in Ids, k \in Monitors : outcome[m][k] # "none" => outcome'[m][k] # "none",
         fate' \in [Ids -> Fates],
         \A m \in Ids : fate'[m] # fate[m] =>
           /\ event[m] # None
           /\ fate'[m] = "handled" =>
                \A k \in entitled[m] : monitor[k] = "live" => outcome'[m][k] # "none",
         Busy(w)', \A m \in Ids, k \in Monitors : WithinBudget(m, k)'
  PROVE  IInv'
<1>1. TypeOK'
  BY DEF IInv, TypeOK
<1>2. \A v \in Workers : Busy(v)'
  BY OthersBusy
<1>3. Countable'
  BY DEF IInv, Countable
<1>4. EntitledWatch'
  BY DEF IInv, EntitledWatch
<1>5. NoSilentSkip'
  <2>1. \A m \in Ids : entitled[m] \subseteq Monitors
    BY DEF IInv, TypeOK
  <2>2. QED  BY <2>1 DEF IInv, NoSilentSkip
<1>6. QED  BY <1>1, <1>2, <1>3, <1>4, <1>5 DEF IInv

LEMMA FetchKeeps ==
  ASSUME IInv, NEW w \in Workers, NEW m \in Ids, FetchMonitors(w, m)
  PROVE  IInv'
<1> DEFINE r == worker[w]
           due == Watching(event[m])
           listing == [r EXCEPT !.pc = "monitors"]
           current == [listing EXCEPT !.cur = m]
           new == [current EXCEPT !.due = due]
<1>1. /\ r \in Running /\ due \in SUBSET Monitors /\ r.pc = "next" /\ m \in r.todo
      /\ r.cur = 0 /\ r.to = None
  BY DEF IInv, TypeOK, Busy, FetchMonitors, Watching
<1>2. /\ worker' = [worker EXCEPT ![w] = new]
      /\ UNCHANGED <<event, queue, monitor, posts, outcome, fate, entitled>>
  BY DEF FetchMonitors
<1>3. due = {k \in Monitors : monitor[k] = "live" /\ Watched[k] = event[m]}
  BY DEF Watching
<1> HIDE DEF due
<1>4. /\ listing \in Running /\ listing.pc = "monitors"
      /\ listing.batch = r.batch /\ listing.todo = r.todo
      /\ listing.to = None
  BY <1>1 DEF Running
<1> HIDE DEF listing
<1>5. /\ current \in Running /\ current.pc = "monitors"
      /\ current.batch = r.batch /\ current.todo = r.todo
      /\ current.to = None /\ current.cur = m
  BY <1>4 DEF Running
<1> HIDE DEF current
<1>6. /\ new \in Running /\ new.pc = "monitors" /\ new.batch = r.batch /\ new.todo = r.todo
      /\ new.to = None /\ new.cur = m /\ new.due = due
  BY <1>1, <1>5 DEF Running
<1> HIDE DEF new
<1>7. worker'[w] = new
  BY <1>2 DEF IInv, TypeOK
<1>8. Busy(w)'
  <2>1. \A k \in entitled[m] : monitor[k] = "live" => k \in due
    BY <1>3 DEF IInv, TypeOK, EntitledWatch
  <2>2. \A n \in r.todo \cup r.batch : event[n] # None
    BY DEF IInv, Busy
  <2>3. QED  BY <1>1, <1>2, <1>6, <1>7, <2>1, <2>2 DEF Busy
<1>9. ASSUME NEW n \in Ids, NEW k \in Monitors PROVE WithinBudget(n, k)'
  <2>1. m # 0
    BY DEF Ids
  <2>2. \A i \in 1 .. MaxAttempts : n \in new.todo => Owes(w, n, k, i)
    BY <1>1, <1>6 DEF Owes, Ids
  <2>3. QED  BY <1>2, <1>6, <2>2, OwesLess
<1>10. QED  BY <1>2, <1>6, <1>8, <1>9, WorkerStep DEF IInv, TypeOK

LEMMA FetchRaisesKeeps ==
  ASSUME IInv, NEW w \in Workers, NEW m \in Ids, FetchRaises(w, m)
  PROVE  IInv'
<1> DEFINE r == worker[w]
           did == [r EXCEPT !.todo = r.todo \ {m}]
           new == [did EXCEPT !.broken = TRUE]
<1>1. r \in Running /\ r.pc = "next" /\ m \in r.todo /\ r.cur = 0 /\ r.to = None
  BY DEF IInv, TypeOK, Busy, FetchRaises
<1>2. /\ worker' = [worker EXCEPT ![w] = new] /\ Mark(m, "failed")
      /\ UNCHANGED <<event, queue, monitor, posts, outcome, entitled>>
  BY DEF FetchRaises
<1>3. /\ did \in Running /\ did.pc = "next" /\ did.batch = r.batch /\ did.todo = r.todo \ {m}
      /\ did.to = None /\ did.cur = 0
  BY <1>1 DEF Running
<1> HIDE DEF did
<1>4. /\ new \in Running /\ new.pc = "next" /\ new.batch = r.batch /\ new.todo = r.todo \ {m}
      /\ new.to = None /\ new.cur = 0
  BY <1>3 DEF Running
<1> HIDE DEF new
<1>5. worker'[w] = new
  BY <1>2 DEF IInv, TypeOK
<1>6. Busy(w)'
  <2>1. \A n \in r.todo \cup r.batch : event[n] # None
    BY DEF IInv, Busy
  <2>2. QED  BY <1>2, <1>4, <1>5, <2>1 DEF Busy
<1>7. ASSUME NEW n \in Ids, NEW k \in Monitors PROVE WithinBudget(n, k)'
  <2>1. \A i \in 1 .. MaxAttempts : n \in new.todo => Owes(w, n, k, i)
    BY <1>1, <1>4 DEF Owes, Ids
  <2>2. QED  BY <1>2, <1>4, <2>1, OwesLess
<1>8. /\ fate' \in [Ids -> Fates]
      /\ \A n \in Ids : fate'[n] # fate[n] => n = m /\ fate'[n] # "handled"
  BY <1>2, Marked DEF IInv
<1>9. event[m] # None
  BY <1>1 DEF IInv, Busy
<1>10. QED  BY <1>2, <1>4, <1>6, <1>7, <1>8, <1>9, WorkerStep DEF IInv, TypeOK

(* One monitor of the event is through, its outcome being known.           *)
LEMMA SkipIsBusy ==
  ASSUME IInv, NEW w \in Workers, NEW k \in Monitors,
         worker[w].pc \in {"monitors", "posting"}, k \in worker[w].due,
         worker' = [worker EXCEPT ![w] = Skip(w, k)],
         UNCHANGED <<event, monitor, entitled>>,
         \A n \in Ids, l \in Monitors : outcome[n][l] # "none" => outcome'[n][l] # "none",
         outcome'[worker[w].cur][k] # "none"
  PROVE  Busy(w)'
<1> DEFINE r == worker[w]
           new == Skip(w, k)
<1>1. /\ r.cur \in r.todo /\ r.cur \in Ids
      /\ \A l \in entitled[r.cur] : monitor[l] = "live" => l \in r.due \/ outcome[r.cur][l] # "none"
      /\ \A n \in r.todo \cup r.batch : event[n] # None
  BY DEF IInv, Busy, TypeOK, Running
<1>2. /\ new \in Running /\ new.pc = "monitors"
      /\ new.batch = r.batch /\ new.todo = r.todo /\ new.cur = r.cur
      /\ new.due = r.due \ {k} /\ new.to = None
  BY SkipRecord DEF IInv
<1> HIDE DEF new
<1>3. worker'[w] = new
  BY DEF IInv, TypeOK, new
<1>4. entitled[r.cur] \subseteq Monitors
  BY <1>1 DEF IInv, TypeOK
<1>5. QED  BY <1>1, <1>2, <1>3, <1>4 DEF Busy

LEMMA RefuseKeeps ==
  ASSUME IInv, NEW w \in Workers, NEW k \in Monitors, RefuseUrl(w, k)
  PROVE  IInv'
<1> DEFINE r == worker[w]
           new == Skip(w, k)
<1>1. /\ r \in Running /\ r.pc = "monitors" /\ k \in r.due /\ r.cur \in Ids /\ r.to = None
  BY DEF IInv, TypeOK, Running, Busy, RefuseUrl
<1>2. /\ worker' = [worker EXCEPT ![w] = new] /\ Record(r.cur, k, "unsafe")
      /\ UNCHANGED <<event, queue, monitor, posts, fate, entitled>>
  BY DEF RefuseUrl
<1>3. /\ outcome' \in [Ids -> [Monitors -> Outcomes]] /\ outcome'[r.cur][k] # "none"
      /\ \A n \in Ids, l \in Monitors : outcome[n][l] # "none" => outcome'[n][l] # "none"
  BY <1>1, <1>2, Recorded DEF IInv, Outcomes
<1>4. Busy(w)'
  BY <1>1, <1>2, <1>3, SkipIsBusy
<1>5. /\ new \in Running /\ new.batch = r.batch /\ new.todo = r.todo /\ new.cur = r.cur
      /\ new.due = r.due \ {k} /\ new.to = None
  BY SkipRecord DEF IInv
<1> HIDE DEF new
<1>6. ASSUME NEW n \in Ids, NEW l \in Monitors PROVE WithinBudget(n, l)'
  <2>1. \A i \in 1 .. MaxAttempts :
          n \in new.todo /\ (new.cur = n => l \in new.due) => Owes(w, n, l, i)
    BY <1>1, <1>5, NoneAssumption DEF Owes
  <2>2. QED  BY <1>2, <1>5, <2>1, OwesLess
<1>7. QED  BY <1>2, <1>3, <1>4, <1>5, <1>6, WorkerStep DEF IInv, TypeOK

LEMMA BeginKeeps ==
  ASSUME IInv, NEW w \in Workers, NEW k \in Monitors, BeginDelivery(w, k)
  PROVE  IInv'
<1> DEFINE r == worker[w]
           posting == [r EXCEPT !.pc = "posting"]
           aimed == [posting EXCEPT !.to = k]
           new == [aimed EXCEPT !.attempt = 1]
<1>1. /\ r \in Running /\ r.pc = "monitors" /\ k \in r.due /\ r.cur \in Ids /\ r.to = None
  BY DEF IInv, TypeOK, Running, Busy, BeginDelivery
<1>2. /\ worker' = [worker EXCEPT ![w] = new]
      /\ UNCHANGED <<event, queue, monitor, posts, outcome, fate, entitled>>
  BY DEF BeginDelivery
<1>3. /\ posting \in Running /\ posting.pc = "posting"
      /\ posting.batch = r.batch /\ posting.todo = r.todo
      /\ posting.cur = r.cur /\ posting.due = r.due
  BY <1>1 DEF Running
<1> HIDE DEF posting
<1>4. /\ aimed \in Running /\ aimed.pc = "posting" /\ aimed.batch = r.batch /\ aimed.todo = r.todo
      /\ aimed.cur = r.cur /\ aimed.due = r.due /\ aimed.to = k
  BY <1>3 DEF Running
<1> HIDE DEF aimed
<1>5. /\ new \in Running /\ new.pc = "posting" /\ new.batch = r.batch /\ new.todo = r.todo
      /\ new.cur = r.cur /\ new.due = r.due /\ new.to = k /\ new.attempt = 1
  BY <1>4, NumbersAssumption DEF Running
<1> HIDE DEF new
<1>6. worker'[w] = new
  BY <1>2 DEF IInv, TypeOK
<1>7. Busy(w)'
  <2>1. /\ r.cur \in r.todo
        /\ \A l \in entitled[r.cur] :
              monitor[l] = "live" => l \in r.due \/ outcome[r.cur][l] # "none"
        /\ \A n \in r.todo \cup r.batch : event[n] # None
    BY <1>1 DEF IInv, Busy
  <2>2. 1 \in 1 .. MaxAttempts
    BY NumbersAssumption
  <2>3. QED  BY <1>1, <1>2, <1>5, <1>6, <2>1, <2>2 DEF Busy
<1>8. ASSUME NEW n \in Ids, NEW l \in Monitors PROVE WithinBudget(n, l)'
  <2>1. \A i \in 1 .. MaxAttempts :
          n \in new.todo /\ (new.cur = n => l \in new.due) => Owes(w, n, l, i)
    BY <1>1, <1>5, NoneAssumption DEF Owes
  <2>2. QED  BY <1>2, <1>5, <2>1, OwesLess
<1>9. QED  BY <1>2, <1>5, <1>7, <1>8, WorkerStep DEF IInv, TypeOK

(* The invocation posts, and the attempt counts.                           *)
LEMMA PostTypes ==
  ASSUME IInv, NEW w \in Workers, worker[w].pc = "posting"
  PROVE  /\ worker[w] \in Running /\ worker[w].cur \in Ids
         /\ worker[w].cur \in worker[w].todo /\ event[worker[w].cur] # None
         /\ worker[w].to \in worker[w].due /\ worker[w].to \in Monitors
         /\ worker[w].attempt \in 1 .. MaxAttempts
         /\ CountPost(w) => posts' \in [Ids -> [Monitors -> Nat]]
<1>1. worker[w] \in Running /\ Busy(w) /\ posts \in [Ids -> [Monitors -> Nat]]
  BY DEF IInv, TypeOK
<1>2. /\ worker[w].cur \in Ids /\ worker[w].cur \in worker[w].todo
      /\ worker[w].to \in worker[w].due /\ worker[w].to \in Monitors
      /\ worker[w].attempt \in 1 .. MaxAttempts /\ event[worker[w].cur] # None
  BY <1>1 DEF Busy, Running
<1>3. CountPost(w) => posts' \in [Ids -> [Monitors -> Nat]]
  BY <1>1, <1>2 DEF CountPost
<1>4. QED  BY <1>1, <1>2, <1>3

LEMMA PostedAndSkipped ==
  ASSUME IInv, NEW w \in Workers, worker[w].pc = "posting", CountPost(w),
         NEW what \in Outcomes \ {"none"}, Record(worker[w].cur, worker[w].to, what),
         worker' = [worker EXCEPT ![w] = Skip(w, worker[w].to)],
         UNCHANGED <<event, queue, monitor, fate, entitled>>
  PROVE  IInv'
<1> DEFINE r == worker[w]
           k == worker[w].to
           new == Skip(w, k)
<1>1. /\ r \in Running /\ r.cur \in Ids /\ k \in r.due /\ k \in Monitors
      /\ posts' \in [Ids -> [Monitors -> Nat]]
  BY PostTypes
<1>2. /\ outcome' \in [Ids -> [Monitors -> Outcomes]] /\ outcome'[r.cur][k] # "none"
      /\ \A n \in Ids, l \in Monitors : outcome[n][l] # "none" => outcome'[n][l] # "none"
  BY <1>1, Recorded DEF IInv
<1>3. Busy(w)'
  BY <1>1, <1>2, SkipIsBusy
<1>4. /\ new \in Running /\ new.batch = r.batch /\ new.todo = r.todo /\ new.cur = r.cur
      /\ new.due = r.due \ {k} /\ new.to = None
  BY <1>1, SkipRecord DEF IInv
<1>5. worker' = [worker EXCEPT ![w] = new]
  OBVIOUS
<1> HIDE DEF new
<1>6. ASSUME NEW n \in Ids, NEW l \in Monitors PROVE WithinBudget(n, l)'
  <2>1. \A i \in 1 .. MaxAttempts :
          n \in new.todo /\ (new.cur = n => l \in new.due) => Owes(w, n, l, i)
    BY <1>1, <1>4 DEF Owes
  <2>2. n = r.cur /\ l = k => ~(new.cur = n => l \in new.due)
    BY <1>4
  <2>3. QED  BY <1>4, <1>5, <2>1, <2>2, OwedSpent
<1>7. QED  BY <1>1, <1>2, <1>3, <1>4, <1>5, <1>6, WorkerStep DEF IInv, TypeOK

LEMMA FailsKeeps ==
  ASSUME IInv, NEW w \in Workers, PostFails(w)
  PROVE  IInv'
<1> DEFINE r == worker[w]
           k == worker[w].to
           new == [r EXCEPT !.attempt = r.attempt + 1]
<1>1. /\ r \in Running /\ r.pc = "posting" /\ r.cur \in Ids /\ k \in r.due /\ k \in Monitors
      /\ r.attempt \in 1 .. MaxAttempts /\ posts' \in [Ids -> [Monitors -> Nat]]
      /\ r.cur \in r.todo
  BY PostTypes DEF PostFails
<1>2. CASE r.attempt < MaxAttempts
  <2>1. /\ worker' = [worker EXCEPT ![w] = new] /\ CountPost(w)
        /\ UNCHANGED <<event, queue, monitor, outcome, fate, entitled>>
    BY <1>2 DEF PostFails
  <2>2. r.attempt + 1 \in 1 .. MaxAttempts
    BY <1>1, <1>2, NumbersAssumption
  <2>3. /\ new \in Running /\ new.pc = "posting"
        /\ new.batch = r.batch /\ new.todo = r.todo /\ new.cur = r.cur
        /\ new.due = r.due /\ new.to = k /\ new.attempt = r.attempt + 1
    BY <1>1, <2>2 DEF Running
  <2> HIDE DEF new
  <2>4. worker'[w] = new
    BY <2>1 DEF IInv, TypeOK
  <2>5. Busy(w)'
    <3>1. /\ \A l \in entitled[r.cur] :
                monitor[l] = "live" => l \in r.due \/ outcome[r.cur][l] # "none"
          /\ \A n \in r.todo \cup r.batch : event[n] # None
      BY <1>1 DEF IInv, Busy
    <3>2. QED  BY <1>1, <2>1, <2>2, <2>3, <2>4, <3>1 DEF Busy
  <2>6. ASSUME NEW n \in Ids, NEW l \in Monitors PROVE WithinBudget(n, l)'
    <3>1. \A i \in 1 .. MaxAttempts :
            /\ n \in new.todo
            /\ new.cur = n => l \in new.due /\ (new.to = l => new.attempt <= i)
            => Owes(w, n, l, i)
      BY <1>1, <2>3, NumbersAssumption DEF Owes
    <3>2. ~(new.attempt <= r.attempt)
      BY <1>1, <2>3
    <3>3. QED  BY <1>1, <2>1, <2>3, <3>1, <3>2, OwedSpent
  <2>7. QED  BY <1>1, <2>1, <2>3, <2>5, <2>6, WorkerStep DEF IInv, TypeOK
<1>3. CASE ~(r.attempt < MaxAttempts)
  BY <1>1, <1>3, PostedAndSkipped DEF PostFails, Outcomes
<1>4. QED  BY <1>2, <1>3

(* The event is over for the invocation: handled, or given up.             *)
LEMMA LeaveKeeps ==
  ASSUME IInv, NEW w \in Workers, worker[w].cur \in worker[w].todo,
         worker' = [worker EXCEPT ![w] = Leave(w)],
         UNCHANGED <<event, queue, monitor, posts, entitled>>,
         outcome' \in [Ids -> [Monitors -> Outcomes]],
         \A n \in Ids, l \in Monitors : outcome[n][l] # "none" => outcome'[n][l] # "none",
         fate' \in [Ids -> Fates],
         \A n \in Ids : fate'[n] # fate[n] =>
           /\ n = worker[w].cur
           /\ fate'[n] = "handled" =>
                \A k \in entitled[n] : monitor[k] = "live" => outcome'[n][k] # "none"
  PROVE  IInv'
<1> DEFINE r == worker[w]
           new == Leave(w)
<1>1. /\ new \in Running /\ new.pc = "next"
      /\ new.batch = r.batch /\ new.todo = r.todo \ {r.cur} /\ new.cur = 0
      /\ new.to = None
  BY LeaveRecord DEF IInv
<1>2. worker' = [worker EXCEPT ![w] = new]
  OBVIOUS
<1> HIDE DEF new
<1>3. worker'[w] = new
  BY <1>2 DEF IInv, TypeOK
<1>4. event[r.cur] # None /\ \A n \in r.todo \cup r.batch : event[n] # None
  BY DEF IInv, Busy
<1>5. Busy(w)'
  BY <1>1, <1>3, <1>4 DEF Busy
<1>6. ASSUME NEW n \in Ids, NEW l \in Monitors PROVE WithinBudget(n, l)'
  <2>1. \A i \in 1 .. MaxAttempts : n \in new.todo => Owes(w, n, l, i)
    BY <1>1 DEF Owes
  <2>2. QED  BY <1>1, <1>2, <2>1, OwesLess
<1>7. QED  BY <1>1, <1>2, <1>4, <1>5, <1>6, WorkerStep DEF IInv, TypeOK

LEMMA RaisesKeeps ==
  ASSUME IInv, NEW w \in Workers, PostRaises(w)
  PROVE  IInv'
<1>1. /\ worker[w].cur \in Ids /\ worker[w].cur \in worker[w].todo /\ worker[w].to \in Monitors
  BY PostTypes DEF PostRaises
<1>2. /\ outcome' \in [Ids -> [Monitors -> Outcomes]]
      /\ \A n \in Ids, l \in Monitors : outcome[n][l] # "none" => outcome'[n][l] # "none"
  BY <1>1, Recorded DEF IInv, Outcomes, PostRaises
<1>3. /\ fate' \in [Ids -> Fates]
      /\ \A n \in Ids : fate'[n] # fate[n] => n = worker[w].cur /\ fate'[n] # "handled"
  BY <1>1, Marked DEF IInv, PostRaises
<1>4. QED  BY <1>1, <1>2, <1>3, LeaveKeeps DEF PostRaises

LEMMA HandledKeeps ==
  ASSUME IInv, NEW w \in Workers, EventHandled(w)
  PROVE  IInv'
<1>1. worker[w].pc = "monitors" /\ worker[w].due = {} /\ worker[w] \in Running
  BY DEF EventHandled, IInv, TypeOK
<1>2. /\ worker[w].cur \in Ids /\ worker[w].cur \in worker[w].todo
      /\ \A k \in entitled[worker[w].cur] :
            monitor[k] = "live" => outcome[worker[w].cur][k] # "none"
  BY <1>1 DEF IInv, Busy, Running
<1>3. /\ fate' \in [Ids -> Fates]
      /\ \A n \in Ids : fate'[n] # fate[n] => n = worker[w].cur
  BY <1>2, Marked DEF IInv, EventHandled
<1>4. /\ outcome' = outcome /\ outcome \in [Ids -> [Monitors -> Outcomes]]
      /\ worker' = [worker EXCEPT ![w] = Leave(w)]
      /\ UNCHANGED <<event, queue, monitor, posts, entitled>>
  BY DEF EventHandled, IInv, TypeOK
<1>5. ASSUME NEW n \in Ids, fate'[n] # fate[n]
      PROVE  /\ n = worker[w].cur
             /\ \A k \in entitled[n] : monitor[k] = "live" => outcome'[n][k] # "none"
  BY <1>2, <1>3, <1>4, <1>5
<1>6. QED  BY <1>2, <1>3, <1>4, <1>5, LeaveKeeps

-----------------------------------------------------------------------------
(* The steps of the queue, and of those who register and publish.          *)
LEMMA IdleKeeps ==
  ASSUME IInv, NEW w \in Workers, worker' = [worker EXCEPT ![w] = Idle],
         UNCHANGED <<event, monitor, posts, outcome, fate, entitled>>,
         queue' \in [Ids -> Message(Workers, MaxReceive)],
         \A m \in Ids : /\ queue'[m].receives = queue[m].receives
                        /\ queue'[m] = queue[m] \/ (event[m] # None /\ queue'[m].at = "deleted")
  PROVE  IInv'
<1>1. /\ Idle \in Running /\ Idle.pc = "idle" /\ Idle.batch = {} /\ Idle.todo = {}
      /\ Idle.cur = 0 /\ Idle.to = None
  BY NumbersAssumption DEF Idle, Running
<1>2. worker'[w] = Idle
  BY DEF IInv, TypeOK
<1>3. TypeOK'
  BY <1>1 DEF IInv, TypeOK
<1>4. Busy(w)'
  BY <1>1, <1>2 DEF Busy
<1>5. \A v \in Workers : Busy(v)'
  BY <1>1, <1>4, OthersBusy
<1>6. Countable'
  BY DEF IInv, Countable
<1>7. EntitledWatch' /\ NoSilentSkip'
  BY DEF IInv, EntitledWatch, NoSilentSkip
<1>8. \A m \in Ids, k \in Monitors : WithinBudget(m, k)'
  BY <1>1, OwesLess
<1>9. QED  BY <1>3, <1>5, <1>6, <1>7, <1>8 DEF IInv

LEMMA ReturnKeeps ==
  ASSUME IInv, NEW w \in Workers, Return(w)
  PROVE  IInv'
<1> DEFINE batch == worker[w].batch
<1>1. /\ worker' = [worker EXCEPT ![w] = Idle]
      /\ UNCHANGED <<event, monitor, posts, outcome, fate, entitled>>
  BY DEF Return
<1>2. PICK gone \in MayDelete(queue, batch, w) : queue' = DeleteAll(queue, gone)
  BY DEF Return
<1>3. /\ worker[w] \in Running /\ queue \in [Ids -> Message(Workers, MaxReceive)]
      /\ \A m \in batch : event[m] # None
  <2>1. Busy(w) /\ TypeOK
    BY DEF IInv
  <2>2. QED  BY <2>1 DEF TypeOK, Busy
<1>4. batch \in SUBSET Ids
  BY <1>3 DEF Running
<1>5. /\ queue' \in [Ids -> Message(Workers, MaxReceive)]
      /\ \A m \in Ids : /\ queue'[m].receives = queue[m].receives
                        /\ queue'[m] = queue[m] \/ (m \in batch /\ queue'[m].at = "deleted")
  <2>1. MaxReceive \in Nat
    BY NumbersAssumption
  <2>2. queue \in [Ids -> Message(Workers, MaxReceive)]
    BY <1>3
  <2> HIDE DEF batch
  <2>3. gone \subseteq batch /\ DOMAIN queue = Ids
    BY <2>2 DEF MayDelete
  <2>4. queue' = [m \in Ids |-> IF m \in gone THEN Deleted(queue[m]) ELSE queue[m]]
    BY <1>2, <2>3 DEF DeleteAll
  <2>5. ASSUME NEW m \in Ids
        PROVE  /\ queue'[m] \in Message(Workers, MaxReceive)
               /\ queue'[m].receives = queue[m].receives
               /\ queue'[m] = queue[m] \/ (m \in batch /\ queue'[m].at = "deleted")
    <3>1. queue[m] \in Message(Workers, MaxReceive)
      BY <2>2
    <3>2. CASE m \in gone
      BY <2>3, <2>4, <3>1, <3>2 DEF Deleted, Message
    <3>3. CASE m \notin gone
      BY <2>4, <3>1, <3>3
    <3>4. QED  BY <3>2, <3>3
  <2>6. QED  BY <2>4, <2>5
<1>6. QED  BY <1>1, <1>3, <1>5, IdleKeeps

LEMMA KillKeeps ==
  ASSUME IInv, NEW w \in Workers, Kill(w)
  PROVE  IInv'
<1>1. /\ worker' = [worker EXCEPT ![w] = Idle]
      /\ UNCHANGED <<event, queue, monitor, posts, outcome, fate, entitled>>
  BY DEF Kill
<1>2. queue \in [Ids -> Message(Workers, MaxReceive)]
  BY DEF IInv, TypeOK
<1>3. QED  BY <1>1, <1>2, IdleKeeps

LEMMA ReceiveKeeps ==
  ASSUME IInv, NEW w \in Workers, NEW batch \in SUBSET Ids, ReceiveBatch(w, batch)
  PROVE  IInv'
<1> DEFINE started == [Idle EXCEPT !.pc = "next"]
           holding == [started EXCEPT !.batch = batch]
           new == [holding EXCEPT !.todo = batch]
<1>1. worker' = [worker EXCEPT ![w] = new] /\ worker[w].pc = "idle"
  BY DEF ReceiveBatch
<1>2. /\ new \in Running /\ new.pc = "next" /\ new.batch = batch /\ new.todo = batch
      /\ new.cur = 0 /\ new.to = None
  <2>1. started \in Running /\ started.pc = "next" /\ started.cur = 0 /\ started.to = None
    <3>1. Idle \in Running /\ Idle.cur = 0 /\ Idle.to = None
      BY NumbersAssumption DEF Idle, Running
    <3>2. QED  BY <3>1 DEF Running
  <2> HIDE DEF started
  <2>2. /\ holding \in Running /\ holding.pc = "next" /\ holding.batch = batch
        /\ holding.cur = 0 /\ holding.to = None
    BY <2>1 DEF Running
  <2> HIDE DEF holding
  <2>3. QED  BY <2>2 DEF Running
<1> HIDE DEF new
<1>3. /\ queue' = [m \in Ids |-> IF m \in batch THEN Received(queue[m], w, MaxReceive)
                                                ELSE queue[m]]
      /\ \A m \in batch : queue[m].at = "visible"
      /\ UNCHANGED <<event, monitor, posts, outcome, fate, entitled>>
  BY DEF ReceiveBatch
<1>4. ASSUME NEW m \in Ids
      PROVE  /\ queue'[m] \in Message(Workers, MaxReceive)
             /\ m \notin batch => queue'[m] = queue[m]
             /\ m \in batch => /\ queue'[m].at = "inflight"
                               /\ queue'[m].receives = queue[m].receives + 1
                               /\ event[m] # None
  <2>1. queue[m] \in Message(Workers, MaxReceive) /\ MaxReceive \in Nat
    BY NumbersAssumption DEF IInv, TypeOK
  <2>2. CASE m \in batch
    <3>1. queue'[m] = Received(queue[m], w, MaxReceive)
      BY <1>3, <2>2
    <3>2. queue[m].receives < MaxReceive /\ event[m] # None
      BY <1>3, <2>2 DEF IInv, Countable
    <3>3. QED  BY <2>1, <2>2, <3>1, <3>2 DEF Received, Message
  <2>3. CASE m \notin batch
    BY <1>3, <2>1, <2>3
  <2>4. QED  BY <2>2, <2>3
<1>5. TypeOK'
  <2>1. queue' \in [Ids -> Message(Workers, MaxReceive)]
    BY <1>3, <1>4
  <2>2. QED  BY <1>1, <1>2, <1>3, <2>1 DEF IInv, TypeOK
<1>6. \A v \in Workers : Busy(v)'
  <2>1. worker'[w] = new
    BY <1>1 DEF IInv, TypeOK
  <2>2. Busy(w)'
    BY <1>2, <1>3, <1>4, <2>1 DEF Busy
  <2>3. QED  BY <1>1, <1>2, <1>3, <2>2, OthersBusy
<1>7. Countable'
  BY <1>3, <1>4 DEF IInv, Countable
<1>8. EntitledWatch' /\ NoSilentSkip'
  BY <1>3 DEF IInv, EntitledWatch, NoSilentSkip
<1>9. ASSUME NEW m \in Ids, NEW k \in Monitors PROVE WithinBudget(m, k)'
  <2>1. CASE m \in batch
    BY <1>1, <1>2, <1>3, <1>4, <2>1, OwedForReceive
  <2>2. CASE m \notin batch
    BY <1>1, <1>2, <1>3, <1>4, <2>2, OwesLess
  <2>3. QED  BY <2>1, <2>2
<1>10. QED  BY <1>5, <1>6, <1>7, <1>8, <1>9 DEF IInv

LEMMA ExpiryKeeps ==
  ASSUME IInv, NEW m \in Ids, VisibilityExpires(m)
  PROVE  IInv'
<1>1. queue' = [queue EXCEPT ![m] = Reappeared(queue[m], MaxReceive)]
      /\ queue[m].at = "inflight"
      /\ UNCHANGED <<event, monitor, worker, posts, outcome, fate, entitled>>
  BY DEF VisibilityExpires
<1>2. queue[m] \in Message(Workers, MaxReceive) /\ MaxReceive \in Nat \ {0}
  BY NumbersAssumption DEF IInv, TypeOK
<1>3. /\ queue'[m] \in Message(Workers, MaxReceive) /\ queue'[m].at \in {"visible", "dead"}
      /\ queue'[m].at = "visible" => queue[m].receives # MaxReceive
      /\ queue'[m].receives = queue[m].receives
      /\ queue[m].receives \in 0 .. MaxReceive
  <2>1. queue'[m] = Reappeared(queue[m], MaxReceive)
    BY <1>1 DEF IInv, TypeOK
  <2>2. queue[m].receives \in 0 .. MaxReceive
    BY <1>2 DEF Message
  <2>3. QED  BY <1>2, <2>1, <2>2 DEF Reappeared, Message
<1>4. /\ queue' \in [Ids -> Message(Workers, MaxReceive)]
      /\ \A n \in Ids : n # m => queue'[n] = queue[n]
  BY <1>1, <1>3 DEF IInv, TypeOK
<1>5. TypeOK'
  BY <1>1, <1>4 DEF IInv, TypeOK
<1>6. \A v \in Workers : Busy(v)'
  BY <1>1 DEF IInv, Busy
<1>7. Countable'
  BY <1>1, <1>2, <1>3, <1>4 DEF IInv, Countable
<1>8. EntitledWatch' /\ NoSilentSkip'
  BY <1>1 DEF IInv, EntitledWatch, NoSilentSkip
<1>9. ASSUME NEW n \in Ids, NEW k \in Monitors PROVE WithinBudget(n, k)'
  <2>1. Owed(n, k)' = Owed(n, k)
    BY <1>1 DEF Owed, Owes
  <2>2. queue'[n].receives = queue[n].receives
    BY <1>3, <1>4
  <2>3. QED  BY <1>1, <2>1, <2>2 DEF IInv, WithinBudget
<1>10. QED  BY <1>5, <1>6, <1>7, <1>8, <1>9 DEF IInv

LEMMA PublishKeeps ==
  ASSUME IInv, NEW m \in Ids, NEW d \in Domains, PublishEvent(m, d)
  PROVE  IInv'
<1>1. /\ event[m] = None /\ event' = [event EXCEPT ![m] = d]
      /\ queue' = [queue EXCEPT ![m] = Sent(queue[m])]
      /\ entitled' = [entitled EXCEPT ![m] = Watching(d)]
      /\ UNCHANGED <<monitor, worker, posts, outcome, fate>>
  BY DEF PublishEvent
<1>2. queue[m].at = "unsent" /\ queue[m].receives = 0 /\ fate[m] = "none"
  BY <1>1 DEF IInv, Countable
<1>3. /\ queue'[m] \in Message(Workers, MaxReceive) /\ queue'[m].at = "visible"
      /\ queue'[m].receives = 0
  <2>1. queue[m] \in Message(Workers, MaxReceive) /\ queue'[m] = Sent(queue[m])
        /\ MaxReceive \in Nat
    BY <1>1, NumbersAssumption DEF IInv, TypeOK
  <2>2. QED  BY <1>2, <2>1 DEF Sent, Message
<1>4. Watching(d) = {k \in Monitors : monitor[k] = "live" /\ Watched[k] = d}
  BY DEF Watching
<1>5. /\ queue' \in [Ids -> Message(Workers, MaxReceive)]
      /\ event' \in [Ids -> Domains \cup {None}] /\ entitled' \in [Ids -> SUBSET Monitors]
      /\ event'[m] = d /\ d # None /\ entitled'[m] = Watching(d)
      /\ \A n \in Ids : n # m => /\ queue'[n] = queue[n] /\ event'[n] = event[n]
                                 /\ entitled'[n] = entitled[n]
  BY <1>1, <1>3, <1>4, NoneAssumption DEF IInv, TypeOK
<1>6. TypeOK'
  BY <1>1, <1>5 DEF IInv, TypeOK
<1>7. ASSUME NEW v \in Workers PROVE Busy(v)'
  <2>1. worker[v] \in Running /\ Busy(v) /\ worker'[v] = worker[v]
    BY <1>1 DEF IInv, TypeOK
  <2>2. worker[v].todo \subseteq Ids /\ worker[v].batch \subseteq Ids
    BY <2>1 DEF Running
  <2>3. m \notin worker[v].todo \cup worker[v].batch
    BY <1>1, <2>1 DEF Busy
  <2>4. \A n \in worker[v].todo \cup worker[v].batch : event'[n] = event[n] /\ entitled'[n] = entitled[n]
    BY <1>5, <2>2, <2>3
  <2>5. QED  BY <1>1, <2>1, <2>4 DEF Busy
<1>8. Countable'
  <2>1. MaxReceive > 0
    BY NumbersAssumption
  <2>2. QED  BY <1>1, <1>3, <1>5, <2>1 DEF IInv, Countable
<1>9. EntitledWatch' /\ NoSilentSkip'
  BY <1>1, <1>2, <1>4, <1>5 DEF IInv, EntitledWatch, NoSilentSkip
<1>10. ASSUME NEW n \in Ids, NEW k \in Monitors PROVE WithinBudget(n, k)'
  <2>1. Owed(n, k)' = Owed(n, k)
    BY <1>1 DEF Owed, Owes
  <2>2. queue'[n].receives = queue[n].receives
    BY <1>2, <1>3, <1>5
  <2>3. QED  BY <1>1, <2>1, <2>2 DEF IInv, WithinBudget
<1>11. QED  BY <1>6, <1>7, <1>8, <1>9, <1>10 DEF IInv

LEMMA RegisterKeeps ==
  ASSUME IInv, NEW k \in Monitors, InsertMonitor(k) \/ DeleteMonitor(k)
  PROVE  IInv'
<1>1. /\ UNCHANGED <<event, queue, worker, posts, outcome, fate, entitled>>
      /\ monitor' = [monitor EXCEPT ![k] = "live"] \/ monitor' = [monitor EXCEPT ![k] = "deleted"]
      /\ monitor'[k] = "live" => monitor[k] = "unregistered"
  BY DEF InsertMonitor, DeleteMonitor, IInv, TypeOK
<1>2. /\ monitor' \in [Monitors -> {"unregistered", "live", "deleted"}]
      /\ \A l \in Monitors : /\ monitor'[l] = "unregistered" => monitor[l] = "unregistered"
                             /\ l # k => monitor'[l] = monitor[l]
  BY <1>1 DEF IInv, TypeOK
<1>3. \A m \in Ids : entitled[m] \subseteq Monitors
  BY DEF IInv, TypeOK
<1>4. \A m \in Ids : \A l \in entitled[m] : monitor'[l] = "live" => monitor[l] = "live"
  BY <1>1, <1>2, <1>3 DEF IInv, EntitledWatch
<1>5. TypeOK'
  BY <1>1, <1>2 DEF IInv, TypeOK
<1>6. ASSUME NEW v \in Workers PROVE Busy(v)'
  <2>1. worker[v] \in Running /\ Busy(v) /\ worker'[v] = worker[v]
    BY <1>1 DEF IInv, TypeOK
  <2>2. worker[v].pc \in {"monitors", "posting"} => worker[v].cur \in Ids
    BY <2>1 DEF Busy, Running
  <2>3. QED  BY <1>1, <1>4, <2>1, <2>2 DEF Busy
<1>7. Countable'
  BY <1>1 DEF IInv, Countable
<1>8. EntitledWatch' /\ NoSilentSkip'
  BY <1>1, <1>2, <1>3, <1>4 DEF IInv, EntitledWatch, NoSilentSkip
<1>9. ASSUME NEW n \in Ids, NEW l \in Monitors PROVE WithinBudget(n, l)'
  <2>1. Owed(n, l)' = Owed(n, l)
    BY <1>1 DEF Owed, Owes
  <2>2. QED  BY <1>1, <2>1 DEF IInv, WithinBudget
<1>10. QED  BY <1>5, <1>6, <1>7, <1>8, <1>9 DEF IInv

-----------------------------------------------------------------------------
LEMMA InitIInv == ASSUME Init PROVE IInv
<1>1. TypeOK
  <2>1. (CHOOSE w \in Workers : TRUE) \in Workers
    BY WorkersAssumption
  <2>2. Unsent(CHOOSE w \in Workers : TRUE) \in Message(Workers, MaxReceive)
    BY <2>1, NumbersAssumption DEF Unsent, Message
  <2>3. Idle \in Running
    BY NumbersAssumption DEF Idle, Running
  <2>4. QED  BY <2>2, <2>3 DEF Init, TypeOK, Outcomes, Fates
<1>2. /\ Idle.pc = "idle" /\ Idle.batch = {} /\ Idle.todo = {} /\ Idle.cur = 0 /\ Idle.to = None
  BY DEF Idle
<1>3. \A w \in Workers : Busy(w)
  BY <1>2 DEF Init, Busy
<1>4. \A m \in Ids : queue[m].at = "unsent" /\ queue[m].receives = 0
  BY DEF Init, Unsent
<1>5. Countable /\ EntitledWatch /\ NoSilentSkip
  BY <1>4 DEF Init, Countable, EntitledWatch, NoSilentSkip
<1>6. ASSUME NEW m \in Ids, NEW k \in Monitors PROVE WithinBudget(m, k)
  <2>1. Owed(m, k) = {}
    BY <1>2 DEF Init, Owed, Owes
  <2>2. IsFiniteSet(Owed(m, k)) /\ Cardinality(Owed(m, k)) = 0
    BY <2>1, FS_EmptySet
  <2>3. posts[m][k] = 0 /\ MaxAttempts * queue[m].receives = 0
    BY <1>4, NumbersAssumption DEF Init
  <2>4. QED  BY <2>2, <2>3 DEF WithinBudget
<1>7. QED  BY <1>1, <1>3, <1>5, <1>6 DEF IInv

LEMMA NextIInv == ASSUME IInv, [Next]_vars PROVE IInv'
<1>1. ASSUME NEW m \in Ids, NEW d \in Domains, PublishEvent(m, d) PROVE IInv'
  BY <1>1, PublishKeeps
<1>2. ASSUME NEW k \in Monitors, InsertMonitor(k) \/ DeleteMonitor(k) PROVE IInv'
  BY <1>2, RegisterKeeps
<1>3. ASSUME NEW w \in Workers, NEW batch \in SUBSET Ids, ReceiveBatch(w, batch) PROVE IInv'
  BY <1>3, ReceiveKeeps
<1>4. ASSUME NEW w \in Workers, Step(w) PROVE IInv'
  <2>1. ASSUME PostAccepted(w) PROVE IInv'
    BY <2>1, PostedAndSkipped DEF PostAccepted, Outcomes
  <2>2. QED  BY <1>4, <2>1, FetchKeeps, FetchRaisesKeeps, RefuseKeeps, BeginKeeps, FailsKeeps,
                RaisesKeeps, HandledKeeps, ReturnKeeps DEF Step
<1>5. ASSUME NEW w \in Workers, Kill(w) PROVE IInv'
  BY <1>5, KillKeeps
<1>6. ASSUME NEW m \in Ids, VisibilityExpires(m) PROVE IInv'
  BY <1>6, ExpiryKeeps
<1>7. CASE UNCHANGED vars
  <2>1. TypeOK' /\ (\A w \in Workers : Busy(w)')
    BY <1>7 DEF IInv, TypeOK, Busy, vars
  <2>2. Countable' /\ EntitledWatch' /\ NoSilentSkip'
    BY <1>7 DEF IInv, Countable, EntitledWatch, NoSilentSkip, vars
  <2>3. \A m \in Ids, k \in Monitors : WithinBudget(m, k)'
    BY <1>7 DEF IInv, WithinBudget, Owed, Owes, vars
  <2>4. QED  BY <2>1, <2>2, <2>3 DEF IInv
<1>8. QED  BY <1>1, <1>2, <1>3, <1>4, <1>5, <1>6, <1>7 DEF Next

LEMMA Invariance == Spec => []IInv
BY InitIInv, NextIInv, PTL DEF Spec

-----------------------------------------------------------------------------
(* The types of Notifier's variables. *)
THEOREM TypeCorrect == Spec => []TypeOK
<1>1. IInv => TypeOK
  BY DEF IInv
<1>2. QED  BY <1>1, Invariance, PTL

(* process_message never ends normally with a registered monitor of the    *)
(* event passed over, while monitors come and go under its loop.           *)
THEOREM NoneIsSkipped == Spec => []NoSilentSkip
<1>1. IInv => NoSilentSkip
  BY DEF IInv
<1>2. QED  BY <1>1, Invariance, PTL

(* A webhook is POSTed to at most MaxAttempts times for each receive of    *)
(* the event, whichever invocations work on it and wherever they die.      *)
THEOREM PostsStayBounded == Spec => []PostsBounded
<1>1. IInv => PostsBounded
  <2> SUFFICES ASSUME IInv, NEW m \in Ids, NEW k \in Monitors
               PROVE  posts[m][k] <= MaxAttempts * queue[m].receives
    BY DEF PostsBounded
  <2>1. /\ posts[m][k] + Cardinality(Owed(m, k)) <= MaxAttempts * queue[m].receives
        /\ Cardinality(Owed(m, k)) \in Nat /\ posts[m][k] \in Nat
    BY FS_CardinalityType DEF IInv, WithinBudget, TypeOK
  <2>2. queue[m].receives \in Nat
    <3>1. queue[m] \in Message(Workers, MaxReceive)
      BY DEF IInv, TypeOK
    <3>2. QED  BY <3>1, NumbersAssumption DEF Message
  <2>3. MaxAttempts * queue[m].receives \in Nat
    BY <2>2, NumbersAssumption
  <2>4. QED  BY <2>1, <2>3
<1>2. QED  BY <1>1, Invariance, PTL
=============================================================================
