------------------------- MODULE CrawlTriggerProofs -------------------------
(***************************************************************************)
(* Theorems about CrawlTrigger: for any number of requests, domains and    *)
(* IPs, any TTL above the Lambda timeout (TimeoutBelowTTL), and PutItems   *)
(* and DeleteItems that DynamoDB performs more than once.                  *)
(***************************************************************************)
EXTENDS CrawlTrigger, TLAPS

-----------------------------------------------------------------------------
(* The inductive invariant.                                                *)
Keeping == Winning \cup Enqueued

(* A request is younger than the timeout, and its clock readings were      *)
(* taken in the order of the code.                                         *)
Timely(r) ==
  /\ req[r].pc \in Live => /\ req[r].started <= clock
                           /\ clock <= req[r].started + LambdaTimeout
  /\ req[r].pc \in {"locking"} \cup Winning => /\ req[r].started <= req[r].now
                                               /\ req[r].now <= clock

(* What it is about passed validate_crawl_domain. *)
Validated(r) ==
  /\ req[r].pc \in Live => req[r].domain \in Domains
  /\ req[r].pc \in (Live \ {"miss"}) \cup {"triggered"} => req[r].domain \notin NotBare

Lease(r) == [owner |-> r, expires_at |-> Expiry(req[r].now)]

(* The marker of a request that won it, and has not given it up, is there, *)
(* unless its time is over.                                                *)
HasLease(r) ==
  r \notin robbed /\ req[r].pc \in Keeping =>
    /\ req[r].domain \in Domains
    /\ marker[req[r].domain] = Lease(r) \/ Expiry(req[r].now) < clock

(* Two that won the same marker did so one after the other's lease. *)
Apart(r, q) ==
  /\ r # q /\ r \notin robbed /\ q \notin robbed
  /\ req[r].pc \in Keeping /\ req[q].pc \in Keeping
  /\ req[r].domain = req[q].domain
  => \/ Expiry(req[r].now) < req[q].won
     \/ Expiry(req[q].now) < req[r].won

IInv ==
  /\ TypeOK
  /\ \A r \in Requests : Timely(r) /\ Validated(r) /\ HasLease(r)
  /\ \A r, q \in Requests : Apart(r, q)

-----------------------------------------------------------------------------
(* Times.                                                                  *)
LEMMA StartOfWindow ==
  ASSUME NEW t \in Nat, NEW k \in Nat \ {0}
  PROVE  WindowStart(t, k) \in Nat /\ WindowStart(t, k) <= t /\ t <= WindowStart(t, k) + (k - 1)
BY DEF WindowStart

LEMMA AddedItem ==
  ASSUME NEW item \in Item, NEW now \in Nat, NEW k \in Nat
  PROVE  AddRequest(item, now, k) \in Item
BY DEF AddRequest, Item

(* A marker outlives the request that wrote it. *)
LEMMA LeaseOutlives ==
  ASSUME NEW now \in Times
  PROVE  Expiry(now) \in Nat /\ now + LambdaTimeout <= Expiry(now)
<1>1. /\ now \in Nat /\ Second \in Nat \ {0} /\ TTL \in Nat /\ LambdaTimeout \in Nat
      /\ LambdaTimeout + (Second - 1) <= TTL
  BY TriggerTimes, TimeoutBelowTTL DEF Times
<1>2. /\ WindowStart(now, Second) \in Nat
      /\ now <= WindowStart(now, Second) + (Second - 1)
  BY <1>1, StartOfWindow
<1>3. QED  BY <1>1, <1>2 DEF Expiry

(* So a request that is still at it holds its marker. *)
LEMMA WinnerHolds ==
  ASSUME IInv, NEW r \in Requests, r \notin robbed, req[r].pc \in Winning
  PROVE  /\ req[r].domain \in Domains /\ marker[req[r].domain] = Lease(r)
         /\ clock <= Expiry(req[r].now)
<1>1. /\ req[r] \in RequestState /\ clock \in Nat
      /\ req[r].pc \in Live /\ req[r].pc \in Keeping
  BY DEF IInv, TypeOK, Times, Live, Keeping, Enqueued
<1>2. /\ req[r].now \in Times /\ req[r].started \in Nat /\ req[r].now \in Nat
  BY <1>1 DEF RequestState, Times
<1>3. clock <= req[r].started + LambdaTimeout /\ req[r].started <= req[r].now
  BY <1>1 DEF IInv, Timely
<1>4. Expiry(req[r].now) \in Nat /\ req[r].now + LambdaTimeout <= Expiry(req[r].now)
  BY <1>2, LeaseOutlives
<1>5. clock <= Expiry(req[r].now)
  BY <1>1, <1>2, <1>3, <1>4, TriggerTimes
<1>6. req[r].domain \in Domains
      /\ (marker[req[r].domain] = Lease(r) \/ Expiry(req[r].now) < clock)
  BY <1>1 DEF IInv, HasLease
<1>7. QED  BY <1>1, <1>4, <1>5, <1>6

-----------------------------------------------------------------------------
(* A request goes on and neither wins nor touches a marker.                *)
LEMMA GoesOn ==
  ASSUME IInv, NEW r \in Requests, NEW new \in RequestState,
         req' = [req EXCEPT ![r] = new],
         UNCHANGED <<clock, marker, robbed>>,
         rows' \subseteq Domains \ NotBare, crawlQueue' \subseteq Domains \ NotBare,
         budget' \in [IPs -> [Times -> Item]],
         new.pc \in Live => new.started <= clock /\ clock <= new.started + LambdaTimeout,
         new.pc \in {"locking"} \cup Winning => new.started <= new.now /\ new.now <= clock,
         new.pc \in Live => new.domain \in Domains,
         new.pc \in (Live \ {"miss"}) \cup {"triggered"} => new.domain \notin NotBare,
         new.pc \in Keeping =>
           /\ req[r].pc \in Keeping /\ new.domain = req[r].domain
           /\ new.now = req[r].now /\ new.won = req[r].won
  PROVE  IInv'
<1>1. /\ req' \in [Requests -> RequestState] /\ req'[r] = new
      /\ \A q \in Requests : q # r => req'[q] = req[q]
  BY DEF IInv, TypeOK
<1>2. TypeOK'
  BY <1>1 DEF IInv, TypeOK
<1>3. \A q \in Requests : Timely(q)' /\ Validated(q)'
  BY <1>1 DEF IInv, Timely, Validated
<1>4. \A q \in Requests : HasLease(q)'
  BY <1>1 DEF IInv, HasLease, Lease
<1>5. \A p, q \in Requests : Apart(p, q)'
  BY <1>1 DEF IInv, Apart
<1>6. QED  BY <1>2, <1>3, <1>4, <1>5 DEF IInv

LEMMA GotoRecord ==
  ASSUME TypeOK, NEW r \in Requests, NEW pc \in {"idle"} \cup Live \cup Answers
  PROVE  LET new == [req[r] EXCEPT !.pc = pc]
         IN  /\ new \in RequestState /\ new.pc = pc /\ new.domain = req[r].domain
             /\ new.started = req[r].started /\ new.now = req[r].now /\ new.won = req[r].won
<1>1. req[r] \in RequestState
  BY DEF TypeOK
<1>2. QED  BY <1>1 DEF RequestState

(* The same for a change of nothing but the place in the code. *)
LEMMA GotoKeeps ==
  ASSUME IInv, NEW r \in Requests, NEW pc \in Live \cup Answers, Goto(r, pc),
         UNCHANGED <<clock, marker, robbed>>,
         rows' \subseteq Domains \ NotBare, crawlQueue' \subseteq Domains \ NotBare,
         budget' \in [IPs -> [Times -> Item]],
         pc # "miss", pc # "locking", pc \in Live \cup {"triggered"} => req[r].pc \in Live \ {"miss"},
         pc \in Keeping => req[r].pc \in Winning
  PROVE  IInv'
<1> DEFINE new == [req[r] EXCEPT !.pc = pc]
<1>1. /\ new \in RequestState /\ new.pc = pc /\ new.domain = req[r].domain
      /\ new.started = req[r].started /\ new.now = req[r].now /\ new.won = req[r].won
  BY GotoRecord DEF IInv
<1>2. req' = [req EXCEPT ![r] = new]
  BY DEF Goto
<1> HIDE DEF new
<1>3. Timely(r) /\ Validated(r)
  BY DEF IInv
<1>4. /\ new.pc \in Live => new.started <= clock /\ clock <= new.started + LambdaTimeout
      /\ new.pc \in {"locking"} \cup Winning => new.started <= new.now /\ new.now <= clock
      /\ new.pc \in Live => new.domain \in Domains
      /\ new.pc \in (Live \ {"miss"}) \cup {"triggered"} => new.domain \notin NotBare
  BY <1>1, <1>3 DEF Timely, Validated, Keeping, Enqueued
<1>5. new.pc \in Keeping =>
           /\ req[r].pc \in Keeping /\ new.domain = req[r].domain
           /\ new.now = req[r].now /\ new.won = req[r].won
  BY <1>1 DEF Keeping, Enqueued
<1>6. QED  BY <1>1, <1>2, <1>4, <1>5, GoesOn

LEMMA LookUpKeeps ==
  ASSUME IInv, NEW r \in Requests, NEW ip \in IPs, NEW d \in Domains, LookUp(r, ip, d)
  PROVE  IInv'
<1> DEFINE pc == IF d \in rows THEN "found" ELSE "miss"
           placed == [Idle EXCEPT !.pc = pc]
           asked == [placed EXCEPT !.ip = ip]
           about == [asked EXCEPT !.domain = d]
           new == [about EXCEPT !.started = clock]
<1>1. req' = [req EXCEPT ![r] = new] /\ UNCHANGED <<clock, rows, marker, budget, crawlQueue, robbed>>
  BY DEF LookUp
<1>2. clock \in Times /\ clock \in Nat /\ 0 \in Times /\ pc \in {"found", "miss"}
  BY TriggerTimes DEF IInv, TypeOK, Times
<1> HIDE DEF pc
<1>3. /\ new \in RequestState /\ new.pc = pc /\ new.domain = d /\ new.started = clock
  <2>1. pc \in {"idle"} \cup Live \cup Answers
    BY <1>2 DEF Live, Answers
  <2>2. placed \in RequestState /\ placed.pc = pc
    <3>1. Idle \in RequestState
      BY <1>2 DEF Idle, RequestState
    <3>2. QED  BY <2>1, <3>1 DEF RequestState
  <2> HIDE DEF placed
  <2>3. asked \in RequestState /\ asked.pc = pc
    BY <2>2 DEF RequestState
  <2> HIDE DEF asked
  <2>4. about \in RequestState /\ about.pc = pc /\ about.domain = d
    BY <2>3 DEF RequestState
  <2> HIDE DEF about
  <2>5. QED  BY <1>2, <2>4 DEF RequestState
<1> HIDE DEF new
<1>4. clock <= clock + LambdaTimeout /\ clock <= clock
  BY <1>2, TriggerTimes
<1>5. /\ rows \subseteq Domains \ NotBare /\ crawlQueue \subseteq Domains \ NotBare
      /\ budget \in [IPs -> [Times -> Item]]
  BY DEF IInv, TypeOK
<1>6. new.pc \notin Keeping /\ new.pc \notin {"locking"} \cup Winning /\ new.pc \notin Live \ {"miss"}
  BY <1>2, <1>3 DEF Live, Winning, Keeping, Enqueued
<1>7. new.pc \notin (Live \ {"miss"}) \cup {"triggered"}
  BY <1>2, <1>3, <1>6
<1>8. QED  BY <1>1, <1>3, <1>4, <1>5, <1>6, <1>7, GoesOn

LEMMA ValidateKeeps ==
  ASSUME IInv, NEW r \in Requests, Validate(r)
  PROVE  IInv'
<1> DEFINE locking == [req[r] EXCEPT !.pc = "locking"]
           new == [locking EXCEPT !.now = clock]
<1>1. /\ req[r].pc = "miss" /\ UNCHANGED <<clock, rows, marker, budget, crawlQueue, robbed>>
      /\ rows \subseteq Domains \ NotBare /\ crawlQueue \subseteq Domains \ NotBare
      /\ budget \in [IPs -> [Times -> Item]] /\ clock \in Times /\ req[r] \in RequestState
  BY DEF Validate, IInv, TypeOK
<1>0. PICK verdict \in Verdicts(req[r].domain) :
        req' = IF verdict = "refused"
               THEN [req EXCEPT ![r].pc = "refused"]
               ELSE [req EXCEPT ![r].pc = "locking", ![r].now = clock]
  BY DEF Validate
<1>2. CASE verdict = "refused"
  <2>1. Goto(r, "refused")
    BY <1>0, <1>2 DEF Goto
  <2>2. QED  BY <1>1, <2>1, GotoKeeps DEF Live, Answers, Keeping, Enqueued, Winning
<1>3. CASE verdict # "refused"
  <2>1. req' = [req EXCEPT ![r] = new] /\ req[r].domain \notin NotBare
    BY <1>0, <1>3 DEF Verdicts
  <2>2. /\ locking \in RequestState /\ locking.pc = "locking" /\ locking.domain = req[r].domain
        /\ locking.started = req[r].started
    BY <1>1 DEF RequestState, Live
  <2> HIDE DEF locking
  <2>3. /\ new \in RequestState /\ new.pc = "locking" /\ new.domain = req[r].domain
        /\ new.started = req[r].started /\ new.now = clock
    BY <1>1, <2>2 DEF RequestState
  <2> HIDE DEF new
  <2>4. /\ req[r].started <= clock /\ clock <= req[r].started + LambdaTimeout
        /\ req[r].domain \in Domains /\ clock <= clock
    BY <1>1 DEF IInv, Timely, Validated, Live, Times
  <2>5. QED  BY <1>1, <2>1, <2>3, <2>4, GoesOn DEF Live, Winning, Keeping, Enqueued
<1>4. QED  BY <1>2, <1>3

(* A marker is written when there is none, or one whose lease is over.     *)
LEMMA WrittenMarker ==
  ASSUME IInv, NEW r \in Requests, req[r].pc = "locking",
         Acquirable(marker[req[r].domain], req[r].now), WriteMarker(r)
  PROVE  /\ marker' \in [Domains -> Marker] /\ req[r].domain \in Domains
         /\ marker'[req[r].domain] = Lease(r)
         /\ \A d \in Domains : d # req[r].domain => marker'[d] = marker[d]
         /\ \A q \in Requests \ robbed :
              req[q].pc \in Keeping /\ req[q].domain = req[r].domain => Expiry(req[q].now) < clock
<1>1. /\ req[r].domain \in Domains /\ req[r].now \in Times
      /\ req[r].now <= clock /\ clock \in Nat
  BY DEF IInv, TypeOK, RequestState, Timely, Validated, Live, Times
<1>2. Expiry(req[r].now) \in Nat
  BY <1>1, LeaseOutlives
<1>3. /\ marker' \in [Domains -> Marker] /\ marker'[req[r].domain] = Lease(r)
      /\ \A d \in Domains : d # req[r].domain => marker'[d] = marker[d]
  BY <1>1, <1>2 DEF WriteMarker, IInv, TypeOK, Marker, Lease
<1>4. ASSUME NEW q \in Requests \ robbed, req[q].pc \in Keeping, req[q].domain = req[r].domain
      PROVE  Expiry(req[q].now) < clock
  <2>1. marker[req[r].domain] = Lease(q) \/ Expiry(req[q].now) < clock
    BY <1>4 DEF IInv, HasLease
  <2>2. CASE marker[req[r].domain] = Lease(q)
    <3>1. Lease(q).owner = q /\ NoMarker.owner = None /\ q # None
      BY NoneAssumption DEF Lease, NoMarker
    <3>2. Expiry(req[q].now) < req[r].now
      BY <2>2, <3>1 DEF Acquirable, Lease
    <3>3. Expiry(req[q].now) \in Nat
      <4>1. req[q].now \in Times
        BY DEF IInv, TypeOK, RequestState
      <4>2. QED  BY <4>1, LeaseOutlives
    <3>4. req[r].now \in Nat
      BY <1>1 DEF Times
    <3>5. QED  BY <1>1, <3>2, <3>3, <3>4
  <2>3. QED  BY <2>1, <2>2
<1>5. QED  BY <1>1, <1>3, <1>4

LEMMA AcquireKeeps ==
  ASSUME IInv, NEW r \in Requests, AcquireLock(r)
  PROVE  IInv'
<1> DEFINE first == [req[r] EXCEPT !.pc = "won"]
           new == [first EXCEPT !.won = clock]
<1>1. /\ req[r].pc = "locking" /\ Acquirable(marker[req[r].domain], req[r].now) /\ WriteMarker(r)
      /\ req' = [req EXCEPT ![r] = new]
      /\ UNCHANGED <<clock, rows, budget, crawlQueue, robbed>>
      /\ req[r] \in RequestState /\ clock \in Times
  BY DEF AcquireLock, IInv, TypeOK
<1>2. /\ first \in RequestState /\ first.pc = "won" /\ first.domain = req[r].domain
      /\ first.started = req[r].started /\ first.now = req[r].now
  BY <1>1 DEF RequestState, Live, Winning
<1> HIDE DEF first
<1>3. /\ new \in RequestState /\ new.pc = "won" /\ new.domain = req[r].domain
      /\ new.started = req[r].started /\ new.now = req[r].now /\ new.won = clock
  BY <1>1, <1>2 DEF RequestState
<1> HIDE DEF new
<1>4. /\ marker' \in [Domains -> Marker] /\ req[r].domain \in Domains
      /\ marker'[req[r].domain] = Lease(r)
      /\ \A d \in Domains : d # req[r].domain => marker'[d] = marker[d]
      /\ \A q \in Requests \ robbed :
           req[q].pc \in Keeping /\ req[q].domain = req[r].domain => Expiry(req[q].now) < clock
  BY <1>1, WrittenMarker
<1>5. /\ req' \in [Requests -> RequestState] /\ req'[r] = new
      /\ \A q \in Requests : q # r => req'[q] = req[q]
  BY <1>1, <1>3 DEF IInv, TypeOK
<1>6. TypeOK'
  BY <1>1, <1>4, <1>5 DEF IInv, TypeOK
<1>7. ASSUME NEW q \in Requests PROVE Timely(q)' /\ Validated(q)'
  <2>1. Timely(q) /\ Validated(q) /\ Timely(r) /\ Validated(r)
    BY DEF IInv
  <2>2. QED  BY <1>1, <1>3, <1>5, <2>1 DEF Timely, Validated, Live, Winning
<1>8. ASSUME NEW q \in Requests PROVE HasLease(q)'
  <2>1. CASE q = r
    BY <1>3, <1>4, <1>5, <2>1 DEF HasLease, Lease
  <2>2. CASE q # r
    <3>1. HasLease(q) /\ req'[q] = req[q] /\ robbed' = robbed /\ clock' = clock
      BY <1>1, <1>5, <2>2 DEF IInv
    <3>2. QED  BY <1>4, <3>1 DEF HasLease, Lease
  <2>3. QED  BY <2>1, <2>2
<1>9. ASSUME NEW p \in Requests, NEW q \in Requests PROVE Apart(p, q)'
  <2>1. Apart(p, q)
    BY DEF IInv
  <2>2. QED  BY <1>1, <1>3, <1>4, <1>5, <2>1 DEF Apart
<1>10. QED  BY <1>6, <1>7, <1>8, <1>9 DEF IInv

(* A step that leaves every request where it is. *)
LEMMA RequestsStay ==
  ASSUME IInv, UNCHANGED <<clock, req>>, TypeOK', robbed \subseteq robbed',
         \A q \in Requests : HasLease(q)'
  PROVE  IInv'
<1>1. \A q \in Requests : Timely(q)' /\ Validated(q)'
  BY DEF IInv, Timely, Validated
<1>2. \A p, q \in Requests : Apart(p, q)'
  BY DEF IInv, Apart
<1>3. QED  BY <1>1, <1>2 DEF IInv

LEMMA AcquireLostKeeps ==
  ASSUME IInv, NEW r \in Requests, AcquireAnswerLost(r)
  PROVE  IInv'
<1>1. /\ req[r].pc = "locking" /\ Acquirable(marker[req[r].domain], req[r].now) /\ WriteMarker(r)
      /\ UNCHANGED <<clock, rows, budget, crawlQueue, req, robbed>>
  BY DEF AcquireAnswerLost
<1>2. /\ marker' \in [Domains -> Marker]
      /\ \A d \in Domains : d # req[r].domain => marker'[d] = marker[d]
      /\ \A q \in Requests \ robbed :
           req[q].pc \in Keeping /\ req[q].domain = req[r].domain => Expiry(req[q].now) < clock
  BY <1>1, WrittenMarker
<1>3. TypeOK'
  BY <1>1, <1>2 DEF IInv, TypeOK
<1>4. ASSUME NEW q \in Requests PROVE HasLease(q)'
  <2>1. HasLease(q) /\ req' = req /\ robbed' = robbed /\ clock' = clock
    BY <1>1 DEF IInv
  <2>2. QED  BY <1>2, <2>1 DEF HasLease, Lease
<1>5. QED  BY <1>1, <1>3, <1>4, RequestsStay

(* The marker goes, and with it only the lease of a request that is from   *)
(* then on among the robbed ones.                                          *)
LEMMA DeletedMarker ==
  ASSUME IInv, NEW r \in Requests, req[r].pc = "releasing", DeleteMarker(r)
  PROVE  /\ marker' \in [Domains -> Marker] /\ robbed \subseteq robbed'
         /\ robbed' \subseteq Requests
         /\ \A q \in Requests \ robbed' : q # r /\ req[q].pc \in Keeping =>
              /\ req[q].domain \in Domains
              /\ marker'[req[q].domain] = Lease(q) \/ Expiry(req[q].now) < clock
<1> DEFINE d == req[r].domain
<1>1. d \in Domains /\ marker[d] \in Marker /\ clock \in Nat
  BY DEF IInv, TypeOK, Validated, Live, Times
<1>2. /\ marker' = [marker EXCEPT ![d] = NoMarker]
      /\ robbed' = IF marker[d].owner \notin {r, None} /\ clock <= marker[d].expires_at
                   THEN robbed \cup {marker[d].owner} ELSE robbed
  BY DEF DeleteMarker
<1>3. marker[d].owner \in Requests \cup {None}
  BY <1>1 DEF Marker, NoMarker
<1>4. ASSUME NEW q \in Requests \ robbed', q # r, req[q].pc \in Keeping
      PROVE  /\ req[q].domain \in Domains
             /\ marker'[req[q].domain] = Lease(q) \/ Expiry(req[q].now) < clock
  <2>1. q \notin robbed
    BY <1>2
  <2>2. req[q].domain \in Domains
        /\ (marker[req[q].domain] = Lease(q) \/ Expiry(req[q].now) < clock)
    BY <1>4, <2>1 DEF IInv, HasLease
  <2>3. CASE req[q].domain = d /\ marker[d] = Lease(q)
    <3>1. marker[d].owner = q /\ marker[d].expires_at = Expiry(req[q].now) /\ q # None
      BY <2>3, NoneAssumption DEF Lease
    <3>2. ~(clock <= Expiry(req[q].now))
      BY <1>2, <1>4, <3>1
    <3>3. Expiry(req[q].now) \in Nat
      <4>1. req[q].now \in Times
        BY DEF IInv, TypeOK, RequestState
      <4>2. QED  BY <4>1, LeaseOutlives
    <3>4. QED  BY <1>1, <2>2, <3>2, <3>3
  <2>4. CASE req[q].domain # d
    BY <1>1, <1>2, <2>2, <2>4 DEF IInv, TypeOK
  <2>5. QED  BY <2>2, <2>3, <2>4
<1>5. QED  BY <1>2, <1>3, <1>4 DEF IInv, TypeOK, Marker

LEMMA ReleaseKeeps ==
  ASSUME IInv, NEW r \in Requests, ReleaseLock(r)
  PROVE  IInv'
<1> DEFINE new == [req[r] EXCEPT !.pc = "limited"]
<1>1. /\ req[r].pc = "releasing" /\ DeleteMarker(r) /\ req' = [req EXCEPT ![r] = new]
      /\ UNCHANGED <<clock, rows, budget, crawlQueue>>
  BY DEF ReleaseLock, Goto
<1>2. new \in RequestState /\ new.pc = "limited"
  BY GotoRecord DEF IInv, Answers
<1> HIDE DEF new
<1>3. /\ req' \in [Requests -> RequestState] /\ req'[r] = new
      /\ \A q \in Requests : q # r => req'[q] = req[q]
  BY <1>1, <1>2 DEF IInv, TypeOK
<1>4. /\ marker' \in [Domains -> Marker] /\ robbed \subseteq robbed' /\ robbed' \subseteq Requests
      /\ \A q \in Requests \ robbed' : q # r /\ req[q].pc \in Keeping =>
           /\ req[q].domain \in Domains
           /\ marker'[req[q].domain] = Lease(q) \/ Expiry(req[q].now) < clock
  BY <1>1, DeletedMarker
<1>5. TypeOK'
  BY <1>1, <1>3, <1>4 DEF IInv, TypeOK
<1>6. new.pc \notin Live \cup Keeping
  BY <1>2 DEF Live, Winning, Keeping, Enqueued
<1>7. ASSUME NEW q \in Requests PROVE Timely(q)' /\ Validated(q)'
  <2>1. Timely(q) /\ Validated(q)
    BY DEF IInv
  <2>2. QED  BY <1>1, <1>2, <1>3, <1>6, <2>1 DEF Timely, Validated, Keeping, Enqueued, Winning
<1>8. ASSUME NEW q \in Requests PROVE HasLease(q)'
  BY <1>1, <1>3, <1>4, <1>6 DEF HasLease, Lease
<1>9. ASSUME NEW p \in Requests, NEW q \in Requests PROVE Apart(p, q)'
  <2>1. Apart(p, q)
    BY DEF IInv
  <2>2. QED  BY <1>3, <1>4, <1>6, <2>1 DEF Apart
<1>10. QED  BY <1>5, <1>7, <1>8, <1>9 DEF IInv

LEMMA ReleaseLostKeeps ==
  ASSUME IInv, NEW r \in Requests, ReleaseAnswerLost(r)
  PROVE  IInv'
<1>1. /\ req[r].pc = "releasing" /\ DeleteMarker(r)
      /\ UNCHANGED <<clock, rows, budget, crawlQueue, req>>
  BY DEF ReleaseAnswerLost
<1>2. /\ marker' \in [Domains -> Marker] /\ robbed \subseteq robbed' /\ robbed' \subseteq Requests
      /\ \A q \in Requests \ robbed' : q # r /\ req[q].pc \in Keeping =>
           /\ req[q].domain \in Domains
           /\ marker'[req[q].domain] = Lease(q) \/ Expiry(req[q].now) < clock
  BY <1>1, DeletedMarker
<1>3. TypeOK'
  BY <1>1, <1>2 DEF IInv, TypeOK
<1>4. req[r].pc \notin Keeping
  BY <1>1 DEF Keeping, Enqueued, Winning
<1>5. \A q \in Requests : HasLease(q)'
  BY <1>1, <1>2, <1>4 DEF HasLease, Lease
<1>6. QED  BY <1>1, <1>2, <1>3, <1>5, RequestsStay

LEMMA PayKeeps ==
  ASSUME IInv, NEW r \in Requests, CheckTriggerBudget(r)
  PROVE  IInv'
<1> DEFINE w == WindowStart(clock, TriggerWindow)
           item == AddRequest(budget[req[r].ip][w], clock, TriggerWindow)
           pc == IF WithinLimit(item, TriggerLimit) THEN "enqueueing" ELSE "releasing"
<1>1. /\ req[r].pc = "won" /\ budget' = [budget EXCEPT ![req[r].ip][w] = item] /\ Goto(r, pc)
      /\ UNCHANGED <<clock, rows, marker, crawlQueue, robbed>>
      /\ rows \subseteq Domains \ NotBare /\ crawlQueue \subseteq Domains \ NotBare
      /\ clock \in Times /\ budget \in [IPs -> [Times -> Item]]
  BY DEF CheckTriggerBudget, IInv, TypeOK
<1>2. w \in Times
  <2>1. WindowStart(clock, TriggerWindow) \in Nat /\ WindowStart(clock, TriggerWindow) <= clock
    BY <1>1, StartOfWindow, TriggerTimes DEF Times
  <2>2. QED  BY <1>1, <2>1, TriggerTimes DEF Times
<1>3. budget' \in [IPs -> [Times -> Item]]
  <2>1. CASE req[r].ip \in IPs
    <3>1. budget[req[r].ip][w] \in Item
      BY <1>1, <1>2, <2>1
    <3>2. item \in Item
      <4>1. clock \in Nat /\ TriggerWindow \in Nat
        BY <1>1, TriggerTimes DEF Times
      <4> HIDE DEF w
      <4>2. QED  BY <3>1, <4>1, AddedItem
    <3> HIDE DEF item, w
    <3>3. QED  BY <1>1, <1>2, <2>1, <3>2
  <2>2. CASE req[r].ip \notin IPs
    BY <1>1, <2>2
  <2>3. QED  BY <2>1, <2>2
<1>4. pc \in {"enqueueing", "releasing"}
  OBVIOUS
<1> HIDE DEF pc
<1>5. /\ pc \in Live \cup Answers /\ pc # "miss" /\ pc # "locking"
      /\ req[r].pc \in Live \ {"miss"} /\ req[r].pc \in Winning
  BY <1>1, <1>4 DEF Live, Winning
<1>6. QED  BY <1>1, <1>3, <1>5, GotoKeeps

LEMMA EnqueueKeeps ==
  ASSUME IInv, NEW r \in Requests, EnqueueCrawl(r) \/ EnqueueAnswerLost(r)
  PROVE  IInv'
<1>0. PICK pc \in {"triggered", "resending"} : Goto(r, pc)
  BY DEF EnqueueCrawl, EnqueueAnswerLost
<1>1. /\ req[r].pc \in {"enqueueing", "resending"}
      /\ crawlQueue' = crawlQueue \cup {req[r].domain}
      /\ UNCHANGED <<clock, rows, marker, budget, robbed>>
      /\ rows \subseteq Domains \ NotBare /\ crawlQueue \subseteq Domains \ NotBare
      /\ budget \in [IPs -> [Times -> Item]]
  BY DEF EnqueueCrawl, EnqueueAnswerLost, Enqueuing, IInv, TypeOK
<1>2. req[r].pc \in Winning /\ req[r].pc \in Live \ {"miss"}
  BY <1>1 DEF Live, Winning
<1>3. req[r].domain \in Domains \ NotBare
  BY <1>2 DEF IInv, Validated
<1>4. /\ pc \in Live \cup Answers /\ pc # "miss" /\ pc # "locking"
  BY <1>0 DEF Live, Winning, Answers
<1>5. QED  BY <1>0, <1>1, <1>2, <1>3, <1>4, GotoKeeps

LEMMA EndsKeeps ==
  ASSUME IInv, NEW r \in Requests, LoseLock(r) \/ Fail(r)
  PROVE  IInv'
<1>1. PICK pc \in {"pending", "failed", "unanswered"} :
        Goto(r, pc) /\ (pc = "unanswered" => req[r].pc \in Winning)
  BY DEF LoseLock, Fail, Winning
<1>2. /\ UNCHANGED <<clock, rows, marker, budget, crawlQueue, robbed>>
      /\ rows \subseteq Domains \ NotBare /\ crawlQueue \subseteq Domains \ NotBare
      /\ budget \in [IPs -> [Times -> Item]]
  BY DEF LoseLock, Fail, IInv, TypeOK
<1>3. /\ pc \in Answers /\ pc \notin Live \cup {"triggered"}
      /\ pc \in Keeping => req[r].pc \in Winning
  BY <1>1 DEF Answers, Live, Winning, Keeping, Enqueued
<1>4. QED  BY <1>1, <1>2, <1>3, GotoKeeps DEF Live

-----------------------------------------------------------------------------
(* The steps of DynamoDB, of the pipeline and of time.                     *)
LEMMA SweepKeeps ==
  ASSUME IInv, NEW d \in Domains, SweepMarker(d)
  PROVE  IInv'
<1>1. /\ marker[d].expires_at < clock /\ marker' = [marker EXCEPT ![d] = NoMarker]
      /\ UNCHANGED <<clock, rows, budget, crawlQueue, req, robbed>>
  BY DEF SweepMarker
<1>2. TypeOK'
  BY <1>1 DEF IInv, TypeOK, Marker
<1>3. ASSUME NEW q \in Requests PROVE HasLease(q)'
  <2>1. HasLease(q)
    BY DEF IInv
  <2>2. \A e \in Domains : marker'[e] = IF e = d THEN NoMarker ELSE marker[e]
    BY <1>1 DEF IInv, TypeOK
  <2>3. Lease(q).expires_at = Expiry(req[q].now)
    BY DEF Lease
  <2>4. QED  BY <1>1, <2>1, <2>2, <2>3 DEF HasLease, Lease
<1>4. QED  BY <1>1, <1>2, <1>3, RequestsStay

LEMMA CrawlKeeps ==
  ASSUME IInv, NEW d \in Domains, CrawlLands(d) \/ CrawlLost(d)
  PROVE  IInv'
<1>1. /\ d \in crawlQueue /\ crawlQueue' = crawlQueue \ {d} /\ rows' \subseteq rows \cup {d}
      /\ UNCHANGED <<clock, marker, budget, req, robbed>>
  BY DEF CrawlLands, CrawlLost
<1>2. TypeOK'
  BY <1>1 DEF IInv, TypeOK
<1>3. \A q \in Requests : HasLease(q)'
  BY <1>1 DEF IInv, HasLease, Lease
<1>4. QED  BY <1>1, <1>2, <1>3, RequestsStay

LEMMA TickKeeps ==
  ASSUME IInv, Tick
  PROVE  IInv'
<1>1. /\ clock \in Nat /\ clock < MaxTime /\ clock' = clock + 1
      /\ \A r \in Requests : WithinTimeout(r)
      /\ UNCHANGED <<rows, marker, budget, crawlQueue, req, robbed>>
  BY DEF Tick, IInv, TypeOK, Times
<1>2. TypeOK'
  <2>1. clock' \in Times
    BY <1>1, TriggerTimes DEF Times
  <2>2. QED  BY <1>1, <2>1 DEF IInv, TypeOK
<1>3. ASSUME NEW q \in Requests PROVE Timely(q)' /\ Validated(q)'
  <2>1. Timely(q) /\ Validated(q)
    BY DEF IInv
  <2>2. req[q].started \in Nat /\ req[q].now \in Nat /\ LambdaTimeout \in Nat
    BY TriggerTimes DEF IInv, TypeOK, RequestState, Times
  <2>3. req[q].pc \in Live => clock < req[q].started + LambdaTimeout
    BY <1>1 DEF WithinTimeout
  <2>4. QED  BY <1>1, <2>1, <2>2, <2>3 DEF Timely, Validated
<1>4. ASSUME NEW q \in Requests PROVE HasLease(q)'
  <2>1. HasLease(q)
    BY DEF IInv
  <2>2. Expiry(req[q].now) \in Nat
    <3>1. req[q].now \in Times
      BY DEF IInv, TypeOK, RequestState
    <3>2. QED  BY <3>1, LeaseOutlives
  <2>3. Expiry(req[q].now) < clock => Expiry(req[q].now) < clock + 1
    BY <1>1, <2>2
  <2>4. QED  BY <1>1, <2>1, <2>3 DEF HasLease, Lease
<1>5. \A p, q \in Requests : Apart(p, q)'
  BY <1>1 DEF IInv, Apart
<1>6. QED  BY <1>2, <1>3, <1>4, <1>5 DEF IInv

-----------------------------------------------------------------------------
LEMMA InitIInv == ASSUME Init PROVE IInv
<1>1. 0 \in Times
  BY TriggerTimes DEF Times
<1>2. Idle \in RequestState /\ Idle.pc = "idle"
  BY <1>1 DEF Idle, RequestState
<1>3. TypeOK
  BY <1>1, <1>2 DEF Init, TypeOK, Marker, Item, NoItem
<1>4. "idle" \notin Live \cup Keeping
  BY DEF Live, Winning, Keeping, Enqueued
<1>5. QED  BY <1>2, <1>3, <1>4
           DEF Init, IInv, Timely, Validated, HasLease, Apart, Keeping, Enqueued, Winning

LEMMA NextIInv == ASSUME IInv, [Next]_vars PROVE IInv'
<1>1. ASSUME NEW r \in Requests, RequestStep(r) PROVE IInv'
  BY <1>1, LookUpKeeps, ValidateKeeps, AcquireKeeps, AcquireLostKeeps, PayKeeps, ReleaseKeeps,
     ReleaseLostKeeps, EnqueueKeeps, EndsKeeps DEF RequestStep
<1>2. ASSUME NEW d \in Domains, SweepMarker(d) \/ CrawlLands(d) \/ CrawlLost(d) PROVE IInv'
  BY <1>2, SweepKeeps, CrawlKeeps
<1>3. CASE Tick
  BY <1>3, TickKeeps
<1>4. CASE UNCHANGED vars
  BY <1>4 DEF vars, IInv, TypeOK, Timely, Validated, HasLease, Lease, Apart
<1>5. QED  BY <1>1, <1>2, <1>3, <1>4 DEF Next

LEMMA Invariance == Spec => []IInv
BY InitIInv, NextIInv, PTL DEF Spec

-----------------------------------------------------------------------------
(* The types of CrawlTrigger's variables. *)
THEOREM TypeCorrect == Spec => []TypeOK
<1>1. IInv => TypeOK
  BY DEF IInv
<1>2. QED  BY <1>1, Invariance, PTL

(* The conditional PutItem is a lock: two requests between winning and     *)
(* enqueueing would both be the owner of one marker.                       *)
THEOREM LockIsExclusive == Spec => []OneWinner
<1>1. IInv => OneWinner
  <2> SUFFICES ASSUME IInv, NEW r \in Requests \ robbed, NEW q \in Requests \ robbed,
                      req[r].pc \in Winning, req[q].pc \in Winning,
                      req[r].domain = req[q].domain
               PROVE  r = q
    BY DEF OneWinner
  <2>1. marker[req[r].domain] = Lease(r) /\ marker[req[q].domain] = Lease(q)
    BY WinnerHolds
  <2>2. Lease(r).owner = r /\ Lease(q).owner = q
    BY DEF Lease
  <2>3. QED  BY <2>1, <2>2
<1>2. QED  BY <1>1, Invariance, PTL

(* Of two requests that enqueued crawls of one domain, the later one won   *)
(* the marker after the lease of the earlier one was over.                 *)
THEOREM DuplicatesStayApart == Spec => []DuplicatesSuppressed
<1>1. IInv => DuplicatesSuppressed
  BY DEF IInv, Apart, DuplicatesSuppressed, Keeping, Enqueued
<1>2. QED  BY <1>1, Invariance, PTL

(* A budget is spent by a request whose own marker has not expired.        *)
THEOREM WinnerPays == Spec => OnlyTheWinnerPays
<1> DEFINE Pays == \A ip \in IPs : budget'[ip] # budget[ip] =>
                     \E r \in Requests :
                       /\ req[r].ip = ip /\ req[r].pc = "won"
                       /\ r \in robbed \/ ( /\ marker[req[r].domain].owner = r
                                            /\ clock <= marker[req[r].domain].expires_at )
<1>1. ASSUME IInv, [Next]_vars PROVE [Pays]_vars
  <2> SUFFICES ASSUME NEW ip \in IPs, budget'[ip] # budget[ip]
               PROVE  \E r \in Requests :
                        /\ req[r].ip = ip /\ req[r].pc = "won"
                        /\ r \in robbed \/ ( /\ marker[req[r].domain].owner = r
                                             /\ clock <= marker[req[r].domain].expires_at )
    OBVIOUS
  <2>1. PICK r \in Requests : CheckTriggerBudget(r)
    BY <1>1 DEF Next, RequestStep, LookUp, Validate, AcquireLock, LoseLock, AcquireAnswerLost,
       ReleaseLock, ReleaseAnswerLost, EnqueueCrawl, EnqueueAnswerLost, Fail, SweepMarker,
       CrawlLands, CrawlLost, Tick, vars
  <2>2. req[r].pc = "won" /\ req[r].pc \in Winning
    BY <2>1 DEF CheckTriggerBudget, Winning
  <2>3. req[r].ip = ip
    BY <1>1, <2>1 DEF CheckTriggerBudget, IInv, TypeOK
  <2>4. r \notin robbed => /\ marker[req[r].domain] = Lease(r)
                           /\ clock <= Expiry(req[r].now)
    BY <1>1, <2>2, WinnerHolds
  <2>5. Lease(r).owner = r /\ Lease(r).expires_at = Expiry(req[r].now)
    BY DEF Lease
  <2>6. QED  BY <2>2, <2>3, <2>4, <2>5
<1>2. QED  BY <1>1, Invariance, PTL DEF Spec, OnlyTheWinnerPays
=============================================================================
