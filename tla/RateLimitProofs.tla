-------------------------- MODULE RateLimitProofs --------------------------
(***************************************************************************)
(* TLAPS proofs about RateLimit, for every number of subjects, requests    *)
(* and attempts, every limit, window and timeout that meets the module's   *)
(* assumptions, and every length of run.                                   *)
(***************************************************************************)
EXTENDS RateLimit, FiniteSetTheorems, TLAPS

-----------------------------------------------------------------------------
(* Arithmetic of WindowStart.                                              *)

(* A window start is at or before the instant, less than a window away.    *)
LEMMA WindowStartBounds ==
  ASSUME NEW n \in Nat, NEW w \in Nat \ {0}
  PROVE  /\ WindowStart(n, w) \in Nat
         /\ WindowStart(n, w) <= n
         /\ n < WindowStart(n, w) + w
  BY DEF WindowStart

LEMMA NextMultiple ==
  ASSUME NEW a \in Int, NEW b \in Int, NEW w \in Nat \ {0}, a + 1 <= b
  PROVE  a * w + w <= b * w
<1>1. PICK d \in Nat : b = a + 1 + d
  <2>1. b - a - 1 \in Nat  OBVIOUS
  <2>2. QED  BY <2>1
<1>2. b * w = a * w + w + d * w
  BY <1>1
<1>3. d * w >= 0
  BY <1>1
<1>4. a * w \in Int /\ d * w \in Int /\ b * w \in Int
  BY <1>1
<1>5. QED  BY <1>2, <1>3, <1>4

(* The k-th window is the only one an instant inside it starts in.         *)
LEMMA WindowStartUnique ==
  ASSUME NEW n \in Nat, NEW w \in Nat \ {0}, NEW k \in Nat,
         k * w <= n, n < k * w + w
  PROVE  WindowStart(n, w) = k * w
<1> DEFINE q == n \div w
<1>1. q \in Int /\ q * w <= n /\ n < q * w + w
  OBVIOUS
<1> HIDE DEF q
<1>2. ~(q + 1 <= k)  BY <1>1, NextMultiple
<1>3. ~(k + 1 <= q)  BY <1>1, NextMultiple
<1>4. q = k          BY <1>1, <1>2, <1>3
<1>5. QED            BY <1>4 DEF WindowStart, q

-----------------------------------------------------------------------------
(* The inductive invariant.                                                *)

AllowedAt(s, w) ==
  {r \in Requests : /\ req[r].pc = "allowed"
                    /\ req[r].subject = s
                    /\ WindowStart(req[r].now, Window) = w}

(* A stored item has counted every request let through in its window and   *)
(* outlives every request that can still count against it.                 *)
StoredCovers(s, w) ==
  items[s][w] # NoItem =>
    /\ Cardinality(AllowedAt(s, w)) <= items[s][w].request_count
    /\ w + 2 * Window <= items[s][w].expires_at

(* A missing item has counted nothing, or was swept when nobody could      *)
(* count against it any more.                                              *)
MissingIsSafe(s, w) ==
  items[s][w] = NoItem => AllowedAt(s, w) = {} \/ w + 2 * Window < clock

LimitKept(s, w) == Cardinality(AllowedAt(s, w)) <= Limit[s]

(* A request still waiting is no older than its Lambda may get.            *)
Timely(r) ==
  req[r].pc = "adding" => /\ req[r].now <= clock
                          /\ clock <= req[r].now + LambdaTimeout

IInv ==
  /\ TypeOK
  /\ \A s \in Subjects, w \in Times :
        LimitKept(s, w) /\ StoredCovers(s, w) /\ MissingIsSafe(s, w)
  /\ \A r \in Requests : Timely(r)

-----------------------------------------------------------------------------
LEMMA InitIInv == Init => IInv
<1> SUFFICES ASSUME Init PROVE IInv
  OBVIOUS
<1> USE SubjectsAssumption, LimitAssumption, TimesAssumption
<1>1. TypeOK
  BY DEF Init, TypeOK, Times, Item, NoItem, RequestState, Idle
<1>2. \A s \in Subjects, w \in Times : AllowedAt(s, w) = {}
  BY DEF Init, AllowedAt, Idle
<1>3. \A s \in Subjects, w \in Times : items[s][w] = NoItem
  BY DEF Init
<1>4. \A s \in Subjects, w \in Times : LimitKept(s, w)
  BY <1>2, FS_EmptySet DEF LimitKept
<1>5. \A r \in Requests : Timely(r)
  BY DEF Init, Timely, Idle
<1>6. QED
  BY <1>1, <1>2, <1>3, <1>4, <1>5 DEF IInv, StoredCovers, MissingIsSafe

-----------------------------------------------------------------------------
(* What an ADD does to the table, whichever of the two actions carries it. *)
LEMMA WindowOfRequest ==
  ASSUME TypeOK, NEW r \in Requests
  PROVE  /\ req[r].now \in Times
         /\ WindowStart(req[r].now, Window) \in Times
         /\ WindowStart(req[r].now, Window) <= req[r].now
         /\ req[r].now < WindowStart(req[r].now, Window) + Window
<1>1. req[r].now \in Nat /\ req[r].now <= MaxTime
  BY TimesAssumption DEF TypeOK, RequestState, Times
<1>2. QED
  BY <1>1, WindowStartBounds, TimesAssumption DEF Times

LEMMA AddedItem ==
  ASSUME NEW item \in Item, NEW now \in Nat
  PROVE  /\ AddRequest(item, now, Window) \in Item
         /\ AddRequest(item, now, Window) # NoItem
         /\ AddRequest(item, now, Window).request_count = item.request_count + 1
         /\ AddRequest(item, now, Window).expires_at
              = IF item = NoItem THEN now + 2 * Window ELSE item.expires_at
  BY TimesAssumption DEF AddRequest, Item, NoItem

LEMMA StoreAddEffect ==
  ASSUME TypeOK, NEW r \in Requests, req[r].pc = "adding", StoreAdd(r)
  PROVE  /\ items' \in [Subjects -> [Times -> Item]]
         /\ \A s \in Subjects, w \in Times :
              items'[s][w] =
                IF s = req[r].subject /\ w = WindowStart(req[r].now, Window)
                THEN AddRequest(items[s][w], req[r].now, Window)
                ELSE items[s][w]
<1> DEFINE s0 == req[r].subject
           w0 == WindowStart(req[r].now, Window)
<1>1. s0 \in Subjects /\ w0 \in Times /\ req[r].now \in Nat
  BY WindowOfRequest, TimesAssumption DEF TypeOK, Times
<1>2. items[s0][w0] \in Item
  BY <1>1 DEF TypeOK
<1>3. AddRequest(items[s0][w0], req[r].now, Window) \in Item
  BY <1>1, <1>2, AddedItem
<1>4. QED
  BY <1>1, <1>3 DEF StoreAdd, TypeOK

(* Sets of requests are finite, so their sizes are numbers.                *)
LEMMA AllowedFinite ==
  ASSUME NEW s \in Subjects, NEW w \in Times
  PROVE  IsFiniteSet(AllowedAt(s, w)) /\ Cardinality(AllowedAt(s, w)) \in Nat
<1>1. AllowedAt(s, w) \in SUBSET Requests
  BY DEF AllowedAt
<1>2. QED
  BY <1>1, RequestsAssumption, FS_Subset, FS_CardinalityType

-----------------------------------------------------------------------------
(* Type correctness of every step.                                         *)
LEMMA NextTypeOK == TypeOK /\ [Next]_vars => TypeOK'
<1> SUFFICES ASSUME TypeOK, [Next]_vars PROVE TypeOK'
  OBVIOUS
<1> USE SubjectsAssumption, TimesAssumption
<1>1. ASSUME NEW r \in Requests, NEW s \in Subjects, ReadClock(r, s)
      PROVE  TypeOK'
  BY <1>1 DEF ReadClock, TypeOK, RequestState
<1>2. ASSUME NEW r \in Requests, CheckAndIncrement(r)
      PROVE  TypeOK'
  <2>1. req[r].adds + 1 \in Nat /\ Verdict(r) \in {"allowed", "rejected"}
    BY DEF TypeOK, RequestState, Verdict
  <2>2. req' \in [Requests -> RequestState]
    BY <1>2, <2>1 DEF CheckAndIncrement, TypeOK, RequestState
  <2>3. \A q \in Requests : req'[q].pc # "idle" => req'[q].subject \in Subjects
    BY <1>2 DEF CheckAndIncrement, TypeOK, RequestState
  <2>4. QED
    BY <1>2, <2>2, <2>3, StoreAddEffect DEF CheckAndIncrement, TypeOK
<1>3. ASSUME NEW r \in Requests, AnswerLost(r)
      PROVE  TypeOK'
  <2>1. req[r].adds + 1 \in Nat
    BY DEF TypeOK, RequestState
  <2>2. req' \in [Requests -> RequestState]
    BY <1>3, <2>1 DEF AnswerLost, TypeOK, RequestState
  <2>3. \A q \in Requests : req'[q].pc # "idle" => req'[q].subject \in Subjects
    BY <1>3 DEF AnswerLost, TypeOK, RequestState
  <2>4. QED
    BY <1>3, <2>2, <2>3, StoreAddEffect DEF AnswerLost, TypeOK
<1>4. ASSUME NEW r \in Requests, Kill(r)
      PROVE  TypeOK'
  BY <1>4 DEF Kill, TypeOK, RequestState
<1>5. ASSUME NEW s \in Subjects, NEW w \in Times, Sweep(s, w)
      PROVE  TypeOK'
  <2>1. NoItem \in Item
    BY DEF NoItem, Item
  <2>2. QED
    BY <1>5, <2>1 DEF Sweep, TypeOK
<1>6. CASE Tick
  BY <1>6 DEF Tick, TypeOK, Times
<1>7. CASE UNCHANGED vars
  BY <1>7 DEF vars, TypeOK
<1>8. QED
  BY <1>1, <1>2, <1>3, <1>4, <1>5, <1>6, <1>7 DEF Next

(* The state of every behaviour is well typed: no request ever counts      *)
(* without a subject, and every ADD lands on a window of the clock.        *)
THEOREM TypeCorrect == Spec => []TypeOK
<1>1. Init => TypeOK
  BY InitIInv DEF IInv
<1>2. QED
  BY <1>1, NextTypeOK, PTL DEF Spec

-----------------------------------------------------------------------------
(* A step that neither answers a request nor touches the table keeps what  *)
(* the table owes each window, as long as time does not run backwards.     *)
LEMMA QuietStep ==
  ASSUME IInv, TypeOK', UNCHANGED items, clock <= clock',
         \A r \in Requests :
            req'[r] = req[r] \/ (req[r].pc # "allowed" /\ req'[r].pc # "allowed")
  PROVE  \A s \in Subjects, w \in Times :
            (LimitKept(s, w) /\ StoredCovers(s, w) /\ MissingIsSafe(s, w))'
<1> TAKE s \in Subjects, w \in Times
<1>1. AllowedAt(s, w)' = AllowedAt(s, w)
  BY DEF AllowedAt
<1>2. clock \in Nat /\ clock' \in Nat /\ w + 2 * Window \in Nat
  BY TimesAssumption DEF IInv, TypeOK, Times
<1>3. LimitKept(s, w) /\ StoredCovers(s, w) /\ MissingIsSafe(s, w)
  BY DEF IInv
<1>4. QED
  BY <1>1, <1>2, <1>3 DEF LimitKept, StoredCovers, MissingIsSafe

(* The heart of the argument: an ADD never finds its window's item swept.  *)
(* The ADD comes at most LambdaTimeout <= Window seconds after the clock   *)
(* reading that chose the window, and the item lives for a whole window    *)
(* longer than that window; so the count it returns covers all requests    *)
(* let through before it.                                                  *)
LEMMA AddCounts ==
  ASSUME IInv, NEW r \in Requests, req[r].pc = "adding"
  PROVE  Cardinality(AllowedAt(req[r].subject, WindowStart(req[r].now, Window)))
           <= ItemOf(r).request_count
<1> DEFINE s0 == req[r].subject
           w0 == WindowStart(req[r].now, Window)
<1>1. s0 \in Subjects /\ w0 \in Times /\ req[r].now < w0 + Window
  BY WindowOfRequest DEF IInv, TypeOK
<1>2. clock <= req[r].now + LambdaTimeout /\ req[r].now \in Nat /\ clock \in Nat
  BY WindowOfRequest, TimesAssumption DEF IInv, Timely, TypeOK, Times
<1>3. clock < w0 + 2 * Window
  BY <1>1, <1>2, TimesAssumption, TimeoutAssumption DEF Times
<1>4. StoredCovers(s0, w0) /\ MissingIsSafe(s0, w0)
  BY <1>1 DEF IInv
<1>5. CASE items[s0][w0] = NoItem
  <2>1. ~(w0 + 2 * Window < clock)
    BY <1>1, <1>2, <1>3, TimesAssumption DEF Times
  <2>2. AllowedAt(s0, w0) = {}
    BY <1>4, <1>5, <2>1 DEF MissingIsSafe
  <2>3. QED
    BY <1>5, <2>2, FS_EmptySet DEF ItemOf, NoItem
<1>6. CASE items[s0][w0] # NoItem
  BY <1>4, <1>6 DEF StoredCovers, ItemOf
<1>7. QED
  BY <1>5, <1>6

(* After an ADD the item of r's window is stored, has counted r too and    *)
(* expires no earlier than a window after that window's end.               *)
LEMMA AddStores ==
  ASSUME IInv, NEW r \in Requests, req[r].pc = "adding", StoreAdd(r),
         NEW w0, w0 = WindowStart(req[r].now, Window),
         NEW s0, s0 = req[r].subject
  PROVE  /\ items'[s0][w0] # NoItem
         /\ items'[s0][w0].request_count = ItemOf(r).request_count + 1
         /\ w0 + 2 * Window <= items'[s0][w0].expires_at
<1>1. s0 \in Subjects /\ w0 \in Times /\ w0 <= req[r].now /\ req[r].now \in Nat
  BY WindowOfRequest, TimesAssumption DEF IInv, TypeOK, Times
<1>2. items[s0][w0] \in Item
  BY <1>1 DEF IInv, TypeOK
<1>3. items'[s0][w0] = AddRequest(items[s0][w0], req[r].now, Window)
  BY <1>1, StoreAddEffect DEF IInv
<1>4. items[s0][w0] = ItemOf(r)
  BY DEF ItemOf
<1>5. /\ items'[s0][w0] # NoItem
      /\ items'[s0][w0].request_count = items[s0][w0].request_count + 1
  <2>1. PICK item \in Item, now \in Nat : item = items[s0][w0] /\ now = req[r].now
    BY <1>1, <1>2
  <2>2. items'[s0][w0] = AddRequest(item, now, Window)
    BY <1>3, <2>1
  <2>3. QED  BY <2>1, <2>2, AddedItem
<1>6. CASE items[s0][w0] = NoItem
  <2>1. items'[s0][w0].expires_at = req[r].now + 2 * Window
    BY <1>1, <1>2, <1>3, <1>6, AddedItem
  <2>2. w0 + 2 * Window <= req[r].now + 2 * Window
    BY <1>1, TimesAssumption DEF Times
  <2>3. QED
    BY <1>4, <1>5, <2>1, <2>2
<1>7. CASE items[s0][w0] # NoItem
  <2>1. w0 + 2 * Window <= items[s0][w0].expires_at
    BY <1>1, <1>7 DEF IInv, StoredCovers
  <2>2. items'[s0][w0].expires_at = items[s0][w0].expires_at
    BY <1>1, <1>2, <1>3, <1>7, AddedItem
  <2>3. QED
    BY <1>4, <1>5, <2>1, <2>2
<1>8. QED
  BY <1>6, <1>7

-----------------------------------------------------------------------------
(* The two actions that ADD keep what the table owes each window.          *)
LEMMA CheckAndIncrementKeeps ==
  ASSUME IInv, TypeOK', NEW r \in Requests, CheckAndIncrement(r)
  PROVE  \A s \in Subjects, w \in Times :
            (LimitKept(s, w) /\ StoredCovers(s, w) /\ MissingIsSafe(s, w))'
<1> DEFINE s0 == req[r].subject
           w0 == WindowStart(req[r].now, Window)
<1> TAKE s \in Subjects, w \in Times
<1>1. /\ req[r].pc = "adding" /\ StoreAdd(r) /\ TypeOK /\ clock' = clock
      /\ req' = [req EXCEPT ![r].pc = Verdict(r), ![r].adds = @ + 1]
  BY DEF CheckAndIncrement, IInv
<1>2. \A q \in Requests : q # r => req'[q] = req[q]
  BY <1>1 DEF TypeOK
<1>3. /\ req'[r].pc = Verdict(r) /\ req'[r].subject = s0
      /\ req'[r].now = req[r].now
  BY <1>1 DEF TypeOK, RequestState
<1>4. s0 \in Subjects /\ w0 \in Times
  BY <1>1, WindowOfRequest DEF TypeOK
<1>5. LimitKept(s, w) /\ StoredCovers(s, w) /\ MissingIsSafe(s, w)
  BY DEF IInv
<1>6. CASE s = s0 /\ w = w0
  <2> DEFINE n == ItemOf(r).request_count
             A == AllowedAt(s, w)
  <2>1. Cardinality(A) <= n
    BY <1>1, <1>6, AddCounts
  <2>2. /\ items'[s][w] # NoItem
        /\ items'[s][w].request_count = n + 1
        /\ w + 2 * Window <= items'[s][w].expires_at
    BY <1>1, <1>6, AddStores
  <2>3. n \in Nat /\ Limit[s] \in Nat
    BY <1>4, <1>6, LimitAssumption DEF IInv, TypeOK, Item, ItemOf
  <2>4. IsFiniteSet(A) /\ Cardinality(A) \in Nat
    BY AllowedFinite
  <2>5. CASE Verdict(r) = "allowed"
    <3>1. AllowedAt(s, w)' = A \cup {r}
      BY <1>2, <1>3, <1>6, <2>5 DEF AllowedAt
    <3>2. /\ Cardinality(AllowedAt(s, w)') \in Nat
          /\ Cardinality(AllowedAt(s, w)') <= Cardinality(A) + 1
      <4>1. Cardinality(A \cup {r}) = IF r \in A THEN Cardinality(A) ELSE Cardinality(A) + 1
        BY <2>4, FS_AddElement
      <4>2. QED
        BY <2>4, <3>1, <4>1
    <3>3. n + 1 <= Limit[s]
      <4>1. WithinLimit(AddRequest(ItemOf(r), req[r].now, Window), Limit[s])
        BY <1>6, <2>5 DEF Verdict
      <4>2. AddRequest(ItemOf(r), req[r].now, Window).request_count = n + 1
        BY DEF AddRequest
      <4>3. QED
        BY <4>1, <4>2 DEF WithinLimit
    <3>4. LimitKept(s, w)'
      BY <2>1, <2>3, <2>4, <3>2, <3>3 DEF LimitKept
    <3>5. StoredCovers(s, w)' /\ MissingIsSafe(s, w)'
      BY <2>1, <2>2, <2>3, <2>4, <3>2 DEF StoredCovers, MissingIsSafe
    <3>6. QED
      BY <3>4, <3>5
  <2>6. CASE Verdict(r) # "allowed"
    <3>1. AllowedAt(s, w)' = A
      BY <1>1, <1>2, <1>3, <2>6 DEF AllowedAt
    <3>2. LimitKept(s, w)'
      BY <1>5, <3>1 DEF LimitKept
    <3>3. StoredCovers(s, w)' /\ MissingIsSafe(s, w)'
      BY <2>1, <2>2, <2>3, <2>4, <3>1 DEF StoredCovers, MissingIsSafe
    <3>4. QED
      BY <3>2, <3>3
  <2>7. QED
    BY <2>5, <2>6
<1>7. CASE ~(s = s0 /\ w = w0)
  <2>1. AllowedAt(s, w)' = AllowedAt(s, w)
    BY <1>1, <1>2, <1>3, <1>7 DEF AllowedAt
  <2>2. items'[s][w] = items[s][w]
    BY <1>1, <1>7, StoreAddEffect
  <2>3. QED
    BY <1>1, <1>5, <2>1, <2>2 DEF LimitKept, StoredCovers, MissingIsSafe
<1>8. QED
  BY <1>6, <1>7

LEMMA AnswerLostKeeps ==
  ASSUME IInv, TypeOK', NEW r \in Requests, AnswerLost(r)
  PROVE  \A s \in Subjects, w \in Times :
            (LimitKept(s, w) /\ StoredCovers(s, w) /\ MissingIsSafe(s, w))'
<1> DEFINE s0 == req[r].subject
           w0 == WindowStart(req[r].now, Window)
<1> TAKE s \in Subjects, w \in Times
<1>1. req[r].pc = "adding" /\ StoreAdd(r) /\ TypeOK /\ clock' = clock
  BY DEF AnswerLost, IInv
<1>2. \A q \in Requests : /\ req'[q].pc = req[q].pc
                          /\ req'[q].subject = req[q].subject
                          /\ req'[q].now = req[q].now
  BY <1>1 DEF AnswerLost, TypeOK, RequestState
<1>3. AllowedAt(s, w)' = AllowedAt(s, w)
  BY <1>2 DEF AllowedAt
<1>4. LimitKept(s, w) /\ StoredCovers(s, w) /\ MissingIsSafe(s, w)
  BY DEF IInv
<1>5. CASE s = s0 /\ w = w0
  <2>1. Cardinality(AllowedAt(s, w)) <= ItemOf(r).request_count
    BY <1>1, <1>5, AddCounts
  <2>2. /\ items'[s][w] # NoItem
        /\ items'[s][w].request_count = ItemOf(r).request_count + 1
        /\ w + 2 * Window <= items'[s][w].expires_at
    BY <1>1, <1>5, AddStores
  <2>3. ItemOf(r).request_count \in Nat
    BY <1>5 DEF IInv, TypeOK, Item, ItemOf
  <2>4. Cardinality(AllowedAt(s, w)) \in Nat
    BY AllowedFinite
  <2>5. QED
    BY <1>3, <1>4, <2>1, <2>2, <2>3, <2>4 DEF LimitKept, StoredCovers, MissingIsSafe
<1>6. CASE ~(s = s0 /\ w = w0)
  <2>1. items'[s][w] = items[s][w]
    BY <1>1, <1>6, StoreAddEffect
  <2>2. QED
    BY <1>1, <1>3, <1>4, <2>1 DEF LimitKept, StoredCovers, MissingIsSafe
<1>7. QED
  BY <1>5, <1>6

LEMMA SweepKeeps ==
  ASSUME IInv, TypeOK', NEW q \in Subjects, NEW v \in Times, Sweep(q, v)
  PROVE  \A s \in Subjects, w \in Times :
            (LimitKept(s, w) /\ StoredCovers(s, w) /\ MissingIsSafe(s, w))'
<1> TAKE s \in Subjects, w \in Times
<1>1. /\ items[q][v] # NoItem /\ items[q][v].expires_at < clock
      /\ items' = [items EXCEPT ![q][v] = NoItem]
      /\ clock' = clock /\ req' = req
  BY DEF Sweep, Sweepable
<1>2. AllowedAt(s, w)' = AllowedAt(s, w)
  BY <1>1 DEF AllowedAt
<1>3. LimitKept(s, w) /\ StoredCovers(s, w) /\ MissingIsSafe(s, w)
  BY DEF IInv
<1>4. CASE s = q /\ w = v
  <2>1. w + 2 * Window <= items[s][w].expires_at
    BY <1>1, <1>3, <1>4 DEF StoredCovers
  <2>2. items[s][w].expires_at \in Nat /\ clock \in Nat /\ w + 2 * Window \in Nat
    <3>1. items[s][w] \in Item
      BY DEF IInv, TypeOK
    <3>2. clock \in Nat /\ w \in Nat
      BY TimesAssumption DEF IInv, TypeOK, Times
    <3>3. QED  BY <3>1, <3>2, TimesAssumption DEF Item
  <2>3. w + 2 * Window < clock
    BY <1>1, <1>4, <2>1, <2>2
  <2>4. items'[s][w] = NoItem
    BY <1>1, <1>4 DEF IInv, TypeOK
  <2>5. QED
    BY <1>1, <1>2, <1>3, <2>3, <2>4 DEF LimitKept, StoredCovers, MissingIsSafe
<1>5. CASE ~(s = q /\ w = v)
  <2>1. items'[s][w] = items[s][w]
    BY <1>1, <1>5 DEF IInv, TypeOK
  <2>2. QED
    BY <1>1, <1>2, <1>3, <2>1 DEF LimitKept, StoredCovers, MissingIsSafe
<1>6. QED
  BY <1>4, <1>5

LEMMA NextIInv == IInv /\ [Next]_vars => IInv'
<1> SUFFICES ASSUME IInv, [Next]_vars PROVE IInv'
  OBVIOUS
<1>1. TypeOK /\ TypeOK'
  BY NextTypeOK DEF IInv
<1>2. clock \in Nat /\ \A r \in Requests : req[r].now \in Nat
  BY <1>1, TimesAssumption DEF TypeOK, RequestState, Times
<1>3. ASSUME NEW r \in Requests, NEW s \in Subjects, ReadClock(r, s)
      PROVE  IInv'
  <2>1. \A q \in Requests :
          req'[q] = req[q] \/ (req[q].pc # "allowed" /\ req'[q].pc # "allowed")
    BY <1>1, <1>3 DEF ReadClock, TypeOK
  <2>2. \A q \in Requests : Timely(q)'
    <3>1. Timely(r)'
      BY <1>1, <1>2, <1>3, TimesAssumption DEF ReadClock, Timely, TypeOK
    <3>2. ASSUME NEW q \in Requests, q # r PROVE Timely(q)'
      BY <1>1, <1>3, <3>2 DEF ReadClock, Timely, TypeOK, IInv
    <3>3. QED  BY <3>1, <3>2
  <2>3. UNCHANGED items /\ clock <= clock'
    BY <1>2, <1>3 DEF ReadClock
  <2>4. QED  BY <1>1, <2>1, <2>2, <2>3, QuietStep DEF IInv
<1>4. ASSUME NEW r \in Requests, CheckAndIncrement(r)
      PROVE  IInv'
  <2>1. \A q \in Requests : Timely(q)'
    BY <1>1, <1>4 DEF CheckAndIncrement, Timely, TypeOK, RequestState, IInv, Verdict
  <2>2. QED  BY <1>1, <1>4, <2>1, CheckAndIncrementKeeps DEF IInv
<1>5. ASSUME NEW r \in Requests, AnswerLost(r)
      PROVE  IInv'
  <2>1. \A q \in Requests : Timely(q)'
    BY <1>1, <1>5 DEF AnswerLost, Timely, TypeOK, RequestState, IInv
  <2>2. QED  BY <1>1, <1>5, <2>1, AnswerLostKeeps DEF IInv
<1>6. ASSUME NEW r \in Requests, Kill(r)
      PROVE  IInv'
  <2>1. \A q \in Requests :
          req'[q] = req[q] \/ (req[q].pc # "allowed" /\ req'[q].pc # "allowed")
    BY <1>1, <1>6 DEF Kill, TypeOK, RequestState
  <2>2. \A q \in Requests : Timely(q)'
    BY <1>1, <1>6 DEF Kill, Timely, TypeOK, RequestState, IInv
  <2>3. UNCHANGED items /\ clock <= clock'
    BY <1>2, <1>6 DEF Kill
  <2>4. QED  BY <1>1, <2>1, <2>2, <2>3, QuietStep DEF IInv
<1>7. ASSUME NEW s \in Subjects, NEW w \in Times, Sweep(s, w)
      PROVE  IInv'
  <2>1. \A q \in Requests : Timely(q)'
    BY <1>7 DEF Sweep, Timely, IInv
  <2>2. QED  BY <1>1, <1>7, <2>1, SweepKeeps DEF IInv
<1>8. CASE Tick
  <2>1. \A q \in Requests : Timely(q)'
    <3> SUFFICES ASSUME NEW q \in Requests, req[q].pc = "adding"
                 PROVE  req[q].now <= clock + 1 /\ clock + 1 <= req[q].now + LambdaTimeout
      BY <1>8 DEF Tick, Timely
    <3>1. req[q].now <= clock /\ clock < req[q].now + LambdaTimeout
      BY <1>8 DEF Tick, WithinTimeout, Timely, IInv
    <3>2. QED  BY <1>2, <3>1, TimesAssumption
  <2>2. UNCHANGED items /\ clock <= clock' /\ \A q \in Requests : req'[q] = req[q]
    BY <1>2, <1>8 DEF Tick
  <2>3. QED  BY <1>1, <2>1, <2>2, QuietStep DEF IInv
<1>9. CASE UNCHANGED vars
  <2>1. UNCHANGED items /\ clock <= clock' /\ \A q \in Requests : req'[q] = req[q]
    BY <1>2, <1>9 DEF vars
  <2>2. \A q \in Requests : Timely(q)'
    BY <1>9 DEF vars, Timely, IInv
  <2>3. QED  BY <1>1, <2>1, <2>2, QuietStep DEF IInv
<1>10. QED
  BY <1>3, <1>4, <1>5, <1>6, <1>7, <1>8, <1>9 DEF Next

-----------------------------------------------------------------------------
(* From windows by number, as the properties state them, to window starts. *)
LEMMA WindowsByNumber ==
  ASSUME TypeOK, NEW s \in Subjects, NEW k \in Times
  PROVE  With("allowed", s, k) \in SUBSET AllowedAt(s, k * Window)
<1> SUFFICES ASSUME NEW r \in With("allowed", s, k)
             PROVE  r \in AllowedAt(s, k * Window)
  OBVIOUS
<1>1. /\ r \in Requests /\ req[r].pc = "allowed" /\ req[r].subject = s
      /\ k * Window <= req[r].now /\ req[r].now < k * Window + Window
  BY DEF With, InWindow
<1>2. req[r].now \in Nat /\ k \in Nat
  BY <1>1, TimesAssumption DEF TypeOK, RequestState, Times
<1>3. WindowStart(req[r].now, Window) = k * Window
  BY <1>1, <1>2, WindowStartUnique, TimesAssumption
<1>4. QED
  BY <1>1, <1>3 DEF AllowedAt

LEMMA IInvImplies == IInv => NeverOverLimit
<1> SUFFICES ASSUME IInv, NEW s \in Subjects, NEW k \in Times
             PROVE  Cardinality(With("allowed", s, k)) <= Limit[s]
  BY DEF NeverOverLimit
<1> DEFINE w == k * Window
<1>1. w \in Nat /\ Limit[s] \in Nat
  BY TimesAssumption, LimitAssumption DEF IInv, TypeOK, Times
<1>2. With("allowed", s, k) \in SUBSET AllowedAt(s, w)
  BY WindowsByNumber DEF IInv
<1>3. CASE w \in Times
  <2>1. LimitKept(s, w)
    BY <1>3 DEF IInv
  <2>2. IsFiniteSet(AllowedAt(s, w)) /\ Cardinality(AllowedAt(s, w)) \in Nat
    BY <1>3, AllowedFinite
  <2>3. /\ IsFiniteSet(With("allowed", s, k))
        /\ Cardinality(With("allowed", s, k)) <= Cardinality(AllowedAt(s, w))
    BY <1>2, <2>2, FS_Subset
  <2>4. Cardinality(With("allowed", s, k)) \in Nat
    BY <2>3, FS_CardinalityType
  <2>5. QED
    BY <1>1, <2>1, <2>2, <2>3, <2>4 DEF LimitKept
<1>4. CASE w \notin Times
  <2>1. MaxTime < w
    BY <1>1, <1>4, TimesAssumption DEF Times
  <2>2. With("allowed", s, k) = {}
    <3> SUFFICES ASSUME NEW r \in With("allowed", s, k) PROVE FALSE
      OBVIOUS
    <3>1. r \in Requests /\ w <= req[r].now
      BY DEF With, InWindow
    <3>2. req[r].now \in Nat /\ req[r].now <= MaxTime
      BY <3>1, TimesAssumption DEF IInv, TypeOK, RequestState, Times
    <3>3. QED  BY <1>1, <2>1, <3>1, <3>2, TimesAssumption
  <2>3. Cardinality(With("allowed", s, k)) = 0
    BY <2>2, FS_EmptySet
  <2>4. QED  BY <1>1, <2>3
<1>5. QED
  BY <1>3, <1>4

LEMMA Invariance == Spec => []IInv
  BY InitIInv, NextIInv, PTL DEF Spec

(* check_and_increment never lets a subject's requests of one window past  *)
(* its limit, however they race, are retransmitted, are delayed up to the  *)
(* Lambda timeout or meet the TTL sweep.                                   *)
THEOREM LimitIsKept == Spec => []NeverOverLimit
  BY Invariance, IInvImplies, PTL

-----------------------------------------------------------------------------
(* Rejections.  Every count the table holds is made of ADDs of its window: *)
(* the ones that were swept are missing from it, never others counted.     *)

(* The ADDs that reached the table for the window of s that starts at w.   *)
AddedAt(s, w) ==
  {a \in Requests \X (1 .. MaxAttempts) :
     /\ req[a[1]].pc # "idle" /\ req[a[1]].subject = s
     /\ WindowStart(req[a[1]].now, Window) = w
     /\ a[2] <= req[a[1]].adds}

CountIsAdds(s, w) == items[s][w].request_count <= Cardinality(AddedAt(s, w))

WasOverLimit(r) ==
  req[r].pc = "rejected" =>
    Limit[req[r].subject]
      < Cardinality(AddedAt(req[r].subject, WindowStart(req[r].now, Window)))

AddsInv ==
  /\ \A r \in Requests : req[r].adds <= MaxAttempts
  /\ \A s \in Subjects, w \in Times : CountIsAdds(s, w)
  /\ \A r \in Requests : WasOverLimit(r)

LEMMA AddedFinite ==
  ASSUME NEW s, NEW w
  PROVE  IsFiniteSet(AddedAt(s, w)) /\ Cardinality(AddedAt(s, w)) \in Nat
<1>1. IsFiniteSet(1 .. MaxAttempts)
  BY TimesAssumption, FS_Interval
<1>2. IsFiniteSet(Requests \X (1 .. MaxAttempts))
  BY <1>1, RequestsAssumption, FS_Product
<1>3. AddedAt(s, w) \in SUBSET (Requests \X (1 .. MaxAttempts))
  BY DEF AddedAt
<1>4. QED  BY <1>2, <1>3, FS_Subset, FS_CardinalityType

LEMMA InitAdds == Init => AddsInv
<1> SUFFICES ASSUME Init PROVE AddsInv
  OBVIOUS
<1>1. \A r \in Requests : req[r].adds <= MaxAttempts /\ req[r].pc # "rejected"
  BY TimesAssumption DEF Init, Idle
<1>2. \A s \in Subjects, w \in Times : CountIsAdds(s, w)
  <2> TAKE s \in Subjects, w \in Times
  <2>1. items[s][w].request_count = 0
    BY DEF Init, NoItem
  <2>2. QED  BY <2>1, AddedFinite DEF CountIsAdds
<1>3. QED  BY <1>1, <1>2 DEF AddsInv, WasOverLimit

(* A step that makes no ADD and rejects nobody. *)
LEMMA NoAdd ==
  ASSUME AddsInv, TypeOK, TypeOK',
         \A s, w : AddedAt(s, w)' = AddedAt(s, w),
         \A s \in Subjects, w \in Times :
            items'[s][w].request_count <= items[s][w].request_count,
         \A r \in Requests :
           /\ req'[r].adds <= MaxAttempts
           /\ req'[r].pc = "rejected" => req'[r] = req[r]
  PROVE  AddsInv'
<1>1. ASSUME NEW s \in Subjects, NEW w \in Times PROVE CountIsAdds(s, w)'
  <2>1. items[s][w].request_count \in Nat /\ items'[s][w].request_count \in Nat
    BY DEF TypeOK, Item
  <2>2. Cardinality(AddedAt(s, w)') = Cardinality(AddedAt(s, w))
    OBVIOUS
  <2>3. QED  BY <2>1, <2>2, AddedFinite DEF AddsInv, CountIsAdds
<1>2. ASSUME NEW r \in Requests PROVE WasOverLimit(r)'
  BY DEF AddsInv, WasOverLimit
<1>3. QED  BY <1>1, <1>2 DEF AddsInv

(* An ADD of r is one more ADD of the window of r, and of no other.        *)
LEMMA OneMoreAdd ==
  ASSUME TypeOK, TypeOK', NEW r \in Requests, req[r].pc = "adding",
         req[r].adds < MaxAttempts,
         \A q \in Requests : q # r => req'[q] = req[q],
         req'[r].pc # "idle", req'[r].subject = req[r].subject,
         req'[r].now = req[r].now, req'[r].adds = req[r].adds + 1,
         NEW s, NEW w
  PROVE  Cardinality(AddedAt(s, w)') =
           IF s = req[r].subject /\ w = WindowStart(req[r].now, Window)
           THEN Cardinality(AddedAt(s, w)) + 1 ELSE Cardinality(AddedAt(s, w))
<1> DEFINE new == <<r, req[r].adds + 1>>
<1>1. req[r].adds \in Nat /\ MaxAttempts \in Nat
  BY TimesAssumption DEF TypeOK, RequestState
<1>2. new \in Requests \X (1 .. MaxAttempts) /\ new[1] = r /\ new[2] = req[r].adds + 1
  BY <1>1
<1>3. CASE s = req[r].subject /\ w = WindowStart(req[r].now, Window)
  <2>1. new \notin AddedAt(s, w)
    BY <1>1, <1>2 DEF AddedAt
  <2>2. AddedAt(s, w)' = AddedAt(s, w) \cup {new}
    <3>1. ASSUME NEW a \in Requests \X (1 .. MaxAttempts), a[1] = r
          PROVE  a \in AddedAt(s, w)' <=> a \in AddedAt(s, w) \cup {new}
      <4>1. a = <<r, a[2]>> /\ a[2] \in Nat
        BY <3>1
      <4>2. a[2] <= req[r].adds + 1 <=> a[2] <= req[r].adds \/ a = new
        BY <1>1, <4>1
      <4>3. a \in AddedAt(s, w)' <=> a[2] <= req[r].adds + 1
        BY <1>3, <3>1 DEF AddedAt
      <4>4. a \in AddedAt(s, w) <=> a[2] <= req[r].adds
        BY <1>3, <3>1 DEF AddedAt
      <4>5. QED  BY <4>2, <4>3, <4>4
    <3>2. ASSUME NEW a \in Requests \X (1 .. MaxAttempts), a[1] # r
          PROVE  a \in AddedAt(s, w)' <=> a \in AddedAt(s, w) \cup {new}
      <4>1. a # new /\ a[1] \in Requests /\ req'[a[1]] = req[a[1]]
        BY <3>2
      <4>2. QED  BY <4>1 DEF AddedAt
    <3>3. /\ AddedAt(s, w)' \subseteq Requests \X (1 .. MaxAttempts)
          /\ AddedAt(s, w) \cup {new} \subseteq Requests \X (1 .. MaxAttempts)
      BY <1>2 DEF AddedAt
    <3>4. QED  BY <3>1, <3>2, <3>3
  <2>3. IsFiniteSet(AddedAt(s, w)) /\ Cardinality(AddedAt(s, w)) \in Nat
    BY AddedFinite
  <2> HIDE DEF new
  <2>4. Cardinality(AddedAt(s, w) \cup {new}) = Cardinality(AddedAt(s, w)) + 1
    BY <2>1, <2>3, FS_AddElement
  <2>5. QED  BY <1>3, <2>2, <2>4
<1>4. CASE ~(s = req[r].subject /\ w = WindowStart(req[r].now, Window))
  <2>1. ASSUME NEW a \in Requests \X (1 .. MaxAttempts)
        PROVE  a \in AddedAt(s, w)' <=> a \in AddedAt(s, w)
    <3>1. CASE a[1] = r
      BY <1>4, <3>1 DEF AddedAt
    <3>2. CASE a[1] # r
      <4>1. a[1] \in Requests /\ req'[a[1]] = req[a[1]]
        BY <3>2
      <4>2. QED  BY <4>1 DEF AddedAt
    <3>3. QED  BY <3>1, <3>2
  <2>2. /\ AddedAt(s, w)' \subseteq Requests \X (1 .. MaxAttempts)
        /\ AddedAt(s, w) \subseteq Requests \X (1 .. MaxAttempts)
    BY DEF AddedAt
  <2>3. AddedAt(s, w)' = AddedAt(s, w)
    BY <2>1, <2>2
  <2>4. QED  BY <1>4, <2>3
<1>5. QED  BY <1>3, <1>4

(* Whichever action an ADD is part of, it keeps the invariant; who is      *)
(* rejected by it was told a count beyond the limit.                       *)
LEMMA AddKeeps ==
  ASSUME AddsInv, TypeOK, TypeOK', NEW r \in Requests, req[r].pc = "adding",
         req[r].adds < MaxAttempts, StoreAdd(r),
         \A q \in Requests : q # r => req'[q] = req[q],
         req'[r].pc # "idle", req'[r].subject = req[r].subject,
         req'[r].now = req[r].now, req'[r].adds = req[r].adds + 1,
         req'[r].pc = "rejected" =>
           Limit[req[r].subject] < AddRequest(ItemOf(r), req[r].now, Window).request_count
  PROVE  AddsInv'
<1> DEFINE s0 == req[r].subject
           w0 == WindowStart(req[r].now, Window)
<1>1. s0 \in Subjects /\ w0 \in Times /\ req[r].adds \in Nat /\ MaxAttempts \in Nat
  BY WindowOfRequest, TimesAssumption DEF TypeOK, RequestState
<1>2. \A s, w : Cardinality(AddedAt(s, w)') =
                  IF s = s0 /\ w = w0
                  THEN Cardinality(AddedAt(s, w)) + 1 ELSE Cardinality(AddedAt(s, w))
  BY OneMoreAdd
<1>3. ItemOf(r) = items[s0][w0] /\ ItemOf(r).request_count \in Nat
  BY <1>1 DEF ItemOf, TypeOK, Item
<1>4. AddRequest(ItemOf(r), req[r].now, Window).request_count = ItemOf(r).request_count + 1
  BY DEF AddRequest
<1>5. ItemOf(r).request_count <= Cardinality(AddedAt(s0, w0))
  BY <1>1, <1>3 DEF AddsInv, CountIsAdds
<1>6. ASSUME NEW s \in Subjects, NEW w \in Times PROVE CountIsAdds(s, w)'
  <2>1. CASE s = s0 /\ w = w0
    <3>1. items'[s][w].request_count = ItemOf(r).request_count + 1
      BY <1>3, <1>4, <2>1, StoreAddEffect
    <3>2. Cardinality(AddedAt(s, w)') = Cardinality(AddedAt(s, w)) + 1
      BY <1>2, <2>1
    <3>3. QED  BY <1>3, <1>5, <2>1, <3>1, <3>2, AddedFinite DEF CountIsAdds
  <2>2. CASE ~(s = s0 /\ w = w0)
    <3>1. items'[s][w] = items[s][w]
      BY <2>2, StoreAddEffect
    <3>2. Cardinality(AddedAt(s, w)') = Cardinality(AddedAt(s, w))
      BY <1>2, <2>2
    <3>3. QED  BY <3>1, <3>2 DEF AddsInv, CountIsAdds
  <2>3. QED  BY <2>1, <2>2
<1>7. ASSUME NEW q \in Requests PROVE WasOverLimit(q)'
  <2>1. CASE q = r
    <3>1. Cardinality(AddedAt(s0, w0)') = Cardinality(AddedAt(s0, w0)) + 1
      BY <1>2
    <3>2. Limit[s0] \in Nat /\ Cardinality(AddedAt(s0, w0)) \in Nat
      BY <1>1, LimitAssumption, AddedFinite
    <3>3. req'[r].pc = "rejected" => Limit[s0] < Cardinality(AddedAt(s0, w0)')
      BY <1>3, <1>4, <1>5, <3>1, <3>2
    <3>4. PICK s, w : s = s0 /\ w = w0
      OBVIOUS
    <3>5. req'[r].pc = "rejected" => Limit[s] < Cardinality(AddedAt(s, w)')
      BY <3>3, <3>4
    <3>6. QED  BY <2>1, <3>4, <3>5 DEF WasOverLimit
  <2>2. CASE q # r
    <3> SUFFICES ASSUME req'[q].pc = "rejected" PROVE WasOverLimit(q)'
      BY DEF WasOverLimit
    <3>1. req'[q] = req[q]
      BY <2>2
    <3>2. PICK s, w : s = req[q].subject /\ w = WindowStart(req[q].now, Window)
      OBVIOUS
    <3>3. Limit[s] < Cardinality(AddedAt(s, w)) /\ s \in Subjects
      BY <3>1, <3>2 DEF AddsInv, WasOverLimit, TypeOK
    <3>4. Limit[s] < Cardinality(AddedAt(s, w)')
      BY <1>2, <3>3, AddedFinite, LimitAssumption
    <3>5. QED  BY <3>1, <3>2, <3>4 DEF WasOverLimit
  <2>3. QED  BY <2>1, <2>2
<1>8. \A q \in Requests : req'[q].adds <= MaxAttempts
  BY <1>1 DEF AddsInv
<1>9. QED  BY <1>6, <1>7, <1>8 DEF AddsInv

LEMMA NextAdds == TypeOK /\ AddsInv /\ [Next]_vars => AddsInv'
<1> SUFFICES ASSUME TypeOK, AddsInv, [Next]_vars PROVE AddsInv'
  OBVIOUS
<1>1. TypeOK'
  BY NextTypeOK
<1>2. \A r \in Requests : req[r].adds \in Nat /\ req[r].adds <= MaxAttempts
  BY DEF TypeOK, RequestState, AddsInv
<1>3. \A s \in Subjects, w \in Times : items[s][w].request_count \in Nat
  BY DEF TypeOK, Item
<1>4. ASSUME NEW r \in Requests, NEW s \in Subjects, ReadClock(r, s)
      PROVE  AddsInv'
  <2>1. \A q \in Requests : q # r => req'[q] = req[q]
    BY <1>4 DEF ReadClock, TypeOK
  <2>2. req[r].pc = "idle" /\ req'[r].adds = 0 /\ req'[r].pc = "adding" /\ items' = items
    BY <1>4 DEF ReadClock, TypeOK
  <2>3. \A u, w : AddedAt(u, w)' = AddedAt(u, w)
    <3> SUFFICES ASSUME NEW u, NEW w, NEW a \in Requests \X (1 .. MaxAttempts)
                 PROVE  a \in AddedAt(u, w)' <=> a \in AddedAt(u, w)
      BY DEF AddedAt
    <3>1. CASE a[1] = r
      <4>1. ~(a[2] <= 0)
        OBVIOUS
      <4>2. QED  BY <2>2, <3>1, <4>1 DEF AddedAt
    <3>2. CASE a[1] # r
      <4>1. req'[a[1]] = req[a[1]]
        BY <2>1, <3>2
      <4>2. QED  BY <4>1 DEF AddedAt
    <3>3. QED  BY <3>1, <3>2
  <2>4. \A q \in Requests : /\ req'[q].adds <= MaxAttempts
                            /\ req'[q].pc = "rejected" => req'[q] = req[q]
    BY <1>2, <2>1, <2>2, TimesAssumption
  <2>5. \A u \in Subjects, w \in Times :
          items'[u][w].request_count <= items[u][w].request_count
    BY <1>3, <2>2
  <2>6. QED  BY <1>1, <2>3, <2>4, <2>5, NoAdd
<1>5. ASSUME NEW r \in Requests, CheckAndIncrement(r)
      PROVE  AddsInv'
  <2>1. /\ req[r].pc = "adding" /\ req[r].adds < MaxAttempts /\ StoreAdd(r)
        /\ \A q \in Requests : q # r => req'[q] = req[q]
        /\ req'[r].pc = Verdict(r) /\ req'[r].subject = req[r].subject
        /\ req'[r].now = req[r].now /\ req'[r].adds = req[r].adds + 1
    BY <1>5 DEF CheckAndIncrement, TypeOK, RequestState
  <2>2. Verdict(r) # "idle"
    BY DEF Verdict
  <2>3. Verdict(r) = "rejected" =>
          Limit[req[r].subject] < AddRequest(ItemOf(r), req[r].now, Window).request_count
    <3>1. req[r].subject \in Subjects /\ WindowStart(req[r].now, Window) \in Times
      BY <2>1, WindowOfRequest DEF TypeOK
    <3>2. Limit[req[r].subject] \in Nat /\ ItemOf(r).request_count \in Nat
      BY <1>3, <3>1, LimitAssumption DEF ItemOf
    <3>3. AddRequest(ItemOf(r), req[r].now, Window).request_count \in Nat
      BY <3>2 DEF AddRequest
    <3>4. QED  BY <3>2, <3>3 DEF Verdict, WithinLimit
  <2>4. QED  BY <1>1, <2>1, <2>2, <2>3, AddKeeps
<1>6. ASSUME NEW r \in Requests, AnswerLost(r)
      PROVE  AddsInv'
  <2>1. /\ req[r].pc = "adding" /\ req[r].adds < MaxAttempts /\ StoreAdd(r)
        /\ \A q \in Requests : q # r => req'[q] = req[q]
        /\ req'[r].pc = "adding" /\ req'[r].subject = req[r].subject
        /\ req'[r].now = req[r].now /\ req'[r].adds = req[r].adds + 1
    BY <1>2, <1>6, TimesAssumption DEF AnswerLost, TypeOK, RequestState
  <2>2. QED  BY <1>1, <2>1, AddKeeps
<1>7. ASSUME UNCHANGED req,
             \A s \in Subjects, w \in Times :
                items'[s][w].request_count <= items[s][w].request_count
      PROVE  AddsInv'
  <2>1. \A s, w : AddedAt(s, w)' = AddedAt(s, w)
    BY <1>7 DEF AddedAt
  <2>2. \A q \in Requests : /\ req'[q].adds <= MaxAttempts
                            /\ req'[q].pc = "rejected" => req'[q] = req[q]
    BY <1>2, <1>7
  <2>3. QED  BY <1>1, <1>7, <2>1, <2>2, NoAdd
<1>8. ASSUME NEW r \in Requests, Kill(r)
      PROVE  AddsInv'
  <2>1. \A q \in Requests : /\ req'[q].adds = req[q].adds /\ req'[q].now = req[q].now
                            /\ req'[q].subject = req[q].subject
                            /\ req'[q].pc = "idle" <=> req[q].pc = "idle"
                            /\ req'[q].pc = "rejected" => req'[q] = req[q]
    BY <1>8 DEF Kill, TypeOK, RequestState
  <2>2. \A s, w : AddedAt(s, w)' = AddedAt(s, w)
    <3> SUFFICES ASSUME NEW s, NEW w, NEW a \in Requests \X (1 .. MaxAttempts)
                 PROVE  a \in AddedAt(s, w)' <=> a \in AddedAt(s, w)
      BY DEF AddedAt
    <3>1. a[1] \in Requests
      OBVIOUS
    <3>2. QED  BY <2>1, <3>1 DEF AddedAt
  <2>3. \A s \in Subjects, w \in Times :
          items'[s][w].request_count <= items[s][w].request_count
    BY <1>3, <1>8 DEF Kill
  <2>4. QED  BY <1>1, <1>2, <2>1, <2>2, <2>3, NoAdd
<1>9. ASSUME NEW s \in Subjects, NEW w \in Times, Sweep(s, w)
      PROVE  AddsInv'
  <2>1. \A u \in Subjects, v \in Times :
          items'[u][v] = items[u][v] \/ items'[u][v].request_count = 0
    BY <1>9 DEF Sweep, TypeOK, NoItem
  <2>2. QED  BY <1>3, <1>7, <1>9, <2>1 DEF Sweep
<1>10. CASE Tick \/ UNCHANGED vars
  <2>1. UNCHANGED <<items, req>>
    BY <1>10 DEF Tick, vars
  <2>2. QED  BY <1>3, <1>7, <2>1
<1>11. QED
  BY <1>4, <1>5, <1>6, <1>8, <1>9, <1>10 DEF Next

(* The two ways of naming a window, by its number and by its start. *)
LEMMA AddsByNumber ==
  ASSUME TypeOK, NEW s \in Subjects, NEW k \in Times
  PROVE  /\ \A q \in Requests :
              InWindow(q, s, k)
                <=> /\ req[q].pc # "idle" /\ req[q].subject = s
                    /\ WindowStart(req[q].now, Window) = k * Window
         /\ Adds(s, k) = Cardinality(AddedAt(s, k * Window))
<1> DEFINE w == k * Window
<1>1. k \in Nat /\ w \in Nat
  BY TimesAssumption DEF Times
<1>2. ASSUME NEW q \in Requests
      PROVE  InWindow(q, s, k)
               <=> /\ req[q].pc # "idle" /\ req[q].subject = s
                   /\ WindowStart(req[q].now, Window) = w
  <2>1. req[q].now \in Nat
    BY TimesAssumption DEF TypeOK, RequestState, Times
  <2>2. k * Window <= req[q].now /\ req[q].now < k * Window + Window
          => WindowStart(req[q].now, Window) = w
    BY <1>1, <2>1, WindowStartUnique, TimesAssumption
  <2>3. WindowStart(req[q].now, Window) = w
          => k * Window <= req[q].now /\ req[q].now < k * Window + Window
    BY <2>1, WindowStartBounds, TimesAssumption
  <2>4. QED  BY <2>2, <2>3 DEF InWindow
<1> HIDE DEF w
<1>3. Adds(s, k) = Cardinality(AddedAt(s, w))
  <2> DEFINE A == {a \in Requests \X (1 .. MaxAttempts) :
                     InWindow(a[1], s, k) /\ a[2] <= req[a[1]].adds}
  <2>1. A = AddedAt(s, w)
    <3> SUFFICES ASSUME NEW a \in Requests \X (1 .. MaxAttempts)
                 PROVE  a \in A <=> a \in AddedAt(s, w)
      BY DEF AddedAt
    <3>1. a[1] \in Requests
      OBVIOUS
    <3>2. QED  BY <1>2, <3>1 DEF AddedAt
  <2>2. QED  BY <2>1 DEF Adds
<1>4. QED  BY <1>2, <1>3 DEF w

LEMMA AddsInvariance == Spec => [](TypeOK /\ AddsInv)
<1>1. Init => TypeOK /\ AddsInv
  BY InitIInv, InitAdds DEF IInv
<1>2. TypeOK /\ AddsInv /\ [Next]_vars => (TypeOK /\ AddsInv)'
  BY NextTypeOK, NextAdds
<1>3. QED  BY <1>1, <1>2, PTL DEF Spec

(* A 429 is always earned: the ADDs of the subject's own requests in that  *)
(* window, retransmissions included, exceed its limit, however requests    *)
(* race and whatever is swept.                                             *)
THEOREM RejectionsAreEarned == Spec => []RejectionsJustified
<1>1. TypeOK /\ AddsInv => RejectionsJustified
  <2> SUFFICES ASSUME TypeOK, AddsInv, NEW s \in Subjects, NEW k \in Times,
                      NEW r \in With("rejected", s, k)
               PROVE  Adds(s, k) > Limit[s]
    BY DEF RejectionsJustified
  <2>1. r \in Requests /\ InWindow(r, s, k) /\ req[r].pc = "rejected"
    BY DEF With
  <2>2. req[r].subject = s /\ WindowStart(req[r].now, Window) = k * Window
    BY <2>1, AddsByNumber
  <2>3. Limit[s] < Cardinality(AddedAt(s, k * Window))
    BY <2>1, <2>2 DEF AddsInv, WasOverLimit
  <2>4. Limit[s] \in Nat /\ Cardinality(AddedAt(s, k * Window)) \in Nat
    BY AddedFinite, LimitAssumption
  <2>5. QED  BY <2>3, <2>4, AddsByNumber
<1>2. QED  BY <1>1, AddsInvariance, PTL

(* GET /v1/keys/me never shows usage its key has not made in that window,  *)
(* however stale the read.                                                 *)
THEOREM UsageIsEarned == Spec => []UsageNeverOverstated
<1>1. TypeOK /\ AddsInv => UsageNeverOverstated
  <2> SUFFICES ASSUME TypeOK, AddsInv, NEW s \in Subjects,
                      NEW k \in Times, NEW now \in Times,
                      k * Window <= now, now < k * Window + Window,
                      NEW count \in CurrentWindowCounts(s, now)
               PROVE  count <= Adds(s, k)
    BY DEF UsageNeverOverstated
  <2> DEFINE w == WindowStart(now, Window)
  <2>1. k \in Nat /\ now \in Nat
    BY TimesAssumption DEF Times
  <2>2. w = k * Window
    BY <2>1, WindowStartUnique, TimesAssumption
  <2>3. w \in Times
    BY <2>1, <2>2, TimesAssumption DEF Times
  <2>4. items[s][w].request_count \in Nat
    BY <2>3 DEF TypeOK, Item
  <2>5. count \in Nat /\ count <= items[s][w].request_count
    BY <2>4 DEF CurrentWindowCounts
  <2>6. items[s][w].request_count <= Cardinality(AddedAt(s, w))
    BY <2>3 DEF AddsInv, CountIsAdds
  <2>7. Cardinality(AddedAt(s, w)) \in Nat
    BY AddedFinite
  <2>8. Adds(s, k) = Cardinality(AddedAt(s, w))
    BY <2>2, AddsByNumber
  <2> HIDE DEF w
  <2>9. QED  BY <2>4, <2>5, <2>6, <2>7, <2>8
<1>2. QED  BY <1>1, AddsInvariance, PTL
=============================================================================
