--------------------------- MODULE SchedulerProofs ---------------------------
(***************************************************************************)
(* Theorems about Scheduler: for any number of domains, keys, watchers and *)
(* concurrent invocations, any cadences, retries and lags of the crawls.   *)
(***************************************************************************)
EXTENDS Scheduler, FiniteSetTheorems, TLAPS

-----------------------------------------------------------------------------
(* The inductive invariant.                                                *)

(* The invocations that have yet to send d: they are counted together with *)
(* what was sent, as each of them may still send one.                      *)
Pending(d) == {i \in Invocations : d \in scan[i].todo}
Held(d) == asked[d] + Cardinality(Pending(d))

(* A domain that is due may be sent once more by every invocation to come. *)
(* One that is not is in the todo lists, if at all, of scans that read its *)
(* row before a crawl landed.                                              *)
Allowed(d) ==
  IF hour - last[d] >= LicensingCadence
  THEN MaxStarts * (1 + (hour - last[d] - LicensingCadence)) + starts
  ELSE MaxStarts

Counted(d) ==
  /\ IsFiniteSet(Pending(d)) /\ Cardinality(Pending(d)) <= starts
  /\ Held(d) <= MaxStarts * hour + starts
  /\ last[d] = Never => Pending(d) = {}
  /\ last[d] # Never => Held(d) <= Allowed(d)

(* Every running scan has on its list, or has tried to send, the domains   *)
(* that were overdue when the hour began and still are.                    *)
Covered ==
  /\ \A d \in overdue : Overdue(d)
  /\ \A i \in Invocations : scan[i].running => overdue \subseteq reached \cup scan[i].todo
  /\ returned => overdue \subseteq reached

IInv ==
  /\ TypeOK
  /\ \A i \in Invocations : ~scan[i].running => scan[i].todo = {}
  /\ \A d \in Domains : Counted(d)
  /\ Covered

-----------------------------------------------------------------------------
(* Arithmetic and cadences.                                                *)
LEMMA OneMore ==
  ASSUME NEW a \in Nat, NEW k \in Int
  PROVE  a * (1 + k) = a * k + a
OBVIOUS

LEMMA Products ==
  ASSUME NEW a \in Nat, NEW j \in Nat, NEW k \in Nat, j <= k
  PROVE  a * j \in Nat /\ a * k \in Nat /\ a * j <= a * k
<1>1. a * k = a * j + a * (k - j) /\ k - j \in Nat
  OBVIOUS
<1>2. \A x \in Nat : a * x \in Nat
  OBVIOUS
<1>3. QED  BY <1>1, <1>2

LEMMA Types ==
  ASSUME TypeOK
  PROVE  /\ hour \in Nat /\ hour <= MaxHour /\ starts \in Nat /\ starts <= MaxStarts
         /\ MaxStarts \in Nat /\ MaxHour \in Nat /\ LicensingCadence \in Nat
         /\ \A d \in Domains : asked[d] \in Nat /\ last[d] \in Nat \cup {Never}
  <1>1. MaxStarts \in Nat /\ MaxHour \in Nat /\ MaxStarts * (MaxHour + 1) \in Nat
    BY BoundsAssumption
  <1>2. QED  BY <1>1, BoundsAssumption, CadenceAssumption DEF TypeOK, Never

(* cadence_days_for_tiers gives the shortest cadence that anyone pays for, *)
(* the order of its tests being that of the cadences.                      *)
LEMMA CadenceIsShortest ==
  ASSUME TypeOK, NEW d
  PROVE  Cadence(Tiers(d)) = Min({DefaultCadence} \cup
           {IF t = "licensing" THEN LicensingCadence ELSE SelfServeCadence : t \in Tiers(d)})
<1> DEFINE cadences == {DefaultCadence} \cup
             {IF t = "licensing" THEN LicensingCadence ELSE SelfServeCadence : t \in Tiers(d)}
<1>1. Tiers(d) \subseteq {"self_serve", "licensing"}
  BY TierAssumption DEF Tiers, TypeOK
<1>2. Cadence(Tiers(d)) \in cadences
  BY <1>1 DEF Cadence
<1>3. \A c \in cadences : c \in Nat /\ Cadence(Tiers(d)) <= c
  BY <1>1, CadenceAssumption DEF Cadence
<1> HIDE DEF cadences
<1>4. Min(cadences) \in cadences /\ \A c \in cadences : Min(cadences) <= c
  BY <1>2, <1>3 DEF Min
<1>5. Min(cadences) = Cadence(Tiers(d))
  BY <1>2, <1>3, <1>4
<1>6. QED  BY <1>5 DEF cadences

LEMMA OverdueIsDue ==
  ASSUME TypeOK, NEW d \in Domains, Overdue(d)
  PROVE  d \in Fetched /\ IsDue(d)
BY CadenceIsShortest DEF Overdue, Fetched, IsDue

(* A domain that is due is so for the fastest cadence. *)
LEMMA DueAfterFastest ==
  ASSUME TypeOK, NEW d \in Domains, IsDue(d)
  PROVE  hour - last[d] >= LicensingCadence
<1>1. Cadence(Tiers(d)) \in Nat /\ LicensingCadence <= Cadence(Tiers(d))
  BY CadenceAssumption DEF Cadence
<1>2. hour \in Int /\ last[d] \in Int /\ LicensingCadence \in Int
  BY Types DEF Never
<1>3. QED  BY <1>1, <1>2 DEF IsDue

-----------------------------------------------------------------------------
(* Counting.                                                               *)

(* Nobody is added to those that have yet to send d, and nothing is sent   *)
(* but by one of them.                                                     *)
LEMMA CountedLess ==
  ASSUME TypeOK, NEW d \in Domains, Counted(d),
         Pending(d)' \subseteq Pending(d),
         \/ asked'[d] = asked[d]
         \/ \E i \in Pending(d) : i \notin Pending(d)' /\ asked'[d] = asked[d] + 1,
         UNCHANGED <<hour, starts>>, last'[d] = last[d]
  PROVE  Counted(d)'
<1>1. /\ IsFiniteSet(Pending(d)) /\ Cardinality(Pending(d)) \in Nat
      /\ Cardinality(Pending(d)) <= starts
  BY FS_CardinalityType DEF Counted
<1>2. /\ IsFiniteSet(Pending(d)') /\ Cardinality(Pending(d)') \in Nat
      /\ Cardinality(Pending(d)') <= Cardinality(Pending(d))
  BY <1>1, FS_Subset, FS_CardinalityType
<1>3. asked'[d] \in Nat /\ Held(d)' <= Held(d)
  <2>1. CASE asked'[d] = asked[d]
    BY <1>1, <1>2, <2>1, Types DEF Held
  <2>2. CASE \E i \in Pending(d) : i \notin Pending(d)' /\ asked'[d] = asked[d] + 1
    <3>1. PICK i \in Pending(d) : i \notin Pending(d)' /\ asked'[d] = asked[d] + 1
      BY <2>2
    <3>2. PICK rest : rest = Pending(d) \ {i}
      OBVIOUS
    <3>3. IsFiniteSet(rest) /\ Cardinality(rest) = Cardinality(Pending(d)) - 1
      BY <1>1, <3>1, <3>2, FS_RemoveElement
    <3>4. Cardinality(Pending(d)') <= Cardinality(rest)
      BY <3>1, <3>2, <3>3, FS_Subset
    <3>5. Cardinality(rest) \in Nat
      BY <3>3, FS_CardinalityType
    <3>6. QED  BY <1>1, <1>2, <3>1, <3>3, <3>4, <3>5, Types DEF Held
  <2>3. QED  BY <2>1, <2>2
<1>4. Held(d) \in Nat /\ Held(d)' \in Nat
  BY <1>1, <1>2, <1>3, Types DEF Held
<1>5. Held(d)' <= MaxStarts * hour' + starts'
  <2>1. Held(d) <= MaxStarts * hour + starts
    BY DEF Counted
  <2>2. MaxStarts * hour \in Nat /\ starts \in Nat
    BY Types
  <2>3. QED  BY <1>3, <1>4, <2>1, <2>2
<1>6. last[d] = Never => Pending(d)' = {}
  BY DEF Counted
<1>7. last[d] # Never => Held(d)' <= Allowed(d)'
  <2>1. Allowed(d)' = Allowed(d)
    BY DEF Allowed
  <2>2. last[d] # Never => Allowed(d) \in Int
    BY Types DEF Allowed
  <2>3. QED  BY <1>3, <1>4, <2>1, <2>2 DEF Counted
<1>8. Cardinality(Pending(d)') <= starts'
  BY <1>1, <1>2, Types
<1>9. QED  BY <1>2, <1>5, <1>6, <1>7, <1>8 DEF Counted

LEMMA AskedBounded ==
  ASSUME NEW h \in 0 .. MaxHour, NEW s \in 0 .. MaxStarts, NEW a \in Nat,
         a <= MaxStarts * h + s
  PROVE  a \in 0 .. MaxStarts * (MaxHour + 1)
<1>1. h \in Nat /\ h + 1 \in Nat /\ h + 1 <= MaxHour + 1 /\ MaxHour + 1 \in Nat
      /\ MaxStarts \in Nat /\ s <= MaxStarts /\ s \in Nat
  BY BoundsAssumption
<1>2. MaxStarts * (h + 1) = MaxStarts * h + MaxStarts /\ MaxStarts * h \in Nat
  BY <1>1
<1>3. MaxStarts * (h + 1) <= MaxStarts * (MaxHour + 1) /\ MaxStarts * (MaxHour + 1) \in Nat
  BY <1>1, Products
<1>4. QED  BY <1>1, <1>2, <1>3

(* Who is pending stays so while the scans stand still.                    *)
LEMMA PendingSame ==
  ASSUME UNCHANGED scan, NEW d
  PROVE  Pending(d)' = Pending(d)
BY DEF Pending

(* A scan that begins is one more of the starts, and at most one more that *)
(* has yet to send d: only if d is due.                                    *)
LEMMA CountedScan ==
  ASSUME IInv, NEW i \in Invocations, StartScan(i), NEW d \in Domains
  PROVE  Counted(d)'
<1> DEFINE n == Cardinality(Pending(d))
           n2 == Cardinality(Pending(d)')
<1>1. /\ ~scan[i].running /\ starts' = starts + 1
      /\ scan' = [scan EXCEPT ![i] = [running |-> TRUE, todo |-> {e \in Fetched : IsDue(e)}]]
      /\ UNCHANGED <<hour, last, asked>>
  BY DEF StartScan, rows
<1>2. scan[i].todo = {} /\ TypeOK /\ Counted(d)
  BY <1>1 DEF IInv
<1>3. \A j \in Invocations : scan'[j].todo =
        IF j = i THEN {e \in Fetched : IsDue(e)} ELSE scan[j].todo
  BY <1>1, <1>2 DEF TypeOK
<1>4. /\ IsFiniteSet(Pending(d)) /\ n \in Nat /\ n <= starts /\ i \notin Pending(d)
      /\ starts \in Nat /\ MaxStarts * hour \in Nat /\ asked[d] \in Nat /\ hour \in Nat
      /\ MaxStarts \in Nat /\ LicensingCadence \in Nat /\ last[d] \in Int
      /\ asked[d] + n <= MaxStarts * hour + starts
  BY <1>2, Types, FS_CardinalityType DEF Counted, Pending, Held, Never
<1>5. CASE d \in Fetched /\ IsDue(d)
  <2>1. Pending(d)' = Pending(d) \cup {i}
    BY <1>3, <1>5 DEF Pending
  <2>2. IsFiniteSet(Pending(d)') /\ n2 = n + 1
    BY <1>4, <2>1, FS_AddElement
  <2>3. last[d] # Never /\ hour - last[d] >= LicensingCadence
    BY <1>2, <1>5, DueAfterFastest DEF Fetched
  <2>4. PICK x \in Int : x = MaxStarts * (1 + (hour - last[d] - LicensingCadence))
    BY <1>4
  <2>5. asked[d] + n <= x + starts
    BY <1>2, <2>3, <2>4 DEF Counted, Allowed, Held
  <2>6. Allowed(d)' = x + starts + 1
    BY <1>1, <1>4, <2>3, <2>4 DEF Allowed
  <2>7. asked'[d] + n2 <= Allowed(d)'
    BY <1>1, <1>4, <2>2, <2>5, <2>6
  <2>8. n2 <= starts' /\ asked'[d] + n2 <= MaxStarts * hour' + starts'
    BY <1>1, <1>4, <2>2
  <2>9. QED  BY <1>1, <2>2, <2>3, <2>7, <2>8 DEF Counted, Held
<1>6. CASE ~(d \in Fetched /\ IsDue(d))
  <2>1. Pending(d)' = Pending(d)
    BY <1>2, <1>3, <1>6 DEF Pending
  <2>2. n <= starts' /\ asked'[d] + n <= MaxStarts * hour' + starts'
    BY <1>1, <1>4
  <2>3. last[d] # Never => asked'[d] + n <= Allowed(d)'
    <3>1. last[d] # Never => asked[d] + n <= Allowed(d)
      BY <1>2 DEF Counted, Held
    <3>2. Allowed(d) \in Int /\ Allowed(d)' \in Int /\ Allowed(d) <= Allowed(d)'
      <4>1. PICK x \in Int : x = MaxStarts * (1 + (hour - last[d] - LicensingCadence))
        BY <1>4
      <4>2. /\ Allowed(d) = IF hour - last[d] >= LicensingCadence THEN x + starts ELSE MaxStarts
            /\ Allowed(d)' = IF hour - last[d] >= LicensingCadence
                             THEN x + starts + 1 ELSE MaxStarts
        BY <1>1, <1>4, <4>1 DEF Allowed
      <4>3. QED  BY <1>4, <4>1, <4>2
    <3>3. QED  BY <1>1, <1>4, <3>1, <3>2
  <2>4. QED  BY <1>1, <1>2, <2>1, <2>2, <2>3 DEF Counted, Held
<1>7. QED  BY <1>5, <1>6

(* An hour ends with nobody pending.                                       *)
LEMMA CountedHour ==
  ASSUME IInv, HourPasses, NEW d \in Domains
  PROVE  Counted(d)'
<1>1. /\ \A i \in Invocations : ~scan[i].running
      /\ hour' = hour + 1 /\ starts' = 0 /\ UNCHANGED <<last, scan, asked>>
  BY DEF HourPasses, rows
<1>2. TypeOK /\ Counted(d)
  BY DEF IInv
<1>3. Pending(d) = {} /\ Pending(d)' = {}
  BY <1>1 DEF IInv, Pending
<1>4. /\ starts \in Nat /\ starts <= MaxStarts /\ hour \in Nat /\ asked[d] \in Nat
      /\ MaxStarts \in Nat /\ LicensingCadence \in Nat /\ last[d] \in Int
      /\ asked[d] <= MaxStarts * hour + starts /\ MaxStarts * hour \in Nat
      /\ last[d] # Never => asked[d] <= Allowed(d)
  BY <1>2, <1>3, Types, FS_EmptySet DEF Counted, Held, Never
<1>5. MaxStarts * (hour + 1) = MaxStarts * hour + MaxStarts
  BY <1>4
<1>6. last[d] # Never => asked[d] <= Allowed(d)'
  <2>1. PICK k \in Int : k = hour - last[d] - LicensingCadence
    BY <1>4
  <2>2. PICK x \in Int : x = MaxStarts * (1 + k)
    BY <1>4
  <2>3. MaxStarts * (1 + (k + 1)) = x + MaxStarts
    BY <1>4, <2>2
  <2>4. /\ Allowed(d) = IF k >= 0 THEN x + starts ELSE MaxStarts
        /\ Allowed(d)' = IF k + 1 >= 0 THEN MaxStarts * (1 + (k + 1)) ELSE MaxStarts
    BY <1>1, <1>4, <2>1, <2>2 DEF Allowed
  <2>5. k = -1 => x = 0
    BY <1>4, <2>2
  <2>6. QED  BY <1>4, <2>2, <2>3, <2>4, <2>5
<1>7. QED  BY <1>1, <1>3, <1>4, <1>5, <1>6, FS_EmptySet DEF Counted, Held

(* A crawl that lands takes back all that was asked, but not what is still *)
(* on the lists.                                                           *)
LEMMA CountedLands ==
  ASSUME IInv, NEW d \in Domains, NEW at \in 0 .. hour, CrawlLands(d, at), NEW e \in Domains
  PROVE  Counted(e)'
<1>1. /\ last' = [last EXCEPT ![d] = at] /\ asked' = [asked EXCEPT ![d] = 0]
      /\ UNCHANGED <<hour, scan, starts>>
  BY DEF CrawlLands
<1>2. TypeOK /\ Counted(e) /\ Pending(e)' = Pending(e)
  BY <1>1, PendingSame DEF IInv
<1>3. CASE e # d
  <2>1. last'[e] = last[e] /\ asked'[e] = asked[e]
    BY <1>1, <1>2, <1>3 DEF TypeOK
  <2>2. QED  BY <1>1, <1>2, <2>1, CountedLess
<1>4. CASE e = d
  <2> DEFINE n == Cardinality(Pending(d))
  <2>1. /\ IsFiniteSet(Pending(d)) /\ n \in Nat /\ n <= starts /\ starts \in Nat
        /\ starts <= MaxStarts /\ MaxStarts * hour \in Nat /\ MaxStarts \in Nat
        /\ hour \in Nat /\ LicensingCadence \in Nat
    BY <1>2, <1>4, Types, FS_CardinalityType DEF Counted
  <2>2. last'[d] = at /\ asked'[d] = 0 /\ at # Never
    BY <1>1, <1>2, <2>1 DEF TypeOK, Never
  <2>3. 0 + n <= Allowed(d)'
    <3>1. CASE hour - at >= LicensingCadence
      <4>1. PICK k \in Nat : k = hour - at - LicensingCadence
        BY <2>1, <3>1
      <4>2. MaxStarts * (1 + k) \in Nat
        BY <2>1
      <4>3. Allowed(d)' = MaxStarts * (1 + k) + starts
        BY <1>1, <2>2, <3>1, <4>1 DEF Allowed
      <4>4. QED  BY <2>1, <4>2, <4>3
    <3>2. CASE ~(hour - at >= LicensingCadence)
      BY <1>1, <2>1, <2>2, <3>2 DEF Allowed
    <3>3. QED  BY <3>1, <3>2
  <2>4. 0 + n <= MaxStarts * hour + starts
    BY <2>1
  <2>5. QED  BY <1>1, <1>2, <1>4, <2>1, <2>2, <2>3, <2>4 DEF Counted, Held
<1>5. QED  BY <1>3, <1>4

-----------------------------------------------------------------------------
(* What one send, or its failure, does to the scans.                       *)
LEMMA SendKeeps ==
  ASSUME IInv, NEW i \in Invocations, NEW d \in Domains,
         EnqueueDue(i, d) \/ EnqueueRaises(i, d)
  PROVE  IInv'
<1>1. /\ d \in scan[i].todo /\ scan' = [scan EXCEPT ![i].todo = @ \ {d}]
      /\ reached' = reached \cup {d}
      /\ asked' \in {asked, [asked EXCEPT ![d] = @ + 1]}
      /\ UNCHANGED <<hour, last, monitors, active, starts, returned, overdue>>
  BY DEF EnqueueDue, EnqueueRaises, rows
<1>2. TypeOK /\ Covered /\ (\A e \in Domains : Counted(e))
      /\ \A j \in Invocations : ~scan[j].running => scan[j].todo = {}
  BY DEF IInv
<1>3. PICK new : new = [scan[i] EXCEPT !.todo = @ \ {d}]
  OBVIOUS
<1>4. /\ new \in [running : BOOLEAN, todo : SUBSET Domains]
      /\ new.running = scan[i].running /\ new.todo = scan[i].todo \ {d}
  <2>1. scan[i] \in [running : BOOLEAN, todo : SUBSET Domains]
    BY <1>2 DEF TypeOK
  <2>2. QED  BY <1>3, <2>1
<1>5. /\ scan' \in [Invocations -> [running : BOOLEAN, todo : SUBSET Domains]]
      /\ scan'[i] = new /\ \A j \in Invocations : j # i => scan'[j] = scan[j]
  BY <1>1, <1>2, <1>3, <1>4 DEF TypeOK
<1>6. /\ \A e \in Domains : e # d => asked'[e] = asked[e] /\ Pending(e)' = Pending(e)
      /\ asked'[d] \in {asked[d], asked[d] + 1}
      /\ Pending(d)' = Pending(d) \ {i} /\ i \in Pending(d)
  BY <1>1, <1>2, <1>4, <1>5 DEF TypeOK, Pending
<1>7. \A e \in Domains : Counted(e)'
  BY <1>1, <1>2, <1>6, CountedLess
<1>8. asked'[d] \in 0 .. MaxStarts * (MaxHour + 1)
  <2>1. asked'[d] \in Nat /\ starts' \in 0 .. MaxStarts /\ hour' \in 0 .. MaxHour
    BY <1>1, <1>2, <1>6, Types DEF TypeOK
  <2>2. IsFiniteSet(Pending(d)') /\ Held(d)' <= MaxStarts * hour' + starts'
    BY <1>7 DEF Counted
  <2>3. Cardinality(Pending(d)') \in Nat
    BY <2>2, FS_CardinalityType
  <2>4. MaxStarts * hour' \in Nat /\ starts' \in Nat
    <3>1. MaxStarts \in Nat /\ hour' \in Nat /\ starts' \in Nat
      BY <2>1, BoundsAssumption
    <3>2. PICK h \in Nat : h = hour'
      BY <3>1
    <3>3. MaxStarts * h \in Nat
      BY <3>1
    <3>4. QED  BY <3>1, <3>2, <3>3
  <2>5. asked'[d] <= MaxStarts * hour' + starts'
    BY <2>1, <2>2, <2>3, <2>4 DEF Held
  <2>6. QED  BY <2>1, <2>5, AskedBounded
<1>9. TypeOK'
  BY <1>1, <1>2, <1>5, <1>8 DEF TypeOK
<1>10. Covered'
  <2>1. \A e \in overdue : Overdue(e)'
    BY <1>1, <1>2 DEF Covered, Overdue, Tiers
  <2>2. QED  BY <1>1, <1>2, <1>4, <1>5, <2>1 DEF Covered
<1>11. \A j \in Invocations : ~scan'[j].running => scan'[j].todo = {}
  BY <1>2, <1>4, <1>5
<1>12. QED  BY <1>7, <1>9, <1>10, <1>11 DEF IInv

LEMMA StartKeeps ==
  ASSUME IInv, NEW i \in Invocations, StartScan(i)
  PROVE  IInv'
<1> DEFINE new == [running |-> TRUE, todo |-> {d \in Fetched : IsDue(d)}]
<1>1. /\ starts < MaxStarts /\ starts' = starts + 1 /\ scan' = [scan EXCEPT ![i] = new]
      /\ UNCHANGED <<hour, last, monitors, active, returned, reached, overdue, asked>>
  BY DEF StartScan, rows
<1>2. TypeOK /\ Covered /\ \A j \in Invocations : ~scan[j].running => scan[j].todo = {}
  BY DEF IInv
<1>3. /\ scan' \in [Invocations -> [running : BOOLEAN, todo : SUBSET Domains]]
      /\ scan'[i] = new /\ \A j \in Invocations : j # i => scan'[j] = scan[j]
  BY <1>1, <1>2 DEF TypeOK, Fetched
<1>4. TypeOK'
  BY <1>1, <1>2, <1>3, BoundsAssumption DEF TypeOK
<1>5. \A d \in Domains : Counted(d)'
  BY CountedScan
<1>6. Covered'
  <2>1. overdue \subseteq new.todo
    BY <1>2, OverdueIsDue DEF Covered, TypeOK
  <2>2. \A e \in overdue : Overdue(e)'
    BY <1>1, <1>2 DEF Covered, Overdue, Tiers
  <2>3. QED  BY <1>1, <1>2, <1>3, <2>1, <2>2 DEF Covered
<1>7. QED  BY <1>2, <1>3, <1>4, <1>5, <1>6 DEF IInv

(* A scan that returns has nothing left to send, one that is killed loses  *)
(* what was left.                                                          *)
LEMMA EndKeeps ==
  ASSUME IInv, NEW i \in Invocations, Return(i) \/ Kill(i)
  PROVE  IInv'
<1>1. /\ scan[i].running /\ scan' = [scan EXCEPT ![i] = Idle]
      /\ returned' # returned => returned' = TRUE /\ scan[i].todo = {}
      /\ returned' \in {returned, TRUE}
      /\ UNCHANGED <<hour, last, monitors, active, starts, reached, overdue, asked>>
  BY DEF Return, Kill, rows
<1>2. TypeOK /\ Covered /\ (\A e \in Domains : Counted(e))
      /\ \A j \in Invocations : ~scan[j].running => scan[j].todo = {}
  BY DEF IInv
<1>3. /\ scan' \in [Invocations -> [running : BOOLEAN, todo : SUBSET Domains]]
      /\ scan'[i] = Idle /\ \A j \in Invocations : j # i => scan'[j] = scan[j]
      /\ Idle.running = FALSE /\ Idle.todo = {}
  BY <1>1, <1>2 DEF TypeOK, Idle
<1>4. TypeOK'
  BY <1>1, <1>2, <1>3 DEF TypeOK
<1>5. \A d \in Domains : Pending(d)' \subseteq Pending(d)
  BY <1>3 DEF Pending
<1>6. \A d \in Domains : Counted(d)'
  BY <1>1, <1>2, <1>5, CountedLess
<1>7. Covered'
  <2>1. \A e \in overdue : Overdue(e)'
    BY <1>1, <1>2 DEF Covered, Overdue, Tiers
  <2>2. \A j \in Invocations : scan'[j].running => overdue' \subseteq reached' \cup scan'[j].todo
    BY <1>1, <1>2, <1>3 DEF Covered
  <2>3. returned' => overdue' \subseteq reached'
    BY <1>1, <1>2 DEF Covered
  <2>4. QED  BY <1>1, <2>1, <2>2, <2>3 DEF Covered
<1>8. QED  BY <1>2, <1>3, <1>4, <1>6, <1>7 DEF IInv

LEMMA HourKeeps ==
  ASSUME IInv, HourPasses
  PROVE  IInv'
<1>1. /\ hour < MaxHour /\ hour' = hour + 1 /\ starts' = 0 /\ returned' = FALSE
      /\ reached' = {} /\ overdue' = {d \in Domains : Overdue(d)'}
      /\ \A i \in Invocations : ~scan[i].running
      /\ UNCHANGED <<last, monitors, active, scan, asked>>
  BY DEF HourPasses, rows
<1>2. TypeOK /\ \A j \in Invocations : ~scan[j].running => scan[j].todo = {}
  BY DEF IInv
<1>3. TypeOK'
  <2>1. hour' \in 0 .. MaxHour /\ starts' \in 0 .. MaxStarts
    BY <1>1, <1>2, BoundsAssumption DEF TypeOK
  <2>2. overdue' \subseteq Domains /\ reached' \subseteq Domains /\ returned' \in BOOLEAN
    BY <1>1
  <2>3. QED  BY <1>1, <1>2, <2>1, <2>2 DEF TypeOK
<1>4. \A d \in Domains : Counted(d)'
  BY CountedHour
<1>5. Covered'
  BY <1>1 DEF Covered
<1>6. QED  BY <1>1, <1>2, <1>3, <1>4, <1>5 DEF IInv

(* A step of the tables: the scans, which read them before, stay as they   *)
(* are, and a domain may cease to be overdue.                              *)
LEMMA TablesKeep ==
  ASSUME IInv, UNCHANGED <<hour, scan, starts, returned, reached>>, StillOverdue,
         TypeOK', \A d \in Domains : Counted(d)'
  PROVE  IInv'
<1>1. overdue' \subseteq overdue /\ \A d \in overdue' : Overdue(d)'
  BY DEF StillOverdue
<1>2. Covered'
  BY <1>1 DEF IInv, Covered
<1>3. QED  BY <1>2 DEF IInv

LEMMA LandsKeeps ==
  ASSUME IInv, NEW d \in Domains, NEW at \in 0 .. hour, CrawlLands(d, at)
  PROVE  IInv'
<1>1. /\ last' = [last EXCEPT ![d] = at] /\ asked' = [asked EXCEPT ![d] = 0]
      /\ UNCHANGED <<hour, monitors, active, scan, starts, returned, reached>>
      /\ StillOverdue /\ TypeOK
  BY DEF CrawlLands, IInv
<1>2. TypeOK'
  <2>1. at \in 0 .. MaxHour /\ at # Never /\ 0 \in 0 .. MaxStarts * (MaxHour + 1)
    <3>1. MaxStarts * (MaxHour + 1) \in Nat
      BY BoundsAssumption
    <3>2. QED  BY <1>1, <3>1, Types DEF Never
  <2>2. overdue' \subseteq Domains
    BY <1>1 DEF StillOverdue, TypeOK
  <2>3. {e \in Domains : last[e] # Never} \subseteq {e \in Domains : last'[e] # Never}
    BY <1>1, <2>1 DEF TypeOK
  <2>4. last' \in [Domains -> {Never} \cup 0 .. MaxHour]
        /\ asked' \in [Domains -> 0 .. MaxStarts * (MaxHour + 1)]
    BY <1>1, <2>1 DEF TypeOK
  <2>5. monitors' \subseteq Keys \X {e \in Domains : last'[e] # Never}
    BY <1>1, <2>3 DEF TypeOK
  <2>6. QED  BY <1>1, <2>2, <2>4, <2>5 DEF TypeOK
<1>3. \A e \in Domains : Counted(e)'
  BY CountedLands
<1>4. QED  BY <1>1, <1>2, <1>3, TablesKeep

LEMMA WatchersKeep ==
  ASSUME IInv, NEW k \in Keys,
         \/ SwitchKey(k)
         \/ \E d \in Domains : InsertMonitor(k, d) \/ DeleteMonitor(k, d)
  PROVE  IInv'
<1>1. /\ UNCHANGED <<hour, last, scan, starts, returned, reached, asked>>
      /\ StillOverdue /\ TypeOK /\ \A e \in Domains : Counted(e)
  BY DEF SwitchKey, InsertMonitor, DeleteMonitor, IInv
<1>2. active' \subseteq Keys
  BY <1>1 DEF SwitchKey, InsertMonitor, DeleteMonitor, TypeOK
<1>3. monitors' \subseteq Keys \X {d \in Domains : last[d] # Never}
  <2>1. monitors \subseteq Keys \X {d \in Domains : last[d] # Never}
    BY <1>1 DEF TypeOK
  <2>2. CASE SwitchKey(k)
    BY <2>1, <2>2 DEF SwitchKey
  <2>3. ASSUME NEW d \in Domains, InsertMonitor(k, d)
        PROVE  monitors' \subseteq Keys \X {e \in Domains : last[e] # Never}
    <3>1. last[d] # Never /\ monitors' = monitors \cup {<<k, d>>}
      BY <2>3 DEF InsertMonitor
    <3>2. <<k, d>> \in Keys \X {e \in Domains : last[e] # Never}
      BY <3>1
    <3>3. QED  BY <2>1, <3>1, <3>2
  <2>4. ASSUME NEW d \in Domains, DeleteMonitor(k, d)
        PROVE  monitors' \subseteq Keys \X {e \in Domains : last[e] # Never}
    BY <2>1, <2>4 DEF DeleteMonitor
  <2>5. QED  BY <2>2, <2>3, <2>4
<1>4. overdue' \subseteq Domains
  BY <1>1 DEF StillOverdue, TypeOK
<1>5. TypeOK'
  BY <1>1, <1>2, <1>3, <1>4 DEF TypeOK
<1>6. \A e \in Domains : Counted(e)'
  BY <1>1, PendingSame, CountedLess
<1>7. QED  BY <1>1, <1>5, <1>6, TablesKeep

-----------------------------------------------------------------------------
(* The theorems.                                                           *)
LEMMA InitInv == Init => IInv
<1> SUFFICES ASSUME Init PROVE IInv
  OBVIOUS
<1>1. /\ hour = 0 /\ last = [d \in Domains |-> Never] /\ monitors = {} /\ active = Keys
      /\ scan = [i \in Invocations |-> Idle] /\ starts = 0 /\ returned = FALSE
      /\ reached = {} /\ overdue = {} /\ asked = [d \in Domains |-> 0]
  BY DEF Init
<1>2. Idle \in [running : BOOLEAN, todo : SUBSET Domains] /\ Idle.todo = {}
      /\ Idle.running = FALSE
  BY DEF Idle
<1>3. /\ 0 \in 0 .. MaxHour /\ 0 \in 0 .. MaxStarts /\ 0 \in 0 .. MaxStarts * (MaxHour + 1)
      /\ MaxStarts * 0 = 0
  <2>1. MaxStarts \in Nat /\ MaxHour \in Nat /\ MaxHour + 1 \in Nat
    BY BoundsAssumption
  <2>2. MaxStarts * (MaxHour + 1) \in Nat
    BY <2>1, Products
  <2>3. QED  BY <2>1, <2>2
<1>4. TypeOK
  BY <1>1, <1>2, <1>3 DEF TypeOK
<1>5. \A d \in Domains : Pending(d) = {} /\ asked[d] = 0 /\ last[d] = Never
  BY <1>1, <1>2 DEF Pending
<1>6. \A d \in Domains : Counted(d)
  BY <1>1, <1>3, <1>5, FS_EmptySet DEF Counted, Held
<1>7. Covered
  BY <1>1, <1>2 DEF Covered
<1>8. QED  BY <1>1, <1>2, <1>4, <1>6, <1>7 DEF IInv

LEMMA NextInv == IInv /\ [Next]_vars => IInv'
<1> SUFFICES ASSUME IInv, [Next]_vars PROVE IInv'
  OBVIOUS
<1>1. ASSUME NEW i \in Invocations,
             StartScan(i) \/ Return(i) \/ Kill(i)
             \/ \E d \in Domains : EnqueueDue(i, d) \/ EnqueueRaises(i, d)
      PROVE  IInv'
  BY <1>1, StartKeeps, EndKeeps, SendKeeps
<1>2. ASSUME NEW d \in Domains, NEW at \in 0 .. hour, CrawlLands(d, at) PROVE IInv'
  BY <1>2, LandsKeeps
<1>3. ASSUME NEW k \in Keys,
             SwitchKey(k) \/ \E d \in Domains : InsertMonitor(k, d) \/ DeleteMonitor(k, d)
      PROVE  IInv'
  BY <1>3, WatchersKeep
<1>4. CASE HourPasses
  BY <1>4, HourKeeps
<1>5. CASE UNCHANGED vars
  <2>1. UNCHANGED <<hour, last, monitors, active, scan, starts, returned, reached, overdue, asked>>
    BY <1>5 DEF vars, rows
  <2>2. TypeOK' /\ \A i \in Invocations : ~scan'[i].running => scan'[i].todo = {}
    BY <2>1 DEF IInv, TypeOK
  <2>3. \A d \in Domains : Counted(d)'
    BY <2>1, PendingSame, CountedLess DEF IInv
  <2>4. Covered'
    BY <2>1 DEF IInv, Covered, Overdue, Tiers
  <2>5. QED  BY <2>2, <2>3, <2>4 DEF IInv
<1>6. QED  BY <1>1, <1>2, <1>3, <1>4, <1>5 DEF Next

LEMMA Invariant == Spec => []IInv
BY InitInv, NextInv, PTL DEF Spec

(* The tables, the scans and the counters keep their types; at most        *)
(* MaxStarts messages an hour are ever sent for a domain.                  *)
THEOREM TypeCorrect == Spec => []TypeOK
<1>1. IInv => TypeOK
  BY DEF IInv
<1>2. QED  BY <1>1, Invariant, PTL

(* handler.py's scan keeps no record of what it asked for: what piles up   *)
(* while a crawl is held up is bounded by the hours the domain is due.     *)
THEOREM BacklogIsBounded == Spec => []BacklogBounded
<1>1. IInv => BacklogBounded
  <2> SUFFICES ASSUME IInv, NEW d \in Domains, last[d] # Never
               PROVE  asked[d] <= MaxStarts *
                        (1 + Max({0, hour - last[d] - LicensingCadence + 1}))
    BY DEF BacklogBounded
  <2>1. TypeOK /\ Counted(d)
    BY DEF IInv
  <2>2. /\ hour \in Int /\ last[d] \in Int /\ LicensingCadence \in Int /\ asked[d] \in Nat
        /\ MaxStarts \in Nat /\ starts \in Nat /\ starts <= MaxStarts
    BY <2>1, Types DEF Never
  <2>3. PICK k \in Int : k = hour - last[d] - LicensingCadence
    BY <2>2
  <2>4. asked[d] <= IF k >= 0 THEN MaxStarts * (1 + k) + starts ELSE MaxStarts
    <3>1. Cardinality(Pending(d)) \in Nat /\ Held(d) <= Allowed(d)
      BY <2>1, FS_CardinalityType DEF Counted
    <3>2. Allowed(d) = IF k >= 0 THEN MaxStarts * (1 + k) + starts ELSE MaxStarts
      BY <2>2, <2>3 DEF Allowed
    <3>3. PICK x \in Int : x = MaxStarts * (1 + k)
      BY <2>2
    <3>4. QED  BY <2>2, <3>1, <3>2, <3>3 DEF Held
  <2>5. Max({0, k + 1}) = IF k + 1 >= 0 THEN k + 1 ELSE 0
    <3>1. Max({0, k + 1}) \in {0, k + 1} /\ \A y \in {0, k + 1} : Max({0, k + 1}) >= y
      <4>1. \E x \in {0, k + 1} : \A y \in {0, k + 1} : x >= y
        OBVIOUS
      <4>2. QED  BY <4>1 DEF Max
    <3>2. QED  BY <3>1
  <2>6. MaxStarts * (1 + (k + 1)) = MaxStarts * (1 + k) + MaxStarts
    BY <2>2
  <2>7. asked[d] <= MaxStarts * (1 + Max({0, k + 1}))
    <3>1. CASE k >= 0
      <4>1. PICK x \in Int : x = MaxStarts * (1 + k)
        BY <2>2
      <4>2. QED  BY <2>2, <2>4, <2>5, <2>6, <3>1, <4>1
    <3>2. CASE k < 0
      <4>1. Max({0, k + 1}) = 0 /\ MaxStarts * (1 + 0) = MaxStarts
        BY <2>2, <2>5, <3>2
      <4>2. QED  BY <2>2, <2>4, <3>2, <4>1
    <3>3. QED  BY <3>1, <3>2
  <2>8. QED  BY <2>3, <2>7
<1>2. QED  BY <1>1, Invariant, PTL

(* handler.py: "a domain becoming due is never more than an hour late".    *)
(* Whatever customers, billing and crawls do during the scan, the hour     *)
(* does not end with an overdue domain that no invocation tried to send,   *)
(* if one invocation in it came to its end.                                *)
THEOREM NeverMoreThanAnHourLate == Spec => AskedEveryHour
<1> DEFINE Asked == hour' # hour /\ returned => overdue \subseteq reached
<1>1. IInv /\ [Next]_vars => [Asked]_vars
  BY DEF IInv, Covered
<1>2. QED  BY <1>1, Invariant, PTL DEF Spec, AskedEveryHour
=============================================================================
