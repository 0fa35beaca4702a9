--------------------------- MODULE CustomersProofs ---------------------------
(***************************************************************************)
(* Theorems about Billing and about Customers.  Of Billing: what a         *)
(* customer was shown stays true, for every number of sessions, secrets,   *)
(* visits and events, in whatever order and however often the events are   *)
(* delivered.  Every step of a customer, a page or a call is one of        *)
(* Billing or leaves its variables alone, so this holds of the whole; and  *)
(* what the pages show and what the calls are answered follows from it.    *)
(***************************************************************************)
EXTENDS Customers, SequenceTheorems, FiniteSetTheorems, TLAPS

-----------------------------------------------------------------------------
(* The inductive invariant: it ties the secret a visit carries to the row  *)
(* it was read from.                                                       *)

(* A row is made of one secret, which it holds in plain until cleared.     *)
PendingIsTheKey ==
  \A s \in Sessions : key[s].pending_secret \in {None, key[s].key_hash}

(* A visit on its way carries the secret the row accepts, and answers only *)
(* after it was cleared.                                                   *)
CarriesTheKey(v) ==
  visit[v].pc \in {"clearing", "answering"} =>
    /\ visit[v].session \in Sessions
    /\ key[visit[v].session] # NoKey
    /\ visit[v].secret = key[visit[v].session].key_hash
    /\ visit[v].pc = "answering" => key[visit[v].session].pending_secret = None

ShownBelongs ==
  \A s \in Sessions : shown[s] # {} =>
    /\ key[s] # NoKey
    /\ shown[s] \subseteq {key[s].key_hash}
    /\ key[s].pending_secret = None

IInv ==
  /\ TypeOK
  /\ PendingIsTheKey
  /\ \A v \in Visits : CarriesTheKey(v)
  /\ ShownBelongs

(* What a step may do to a row: make one, or leave its secret alone.       *)
RowKept(old, new) ==
  old # NoKey =>
    /\ new # NoKey
    /\ new.key_hash = old.key_hash
    /\ new.pending_secret \in {None, old.pending_secret}

-----------------------------------------------------------------------------
(* An event mints a row with a secret of its own, or keeps the row.        *)
LEMMA AppliedKeepsRow ==
  ASSUME NEW s \in Sessions, NEW e \in Event, NEW row \in Applied(s, e),
         TypeOK, PendingIsTheKey
  PROVE  /\ row \in Key \cup {NoKey}
         /\ row.pending_secret \in {None, row.key_hash}
         /\ RowKept(key[s], row)
<1>1. key[s] \in Key \cup {NoKey} /\ key[s].pending_secret \in {None, key[s].key_hash}
  BY DEF TypeOK, PendingIsTheKey
<1>2. CASE e.complete /\ e.type = "completed"
  <2>1. PICK secret \in Secrets : row = Inserted(key[s], secret)
    BY <1>2 DEF Applied, Fresh
  <2>2. QED  BY <1>1, <2>1 DEF Inserted, Key, NoKey, RowKept
<1>3. CASE e.complete /\ e.type # "completed"
  <2>1. PICK active \in BOOLEAN : row = Updated(key[s], active)
    BY <1>3 DEF Applied, Event
  <2>2. QED
    BY <1>1, <2>1, NoneAssumption DEF Updated, Key, NoKey, RowKept
<1>4. CASE ~e.complete
  <2>1. row = key[s]
    BY <1>4 DEF Applied
  <2>2. QED  BY <1>1, <2>1 DEF RowKept
<1>5. QED  BY <1>2, <1>3, <1>4

(* Replacing the row of one session by such a row disturbs nobody.         *)
LEMMA RowReplaced ==
  ASSUME NEW s \in Sessions, NEW row \in Key \cup {NoKey}, IInv,
         row.pending_secret \in {None, row.key_hash},
         RowKept(key[s], row),
         key' = [key EXCEPT ![s] = row],
         UNCHANGED <<visit, shown>>
  PROVE  /\ key' \in [Sessions -> Key \cup {NoKey}]
         /\ PendingIsTheKey'
         /\ \A v \in Visits : CarriesTheKey(v)'
         /\ ShownBelongs'
<1>1. key \in [Sessions -> Key \cup {NoKey}]
  BY DEF IInv, TypeOK
<1>2. key' \in [Sessions -> Key \cup {NoKey}]
  BY <1>1
<1>3. \A t \in Sessions : key'[t] = IF t = s THEN row ELSE key[t]
  BY <1>1
<1>4. PendingIsTheKey'
  BY <1>3 DEF IInv, PendingIsTheKey
<1>5. ASSUME NEW v \in Visits PROVE CarriesTheKey(v)'
  BY <1>3 DEF IInv, CarriesTheKey, RowKept
<1>6. ShownBelongs'
  BY <1>3 DEF IInv, ShownBelongs, RowKept
<1>7. QED  BY <1>2, <1>4, <1>5, <1>6

(* Stripe's own steps touch neither rows nor visits.                       *)
LEMMA EmitKeeps ==
  ASSUME NEW s \in Sessions, NEW type \in {"completed", "updated", "deleted"},
         NEW status \in {"active", "lapsed", "canceled"}, IInv, Emit(s, type, status),
         inOrder' \in [Sessions -> BOOLEAN]
  PROVE  IInv'
<1>1. TypeOK'
  <2>0. PICK complete \in BOOLEAN :
          log' = [log EXCEPT ![s] = Append(@, [type |-> type, active |-> status = "active",
                                               complete |-> complete])]
    BY DEF Emit
  <2> DEFINE e == [type |-> type, active |-> status = "active", complete |-> complete]
  <2>1. log \in [Sessions -> Seq(Event)] /\ unacked \in [Sessions -> SUBSET Nat]
        /\ \A t \in Sessions : unacked[t] \subseteq DOMAIN log[t]
    BY DEF IInv, TypeOK
  <2>2. e \in Event
    BY DEF Event
  <2>3. /\ log' = [log EXCEPT ![s] = Append(@, e)]
        /\ unacked' = [unacked EXCEPT ![s] = @ \cup {Len(log[s]) + 1}]
    BY <2>0 DEF Emit
  <2> HIDE DEF e
  <2>4. log' \in [Sessions -> Seq(Event)] /\ unacked' \in [Sessions -> SUBSET Nat]
    BY <2>1, <2>2, <2>3
  <2>5. ASSUME NEW t \in Sessions PROVE unacked'[t] \subseteq DOMAIN log'[t]
    <3>1. log[t] \in Seq(Event) /\ unacked[t] \subseteq 1 .. Len(log[t])
      BY <2>1
    <3>2. CASE t = s
      <4>1. log'[t] = Append(log[t], e) /\ unacked'[t] = unacked[t] \cup {Len(log[t]) + 1}
        BY <2>1, <2>3, <3>2
      <4>2. DOMAIN log'[t] = 1 .. Len(log[t]) + 1 /\ Len(log[t]) \in Nat
        BY <2>2, <3>1, <4>1
      <4>3. QED  BY <3>1, <4>1, <4>2
    <3>3. CASE t # s
      BY <2>1, <2>3, <3>3
    <3>4. QED  BY <3>2, <3>3
  <2>6. subscription' \in [Sessions -> {"none", "active", "lapsed", "canceled"}]
    BY DEF IInv, TypeOK, Emit
  <2>7. QED  BY <2>4, <2>5, <2>6 DEF IInv, TypeOK, Emit
<1>2. PendingIsTheKey' /\ (\A v \in Visits : CarriesTheKey(v)') /\ ShownBelongs'
  BY DEF IInv, Emit, PendingIsTheKey, CarriesTheKey, ShownBelongs
<1>3. QED  BY <1>1, <1>2 DEF IInv

(* An event is applied, whether or not its answer reaches Stripe.          *)
LEMMA HandleKeeps ==
  ASSUME NEW s \in Sessions, NEW i \in 1 .. MaxEvents, IInv,
         Handle(s, i) \/ HandleUnanswered(s, i)
  PROVE  IInv'
<1>1. log[s] \in Seq(Event) /\ i \in DOMAIN log[s]
  BY DEF IInv, TypeOK, Handle, HandleUnanswered, Deliverable
<1>2. log[s][i] \in Event
  BY <1>1
<1>3. PICK row \in Applied(s, log[s][i]) : key' = [key EXCEPT ![s] = row]
  BY DEF Handle, HandleUnanswered
<1>4. /\ row \in Key \cup {NoKey}
      /\ row.pending_secret \in {None, row.key_hash}
      /\ RowKept(key[s], row)
  BY <1>2, <1>3, AppliedKeepsRow DEF IInv
<1>5. UNCHANGED <<inOrder, subscription, log, visit, shown>>
  BY DEF Handle, HandleUnanswered
<1>6. /\ key' \in [Sessions -> Key \cup {NoKey}]
      /\ PendingIsTheKey' /\ (\A v \in Visits : CarriesTheKey(v)') /\ ShownBelongs'
  BY <1>3, <1>4, <1>5, RowReplaced
<1>7. /\ unacked' \in [Sessions -> SUBSET Nat]
      /\ \A t \in Sessions : unacked'[t] \subseteq unacked[t]
  BY DEF IInv, TypeOK, Handle, HandleUnanswered
<1>8. \A t \in Sessions : unacked'[t] \subseteq DOMAIN log'[t]
  BY <1>5, <1>7 DEF IInv, TypeOK
<1>9. TypeOK'
  BY <1>5, <1>6, <1>7, <1>8 DEF IInv, TypeOK
<1>10. QED  BY <1>6, <1>9 DEF IInv

-----------------------------------------------------------------------------
(* The three steps of get_checkout_session_key, and its failure.           *)
LEMMA ReadKeeps ==
  ASSUME NEW v \in Visits, NEW s \in Sessions, IInv, ReadKey(v, s)
  PROVE  IInv'
<1> DEFINE read == [pc |-> IF key[s].pending_secret = None THEN "done" ELSE "clearing",
                    session |-> s, secret |-> key[s].pending_secret]
<1>1. key[s] \in Key /\ key[s].pending_secret \in {None, key[s].key_hash}
  BY DEF IInv, TypeOK, PendingIsTheKey, ReadKey
<1>2. visit' = [visit EXCEPT ![v] = read]
  BY DEF ReadKey
<1>3. read \in VisitState
  BY <1>1 DEF VisitState, Key
<1>4. visit' \in [Visits -> VisitState]
  BY <1>2, <1>3 DEF IInv, TypeOK
<1>5. TypeOK'
  BY <1>4 DEF IInv, TypeOK, ReadKey
<1>6. ASSUME NEW u \in Visits PROVE CarriesTheKey(u)'
  <2>1. CASE u = v
    BY <1>1, <1>2, <2>1 DEF IInv, TypeOK, CarriesTheKey, ReadKey
  <2>2. CASE u # v
    BY <1>2, <2>2 DEF IInv, TypeOK, CarriesTheKey, ReadKey
  <2>3. QED  BY <2>1, <2>2
<1>7. PendingIsTheKey' /\ ShownBelongs'
  BY DEF IInv, PendingIsTheKey, ShownBelongs, ReadKey
<1>8. QED  BY <1>5, <1>6, <1>7 DEF IInv

LEMMA ClearKeeps ==
  ASSUME NEW v \in Visits, IInv, ClearSecret(v)
  PROVE  IInv'
<1> DEFINE s == visit[v].session
           row == [key[s] EXCEPT !.pending_secret = None]
<1>1. s \in Sessions /\ key[s] # NoKey /\ visit[v].secret = key[s].key_hash
  BY DEF IInv, CarriesTheKey, ClearSecret
<1>2. key \in [Sessions -> Key \cup {NoKey}] /\ key[s] \in Key
  BY <1>1 DEF IInv, TypeOK
<1>3. key' = [key EXCEPT ![s] = row]
  BY <1>1, <1>2 DEF ClearSecret
<1>4. row \in Key /\ row.pending_secret = None /\ row.key_hash = key[s].key_hash
  BY <1>2 DEF Key
<1>5. row # NoKey
  BY <1>4, NoneAssumption DEF Key, NoKey
<1>6. visit' = [visit EXCEPT ![v].pc = "answering"] /\ shown' = shown
  BY DEF ClearSecret
<1>7. visit \in [Visits -> VisitState]
  BY DEF IInv, TypeOK
<1>8. visit' \in [Visits -> VisitState]
  BY <1>6, <1>7 DEF VisitState
<1>9. key' \in [Sessions -> Key \cup {NoKey}]
  BY <1>2, <1>3, <1>4
<1>10. TypeOK'
  BY <1>8, <1>9 DEF IInv, TypeOK, ClearSecret
<1> HIDE DEF row
<1>11. \A t \in Sessions : key'[t] = IF t = s THEN row ELSE key[t]
  BY <1>2, <1>3
<1>12. PendingIsTheKey'
  BY <1>4, <1>11 DEF IInv, PendingIsTheKey
<1>13. ASSUME NEW u \in Visits PROVE CarriesTheKey(u)'
  <2>1. CASE u = v
    <3>1. /\ visit'[u].session = s /\ visit'[u].secret = visit[v].secret
          /\ visit'[u].pc = "answering"
      BY <1>6, <1>7, <2>1 DEF VisitState
    <3>2. key'[s] = row
      BY <1>1, <1>11
    <3>3. QED  BY <1>1, <1>4, <1>5, <3>1, <3>2 DEF CarriesTheKey
  <2>2. CASE u # v
    <3>1. visit'[u] = visit[u]
      BY <1>6, <1>7, <2>2
    <3>2. CarriesTheKey(u)
      BY DEF IInv
    <3>3. QED  BY <1>1, <1>4, <1>5, <1>11, <3>1, <3>2 DEF CarriesTheKey
  <2>3. QED  BY <2>1, <2>2
<1>14. ShownBelongs'
  BY <1>4, <1>5, <1>6, <1>11 DEF IInv, ShownBelongs
<1>15. QED  BY <1>10, <1>12, <1>13, <1>14 DEF IInv

LEMMA AnswerKeeps ==
  ASSUME NEW v \in Visits, IInv, AnswerKey(v)
  PROVE  IInv'
<1> DEFINE s == visit[v].session
<1>1. /\ s \in Sessions /\ key[s] # NoKey
      /\ visit[v].secret = key[s].key_hash /\ key[s].pending_secret = None
  BY DEF IInv, CarriesTheKey, AnswerKey
<1>2. key[s].key_hash \in Secrets
  BY <1>1 DEF IInv, TypeOK, Key
<1>3. /\ shown' = [shown EXCEPT ![s] = @ \cup {visit[v].secret}]
      /\ visit' = [visit EXCEPT ![v].pc = "done"]
      /\ UNCHANGED <<inOrder, subscription, log, unacked, key>>
  BY DEF AnswerKey
<1>4. visit \in [Visits -> VisitState] /\ shown \in [Sessions -> SUBSET Secrets]
  BY DEF IInv, TypeOK
<1>5. visit' \in [Visits -> VisitState]
  BY <1>3, <1>4 DEF VisitState
<1>6. shown' \in [Sessions -> SUBSET Secrets]
  BY <1>1, <1>2, <1>3, <1>4
<1>7. TypeOK'
  BY <1>3, <1>5, <1>6 DEF IInv, TypeOK
<1>8. ASSUME NEW u \in Visits PROVE CarriesTheKey(u)'
  <2>1. visit'[u] = visit[u] \/ visit'[u].pc = "done"
    BY <1>3, <1>4 DEF VisitState
  <2>2. CarriesTheKey(u)
    BY DEF IInv
  <2>3. QED  BY <1>3, <2>1, <2>2 DEF CarriesTheKey
<1>9. ShownBelongs'
  BY <1>1, <1>3, <1>4 DEF IInv, ShownBelongs
<1>10. PendingIsTheKey'
  BY <1>3 DEF IInv, PendingIsTheKey
<1>11. QED  BY <1>7, <1>8, <1>9, <1>10 DEF IInv

LEMMA AbandonKeeps ==
  ASSUME NEW v \in Visits, IInv, AbandonVisit(v)
  PROVE  IInv'
<1>1. /\ visit' = [visit EXCEPT ![v].pc = "done"]
      /\ UNCHANGED <<inOrder, subscription, log, unacked, key, shown>>
  BY DEF AbandonVisit
<1>2. visit \in [Visits -> VisitState]
  BY DEF IInv, TypeOK
<1>3. visit' \in [Visits -> VisitState]
  BY <1>1, <1>2 DEF VisitState
<1>4. TypeOK'
  BY <1>1, <1>3 DEF IInv, TypeOK
<1>5. ASSUME NEW u \in Visits PROVE CarriesTheKey(u)'
  <2>1. visit'[u] = visit[u] \/ visit'[u].pc = "done"
    BY <1>1, <1>2 DEF VisitState
  <2>2. CarriesTheKey(u)
    BY DEF IInv
  <2>3. QED  BY <1>1, <2>1, <2>2 DEF CarriesTheKey
<1>6. PendingIsTheKey' /\ ShownBelongs'
  BY <1>1 DEF IInv, PendingIsTheKey, ShownBelongs
<1>7. QED  BY <1>4, <1>5, <1>6 DEF IInv

-----------------------------------------------------------------------------
LEMMA InitIInv == Init => IInv
<1> SUFFICES ASSUME Init PROVE IInv
  OBVIOUS
<1>1. TypeOK
  BY DEF Init, TypeOK, NoKey, VisitState
<1>2. PendingIsTheKey /\ ShownBelongs
  BY DEF Init, PendingIsTheKey, ShownBelongs, NoKey
<1>3. \A v \in Visits : CarriesTheKey(v)
  BY DEF Init, CarriesTheKey
<1>4. QED  BY <1>1, <1>2, <1>3 DEF IInv

LEMMA NextIInv == IInv /\ [Next]_vars => IInv'
<1> SUFFICES ASSUME IInv, [Next]_vars PROVE IInv'
  OBVIOUS
<1>0. inOrder \in [Sessions -> BOOLEAN]
  BY DEF IInv, TypeOK
<1>1. ASSUME NEW s \in Sessions, CompleteCheckout(s) PROVE IInv'
  <2>1. inOrder' \in [Sessions -> BOOLEAN] /\ Emit(s, "completed", "active")
    BY <1>0, <1>1 DEF CompleteCheckout
  <2>2. QED  BY <2>1, EmitKeeps
<1>2. ASSUME NEW s \in Sessions, NEW status \in {"active", "lapsed"}, ChangeStatus(s, status)
      PROVE  IInv'
  BY <1>0, <1>2, EmitKeeps DEF ChangeStatus
<1>3. ASSUME NEW s \in Sessions, CancelSubscription(s) PROVE IInv'
  BY <1>0, <1>3, EmitKeeps DEF CancelSubscription
<1>4. ASSUME NEW s \in Sessions, NEW i \in 1 .. MaxEvents,
             Handle(s, i) \/ HandleUnanswered(s, i)
      PROVE  IInv'
  BY <1>4, HandleKeeps
<1>5. ASSUME NEW v \in Visits, NEW s \in Sessions, ReadKey(v, s) PROVE IInv'
  BY <1>5, ReadKeeps
<1>6. ASSUME NEW v \in Visits, ClearSecret(v) PROVE IInv'
  BY <1>6, ClearKeeps
<1>7. ASSUME NEW v \in Visits, AnswerKey(v) PROVE IInv'
  BY <1>7, AnswerKeeps
<1>8. ASSUME NEW v \in Visits, AbandonVisit(v) PROVE IInv'
  BY <1>8, AbandonKeeps
<1>9. CASE UNCHANGED vars
  BY <1>9 DEF IInv, TypeOK, PendingIsTheKey, CarriesTheKey, ShownBelongs, vars
<1>10. QED
  BY <1>1, <1>2, <1>3, <1>4, <1>5, <1>6, <1>7, <1>8, <1>9 DEF Next

LEMMA Invariance == Spec => []IInv
  BY InitIInv, NextIInv, PTL DEF Spec

-----------------------------------------------------------------------------
(* The types of Billing's variables, for all its constants.                *)
THEOREM TypeCorrect == Spec => []TypeOK
<1>1. IInv => TypeOK
  BY DEF IInv
<1>2. QED  BY <1>1, Invariance, PTL

(* A secret a customer was ever shown is the one the key row accepts,      *)
(* however the events are ordered, repeated and interleaved with visits.   *)
THEOREM ShownWorks == Spec => []ShownSecretWorks
<1>1. IInv => ShownSecretWorks
  BY DEF IInv, ShownBelongs, ShownSecretWorks
<1>2. QED  BY <1>1, Invariance, PTL

(* No plaintext stays in the database, or comes back, after it was shown.  *)
THEOREM ShownCleared == Spec => []ShownMeansCleared
<1>1. IInv => ShownMeansCleared
  BY DEF IInv, ShownBelongs, ShownMeansCleared
<1>2. QED  BY <1>1, Invariance, PTL

-----------------------------------------------------------------------------
(* Access follows the subscription: while Stripe delivers the events of a  *)
(* session in order, its row is what the events up to one of them made of  *)
(* it, and the events after that one are those to be answered yet.         *)
Grants(e) == e.type = "completed" \/ (e.type = "updated" /\ e.active)

(* The row after the first j events: there is one if the checkout was      *)
(* complete, and the last of them switched it, unless it was ignored.      *)
IsAfter(row, s, j) ==
  /\ row # NoKey <=> (j # 0 /\ log[s][1].complete)
  /\ j # 0 /\ log[s][1].complete /\ log[s][j].complete => row.active = Grants(log[s][j])

After(s, j) == IsAfter(key[s], s, j)

LogTellsStatus(s) ==
  /\ \A i \in 1 .. Len(log[s]) : log[s][i].type = "completed" <=> i = 1
  /\ subscription[s] = "none" <=> Len(log[s]) = 0
  /\ Len(log[s]) # 0 => (subscription[s] = "active" <=> Grants(log[s][Len(log[s])]))

(* The event k + 1 may be handled, but not answered. *)
HandledUpTo(s, k) ==
  /\ unacked[s] = k + 1 .. Len(log[s])
  /\ After(s, k) \/ (k < Len(log[s]) /\ After(s, k + 1))

Orderly(s) ==
  /\ LogTellsStatus(s)
  /\ subscription[s] = "none" => inOrder[s]
  /\ inOrder[s] => \E k \in 0 .. Len(log[s]) : HandledUpTo(s, k)

LEMMA Types ==
  ASSUME TypeOK, NEW s \in Sessions
  PROVE  /\ log[s] \in Seq(Event) /\ Len(log[s]) \in Nat
         /\ DOMAIN log[s] = 1 .. Len(log[s])
         /\ \A i \in 1 .. Len(log[s]) : log[s][i] \in Event
         /\ key[s] \in Key \cup {NoKey}
         /\ subscription[s] \in {"none", "active", "lapsed", "canceled"}
BY DEF TypeOK

(* Handling an event gives the row after it, also if it was there before.  *)
LEMMA AppliedIsAfter ==
  ASSUME TypeOK, NEW s \in Sessions, LogTellsStatus(s),
         NEW i \in 1 .. Len(log[s]), After(s, i - 1) \/ After(s, i),
         NEW row \in Applied(s, log[s][i])
  PROVE  IsAfter(row, s, i)
<1>1. log[s][i] \in Event /\ (log[s][i].type = "completed" <=> i = 1) /\ i \in Nat /\ i # 0
  BY Types DEF LogTellsStatus
<1>2. CASE ~log[s][i].complete
  <2>1. row = key[s]
    BY <1>2 DEF Applied
  <2>2. key[s] # NoKey <=> log[s][1].complete
    <3>1. CASE i = 1
      BY <1>2, <3>1 DEF After, IsAfter
    <3>2. CASE i # 1
      BY <1>1, <3>2 DEF After, IsAfter
    <3>3. QED  BY <3>1, <3>2
  <2>3. QED  BY <1>1, <1>2, <2>1, <2>2 DEF IsAfter
<1>3. CASE log[s][i].complete /\ i = 1
  <2>1. PICK secret \in Secrets : row = Inserted(key[s], secret)
    BY <1>1, <1>3 DEF Applied, Fresh
  <2>2. Grants(log[s][i]) = TRUE
    BY <1>1, <1>3 DEF Grants
  <2>3. CASE key[s] = NoKey
    <3>1. row = [key_hash |-> secret, pending_secret |-> secret, active |-> TRUE]
      BY <2>1, <2>3 DEF Inserted
    <3>2. row # NoKey
      BY <3>1, NoneAssumption DEF NoKey
    <3>3. QED  BY <1>1, <1>3, <2>2, <3>1, <3>2 DEF IsAfter
  <2>4. CASE key[s] # NoKey
    <3>1. After(s, i)
      BY <1>3, <2>4 DEF After, IsAfter
    <3>2. row = key[s]
      BY <2>1, <2>4 DEF Inserted
    <3>3. QED  BY <3>1, <3>2 DEF After
  <2>5. QED  BY <2>3, <2>4
<1>4. CASE log[s][i].complete /\ i # 1
  <2>1. key[s] # NoKey <=> log[s][1].complete
    BY <1>1, <1>4 DEF After, IsAfter
  <2>2. row = Updated(key[s], log[s][i].type = "updated" /\ log[s][i].active)
    BY <1>1, <1>4 DEF Applied
  <2>3. CASE key[s] = NoKey
    <3>1. row = NoKey
      BY <2>2, <2>3 DEF Updated
    <3>2. QED  BY <2>1, <2>3, <3>1 DEF IsAfter
  <2>4. CASE key[s] # NoKey
    <3>1. row = [key[s] EXCEPT !.active = (log[s][i].type = "updated" /\ log[s][i].active)]
      BY <2>2, <2>4 DEF Updated
    <3>2. key[s] \in Key
      BY <2>4, Types
    <3>3. /\ row.key_hash = key[s].key_hash
          /\ row.active = (log[s][i].type = "updated" /\ log[s][i].active)
      BY <3>1, <3>2 DEF Key
    <3>4. row # NoKey
      BY <3>2, <3>3, NoneAssumption DEF Key, NoKey
    <3>5. row.active = Grants(log[s][i])
      BY <1>1, <1>4, <3>3 DEF Grants
    <3>6. QED  BY <1>1, <2>1, <2>4, <3>4, <3>5 DEF IsAfter
  <2>5. QED  BY <2>3, <2>4
<1>5. QED  BY <1>2, <1>3, <1>4

(* What happens to other sessions, and to visits, does not matter.         *)
LEMMA OrderlyKept ==
  ASSUME NEW s \in Sessions, Orderly(s),
         inOrder'[s] = inOrder[s], subscription'[s] = subscription[s],
         log'[s] = log[s], unacked'[s] = unacked[s],
         key'[s] = NoKey <=> key[s] = NoKey, key'[s].active = key[s].active
  PROVE  Orderly(s)'
<1>1. LogTellsStatus(s)'
  BY DEF Orderly, LogTellsStatus
<1>2. \A j : After(s, j) => After(s, j)'
  BY DEF After, IsAfter
<1>3. \A k : HandledUpTo(s, k) => HandledUpTo(s, k)'
  BY <1>2 DEF HandledUpTo
<1>4. QED  BY <1>1, <1>3 DEF Orderly

LEMMA EmitIsOrderly ==
  ASSUME TypeOK, NEW s \in Sessions, Orderly(s),
         NEW type \in {"completed", "updated", "deleted"},
         NEW status \in {"active", "lapsed", "canceled"}, Emit(s, type, status),
         type = "completed" <=> subscription[s] = "none",
         status = "active" => type # "deleted",
         type = "completed" => status = "active",
         inOrder'[s] => inOrder[s]
  PROVE  Orderly(s)'
<1>0. PICK complete \in BOOLEAN :
        log' = [log EXCEPT ![s] = Append(@, [type |-> type, active |-> status = "active",
                                             complete |-> complete])]
  BY DEF Emit
<1> DEFINE e == [type |-> type, active |-> status = "active", complete |-> complete]
           n == Len(log[s])
<1>1. /\ log' = [log EXCEPT ![s] = Append(@, e)]
      /\ unacked' = [unacked EXCEPT ![s] = @ \cup {n + 1}]
      /\ subscription' = [subscription EXCEPT ![s] = status]
      /\ key' = key
  BY <1>0 DEF Emit
<1>2. e \in Event /\ e.type = type /\ (e.active <=> status = "active")
  BY DEF Event
<1> HIDE DEF e
<1>3. n \in Nat /\ log[s] \in Seq(Event)
  BY Types
<1>4. /\ log'[s] = Append(log[s], e) /\ unacked'[s] = unacked[s] \cup {n + 1}
      /\ subscription'[s] = status
  BY <1>1 DEF TypeOK
<1>5. /\ Len(log'[s]) = n + 1 /\ log'[s][n + 1] = e
      /\ \A i \in 1 .. n : log'[s][i] = log[s][i]
  BY <1>2, <1>3, <1>4
<1> HIDE DEF n
<1>6. /\ \A i \in 1 .. n : log[s][i].type = "completed" <=> i = 1
      /\ subscription[s] = "none" <=> n = 0
  BY DEF Orderly, LogTellsStatus, n
<1>7. LogTellsStatus(s)'
  <2>1. ASSUME NEW i \in 1 .. n + 1 PROVE log'[s][i].type = "completed" <=> i = 1
    <3>1. CASE i = n + 1
      <4>1. log'[s][i].type = type
        BY <1>2, <1>5, <3>1
      <4>2. type = "completed" <=> n = 0
        BY <1>6
      <4>3. QED  BY <1>3, <3>1, <4>1, <4>2
    <3>2. CASE i \in 1 .. n
      <4>1. log'[s][i] = log[s][i]
        BY <1>5, <3>2
      <4>2. QED  BY <1>6, <3>2, <4>1
    <3>3. QED  BY <1>3, <2>1, <3>1, <3>2
  <2>2. status = "active" <=> Grants(e)
    BY <1>2 DEF Grants
  <2>3. QED  BY <1>3, <1>4, <1>5, <2>1, <2>2 DEF LogTellsStatus
<1>8. ASSUME inOrder'[s] PROVE \E k \in 0 .. n + 1 : HandledUpTo(s, k)'
  <2>1. PICK k \in 0 .. n : HandledUpTo(s, k)
    BY <1>8 DEF Orderly, n
  <2>2. unacked'[s] = k + 1 .. n + 1
    BY <1>3, <1>4, <2>1 DEF HandledUpTo, n
  <2>3. \A j \in 0 .. n : After(s, j) => After(s, j)'
    <3> SUFFICES ASSUME NEW j \in 0 .. n, After(s, j) PROVE After(s, j)'
      OBVIOUS
    <3>1. CASE j = 0
      BY <1>1, <3>1 DEF After, IsAfter
    <3>2. CASE j # 0
      <4>1. log'[s][j] = log[s][j] /\ log'[s][1] = log[s][1]
        BY <1>3, <1>5, <3>2
      <4>2. QED  BY <1>1, <4>1 DEF After, IsAfter, Grants
    <3>3. QED  BY <3>1, <3>2
  <2>4. After(s, k)' \/ (k < n + 1 /\ After(s, k + 1)')
    BY <1>3, <2>1, <2>3 DEF HandledUpTo, n
  <2>5. HandledUpTo(s, k)'
    BY <1>5, <2>2, <2>4 DEF HandledUpTo
  <2>6. QED  BY <1>3, <2>5
<1>9. subscription'[s] # "none"
  BY <1>4
<1>10. QED  BY <1>5, <1>7, <1>8, <1>9 DEF Orderly

LEMMA HandleIsOrderly ==
  ASSUME TypeOK, NEW s \in Sessions, Orderly(s), NEW i \in 1 .. MaxEvents,
         Handle(s, i) \/ HandleUnanswered(s, i)
  PROVE  Orderly(s)'
<1> DEFINE n == Len(log[s])
<1>1. n \in Nat /\ i \in 1 .. n /\ Deliverable(s, i)
  BY Types DEF Handle, HandleUnanswered, Deliverable
<1>2. UNCHANGED <<inOrder, subscription, log>>
  BY DEF Handle, HandleUnanswered
<1>3. LogTellsStatus(s)'
  BY <1>2 DEF Orderly, LogTellsStatus
<1>4. ASSUME inOrder[s] PROVE \E k \in 0 .. n : HandledUpTo(s, k)'
  <2>1. PICK k \in 0 .. n : HandledUpTo(s, k)
    BY <1>4 DEF Orderly
  <2>2. PICK row \in Applied(s, log[s][i]) : key' = [key EXCEPT ![s] = row]
    BY DEF Handle, HandleUnanswered
  <2>3. key'[s] = row
    BY <2>2 DEF TypeOK
  <2>4. unacked'[s] \in {unacked[s], unacked[s] \ {i}}
    BY DEF Handle, HandleUnanswered, TypeOK
  <2>5. unacked[s] = k + 1 .. n
    BY <2>1 DEF HandledUpTo
  <2>6. \/ unacked[s] = {} /\ i = n
        \/ i \in unacked[s] /\ \A j \in unacked[s] : i <= j
    BY <1>1, <1>4 DEF Deliverable
  <2>7. CASE unacked[s] = {} /\ i = n
    <3>1. k = n
      <4>1. n \notin k + 1 .. n
        BY <2>5, <2>7
      <4>2. QED  BY <1>1, <4>1
    <3>2. After(s, i)
      BY <2>1, <2>7, <3>1 DEF HandledUpTo
    <3>3. IsAfter(row, s, i)
      BY <1>1, <3>2, AppliedIsAfter DEF Orderly
    <3>4. After(s, k)'
      BY <1>1, <1>2, <2>3, <2>7, <3>1, <3>3 DEF After, IsAfter
    <3>5. unacked'[s] = k + 1 .. n
      BY <2>4, <2>5, <2>7
    <3>6. QED  BY <1>2, <3>4, <3>5 DEF HandledUpTo
  <2>8. CASE i \in unacked[s] /\ \A j \in unacked[s] : i <= j
    <3>1. i = k + 1
      <4>1. i \in k + 1 .. n /\ k + 1 \in k + 1 .. n
        BY <1>1, <2>5, <2>8
      <4>2. i <= k + 1
        BY <2>5, <2>8, <4>1
      <4>3. QED  BY <1>1, <4>1, <4>2
    <3>2. After(s, i - 1) \/ After(s, i)
      BY <2>1, <3>1 DEF HandledUpTo
    <3>3. IsAfter(row, s, i)
      BY <1>1, <3>2, AppliedIsAfter DEF Orderly
    <3>4. After(s, k + 1)'
      BY <1>1, <1>2, <2>3, <3>1, <3>3 DEF After, IsAfter
    <3>5. CASE unacked'[s] = unacked[s]
      <4>1. HandledUpTo(s, k)'
        BY <1>1, <1>2, <2>5, <3>1, <3>4, <3>5 DEF HandledUpTo
      <4>2. QED  BY <4>1
    <3>6. CASE unacked'[s] = unacked[s] \ {i}
      <4>1. unacked'[s] = k + 2 .. n
        BY <1>1, <2>5, <3>1, <3>6
      <4>2. HandledUpTo(s, k + 1)'
        BY <1>1, <1>2, <3>1, <3>4, <4>1 DEF HandledUpTo
      <4>3. QED  BY <1>1, <3>1, <4>2
    <3>7. QED  BY <2>4, <3>5, <3>6
  <2>9. QED  BY <2>6, <2>7, <2>8
<1>5. QED  BY <1>2, <1>3, <1>4 DEF Orderly

(* A step of another session leaves this one alone. *)
LEMMA OthersKept ==
  ASSUME TypeOK, NEW s \in Sessions, Orderly(s), NEW t \in Sessions \ {s},
         \/ \E type, status : Emit(t, type, status) /\ inOrder'[s] = inOrder[s]
         \/ \E i \in 1 .. MaxEvents : Handle(t, i) \/ HandleUnanswered(t, i)
  PROVE  Orderly(s)'
<1>1. /\ inOrder'[s] = inOrder[s] /\ subscription'[s] = subscription[s] /\ log'[s] = log[s]
      /\ unacked'[s] = unacked[s] /\ key'[s] = key[s]
  BY DEF TypeOK, Emit, Handle, HandleUnanswered
<1>2. QED  BY <1>1, OrderlyKept

LEMMA ClearIsOrderly ==
  ASSUME IInv, NEW s \in Sessions, Orderly(s), NEW v \in Visits, ClearSecret(v)
  PROVE  Orderly(s)'
<1>1. visit[v].session \in Sessions /\ key[visit[v].session] # NoKey
  BY DEF IInv, CarriesTheKey, ClearSecret
<1>2. key \in [Sessions -> Key \cup {NoKey}]
  BY DEF IInv, TypeOK
<1>3. UNCHANGED <<inOrder, subscription, log, unacked>>
  BY DEF ClearSecret
<1>4. CASE s = visit[v].session
  <2>1. key[s] \in Key /\ key'[s] = [key[s] EXCEPT !.pending_secret = None]
    BY <1>1, <1>2, <1>4 DEF ClearSecret
  <2>2. key'[s].active = key[s].active /\ key'[s].key_hash = key[s].key_hash
    BY <2>1 DEF Key
  <2>3. key'[s] # NoKey
    BY <2>1, <2>2, NoneAssumption DEF Key, NoKey
  <2>4. QED  BY <1>1, <1>3, <1>4, <2>2, <2>3, OrderlyKept
<1>5. CASE s # visit[v].session
  <2>1. key'[s] = key[s]
    BY <1>1, <1>2, <1>5 DEF ClearSecret
  <2>2. QED  BY <1>3, <2>1, OrderlyKept
<1>6. QED  BY <1>4, <1>5

LEMMA NextOrderly ==
  ASSUME IInv, NEW s \in Sessions, Orderly(s), [Next]_vars
  PROVE  Orderly(s)'
<1>1. TypeOK
  BY DEF IInv
<1>2. ASSUME NEW t \in Sessions, CompleteCheckout(t) PROVE Orderly(s)'
  <2>1. Emit(t, "completed", "active") /\ subscription[t] = "none"
    BY <1>2 DEF CompleteCheckout
  <2>2. CASE t = s
    <3>1. inOrder[s]
      BY <2>1, <2>2 DEF Orderly
    <3>2. QED  BY <1>1, <2>1, <2>2, <3>1, EmitIsOrderly
  <2>3. CASE t # s
    <3>1. inOrder'[s] = inOrder[s]
      BY <1>1, <1>2, <2>3 DEF CompleteCheckout, TypeOK
    <3>2. QED  BY <1>1, <2>1, <2>3, <3>1, OthersKept
  <2>4. QED  BY <2>2, <2>3
<1>3. ASSUME NEW t \in Sessions, NEW status \in {"active", "lapsed"}, ChangeStatus(t, status)
      PROVE  Orderly(s)'
  BY <1>1, <1>3, EmitIsOrderly, OthersKept DEF ChangeStatus
<1>4. ASSUME NEW t \in Sessions, CancelSubscription(t) PROVE Orderly(s)'
  BY <1>1, <1>4, EmitIsOrderly, OthersKept DEF CancelSubscription
<1>5. ASSUME NEW t \in Sessions, NEW i \in 1 .. MaxEvents,
             Handle(t, i) \/ HandleUnanswered(t, i)
      PROVE  Orderly(s)'
  BY <1>1, <1>5, HandleIsOrderly, OthersKept
<1>6. ASSUME NEW v \in Visits, ClearSecret(v) PROVE Orderly(s)'
  BY <1>6, ClearIsOrderly
<1>7. CASE UNCHANGED <<inOrder, subscription, log, unacked, key>>
  BY <1>7, OrderlyKept
<1>8. QED
  <2>1. CASE \E v \in Visits : \/ \E t \in Sessions : ReadKey(v, t)
                                \/ AnswerKey(v) \/ AbandonVisit(v)
    BY <2>1, <1>7 DEF ReadKey, AnswerKey, AbandonVisit
  <2>2. CASE UNCHANGED vars
    BY <2>2, <1>7 DEF vars
  <2>3. QED  BY <1>2, <1>3, <1>4, <1>5, <1>6, <2>1, <2>2 DEF Next

AllOrderly == IInv /\ \A s \in Sessions : Orderly(s)

LEMMA InitOrderly == Init => AllOrderly
<1> SUFFICES ASSUME Init, NEW s \in Sessions PROVE Orderly(s)
  BY InitIInv DEF AllOrderly
<1>1. /\ log[s] = <<>> /\ subscription[s] = "none" /\ unacked[s] = {} /\ key[s] = NoKey
      /\ inOrder[s]
  BY DEF Init
<1>2. Len(log[s]) = 0
  BY <1>1
<1>3. HandledUpTo(s, 0)
  BY <1>1, <1>2 DEF HandledUpTo, After, IsAfter
<1>4. LogTellsStatus(s)
  BY <1>1, <1>2 DEF LogTellsStatus
<1>5. QED  BY <1>1, <1>2, <1>3, <1>4 DEF Orderly

LEMMA NextAllOrderly == AllOrderly /\ [Next]_vars => AllOrderly'
BY NextIInv, NextOrderly DEF AllOrderly

LEMMA OrderlyFollows == AllOrderly => AccessFollowsSubscription
<1> SUFFICES ASSUME AllOrderly, NEW s \in Sessions, inOrder[s], unacked[s] = {},
                    Told(s)
             PROVE  key[s].active = (subscription[s] = "active")
  BY DEF AccessFollowsSubscription
<1> DEFINE n == Len(log[s])
<1>1. n \in Nat /\ n # 0 /\ (subscription[s] = "active" <=> Grants(log[s][n]))
  BY Types DEF AllOrderly, IInv, Orderly, LogTellsStatus, Told, CheckoutComplete
<1>2. PICK k \in 0 .. n : HandledUpTo(s, k)
  BY DEF AllOrderly, Orderly
<1>3. k = n
  <2>1. n \notin k + 1 .. n
    BY <1>2 DEF HandledUpTo
  <2>2. QED  BY <1>1, <2>1
<1>4. key[s].active = Grants(log[s][n])
  BY <1>1, <1>2, <1>3 DEF HandledUpTo, After, IsAfter, Told, CheckoutComplete
<1>5. QED  BY <1>1, <1>4 DEF Grants

(* A key is active exactly while its subscription is, once Stripe has      *)
(* nothing left to deliver, if it delivers in order: no answer that is     *)
(* lost, no event that is repeated and no visit gets in between.           *)
THEOREM AccessFollows == Spec => []AccessFollowsSubscription
<1>1. QED  BY InitOrderly, NextAllOrderly, OrderlyFollows, PTL DEF Spec

(***************************************************************************)
(* Theorems about Customers, from those above.                             *)
(***************************************************************************)

(* A page that waits for an answer is loading, and waits for only one.     *)
PagesInv ==
  /\ PageTypeOK
  /\ \A p \in Pages :
       /\ page[p].status # "unopened" => page[p].session \in Sessions
       /\ page[p].runs > 0 => page[p].status # "unopened"
       /\ page[p].runs > 0 /\ ~page[p].ref => page[p].status = "loading"
  /\ \A v \in Visits : fetch[v] # None =>
       page[fetch[v]].ref /\ page[fetch[v]].status = "loading"
  /\ \A v, w \in Visits : fetch[v] # None /\ fetch[v] = fetch[w] => v = w

(* What is in the tables of monitors and calls. *)
ApiTypeOK ==
  /\ monitor \in [Monitors -> MonitorRow]
  /\ \A m \in Monitors : monitor[m].at = "unborn" => monitor[m] = Unborn
  /\ call \in Seq(CallState)

(* How far a call for deletion has got, and what that says of the row.     *)
Deletion(c) ==
  LET row == monitor[call[c].monitor]
  IN call[c].op = "delete" =>
       /\ call[c].monitor \in Monitors
       /\ row.at # "unborn"
       /\ call[c].pc = "deleting" => call[c].owner = row.owner
       /\ call[c].pc = "done" =>
            /\ call[c].owner = row.owner /\ call[c].status \in {204, 404} => row.at = "deleted"
            /\ call[c].owner # row.owner => call[c].status \in {401, 404}

(* The answer to whoever has left is ready at once. *)
Refused(c) ==
  call[c].left =>
    /\ call[c].pc = "done"
    /\ call[c].op \in Operations => call[c].status \in {401, 403}
    /\ call[c].op = "portal_by_email" => call[c].status = 404
    /\ call[c].op = "portal_by_key" => call[c].status \in {200, 502}

CallsInv ==
  /\ ApiTypeOK
  /\ \A c \in DOMAIN call :
       /\ call[c].pc = "deleting" => call[c].op = "delete"
       /\ Deletion(c)
       /\ Refused(c)

(* A request that billing-service has not answered is one of a page.       *)
VisitsAwaited ==
  \A v \in Visits : visit[v].pc \in {"clearing", "answering"} => fetch[v] # None

CustomersInv == AllOrderly /\ PagesInv /\ VisitsAwaited /\ CallsInv

-----------------------------------------------------------------------------
(* The pages.                                                              *)
LEMMA OpenKeeps ==
  ASSUME PagesInv, NEW s \in Sessions, OpenPage(s)
  PROVE  PagesInv'
<1> DEFINE new == {p \in Pages : page[p].status = "unopened"}
           q == CHOOSE p \in new : TRUE
           opened == [status |-> "loading", session |-> s, ref |-> FALSE, runs |-> 2]
<1>1. /\ new # {} /\ page' = [page EXCEPT ![q] = opened] /\ fetch' = fetch
  BY DEF OpenPage
<1>2. q \in Pages /\ page[q].status = "unopened"
  BY <1>1
<1>3. opened \in PageState
  BY DEF PageState
<1> HIDE DEF new, q
<1>4. PageTypeOK'
  BY <1>1, <1>2, <1>3 DEF PagesInv, PageTypeOK
<1>5. ASSUME NEW p \in Pages PROVE page'[p] = IF p = q THEN opened ELSE page[p]
  BY <1>1 DEF PagesInv, PageTypeOK
<1>6. ASSUME NEW v \in Visits, fetch[v] # None PROVE fetch[v] \in Pages /\ fetch[v] # q
  BY <1>2, <1>6 DEF PagesInv, PageTypeOK
<1>7. QED  BY <1>1, <1>4, <1>5, <1>6 DEF PagesInv

LEMMA RunKeeps ==
  ASSUME PagesInv, NEW q \in Pages, RunEffect(q)
  PROVE  PagesInv'
<1> DEFINE counted == [page[q] EXCEPT !.runs = @ - 1]
           ran == [counted EXCEPT !.ref = TRUE]
<1>1. page[q].runs > 0 /\ page' = [page EXCEPT ![q] = ran]
  BY DEF RunEffect
<1>2. page[q] \in PageState
  BY DEF PagesInv, PageTypeOK
<1>3. /\ ran \in PageState /\ ran.ref = TRUE /\ ran.status = page[q].status
      /\ ran.session = page[q].session /\ ran.runs = page[q].runs - 1
  <2>1. page[q].runs - 1 \in 0 .. 2
    <3>1. page[q].runs \in 0 .. 2
      BY <1>2 DEF PageState
    <3>2. page[q].runs > 0
      BY <1>1
    <3>3. QED  BY <3>1, <3>2, SMT
  <2>2. counted = [status |-> page[q].status, session |-> page[q].session,
                   ref |-> page[q].ref, runs |-> page[q].runs - 1]
    BY <1>2 DEF PageState
  <2> HIDE DEF counted
  <2>3. QED  BY <1>2, <2>1, <2>2 DEF PageState
<1> HIDE DEF ran, counted
<1>4. page' \in [Pages -> PageState]
  BY <1>1, <1>3 DEF PagesInv, PageTypeOK
<1>5. ASSUME NEW p \in Pages PROVE page'[p] = IF p = q THEN ran ELSE page[p]
  BY <1>1 DEF PagesInv, PageTypeOK
<1>6. \A p \in Pages :
        /\ page'[p].status # "unopened" => page'[p].session \in Sessions
        /\ page'[p].runs > 0 => page'[p].status # "unopened"
        /\ page'[p].runs > 0 /\ ~page'[p].ref => page'[p].status = "loading"
  BY <1>1, <1>3, <1>5 DEF PagesInv
<1>7. CASE page[q].ref
  <2>1. fetch' = fetch
    BY <1>7 DEF RunEffect
  <2>2. QED  BY <1>3, <1>4, <1>5, <1>6, <2>1 DEF PagesInv, PageTypeOK
<1>8. CASE ~page[q].ref
  <2> DEFINE free == {v \in Visits : fetch[v] = None /\ visit[v].pc = "idle"}
             u == CHOOSE v \in free : TRUE
  <2>1. free # {} /\ fetch' = [fetch EXCEPT ![u] = q]
    BY <1>8 DEF RunEffect, Send
  <2>2. u \in Visits
    BY <2>1
  <2> HIDE DEF free, u
  <2>3. ASSUME NEW v \in Visits PROVE fetch'[v] = IF v = u THEN q ELSE fetch[v]
    BY <2>1 DEF PagesInv, PageTypeOK
  <2>4. fetch' \in [Visits -> Pages \cup {None}]
    BY <2>1 DEF PagesInv, PageTypeOK
  <2>5. page[q].status = "loading"
    BY <1>1, <1>8 DEF PagesInv
  <2>6. \A v \in Visits : fetch[v] # None => fetch[v] \in Pages /\ fetch[v] # q
    BY <1>8 DEF PagesInv, PageTypeOK
  <2>7. \A v \in Visits : fetch'[v] # None =>
          page'[fetch'[v]].ref /\ page'[fetch'[v]].status = "loading"
    BY <1>3, <1>5, <2>3, <2>5, <2>6 DEF PagesInv
  <2>8. \A v, w \in Visits : fetch'[v] # None /\ fetch'[v] = fetch'[w] => v = w
    BY <2>3, <2>6 DEF PagesInv
  <2>9. QED  BY <1>4, <1>6, <2>4, <2>7, <2>8 DEF PagesInv, PageTypeOK
<1>9. QED  BY <1>7, <1>8

LEMMA ReceiveKeeps ==
  ASSUME PagesInv, NEW u \in Visits, fetch[u] # None,
         NEW status \in {"error", "key", "gone"}, Receive(u, status)
  PROVE  PagesInv'
<1> DEFINE q == fetch[u]
           got == [page[q] EXCEPT !.status = status]
<1>1. /\ q \in Pages /\ page[q].ref /\ page[q].status = "loading"
      /\ fetch' = [fetch EXCEPT ![u] = None] /\ page' = [page EXCEPT ![q] = got]
  BY DEF PagesInv, PageTypeOK, Receive
<1>2. page[q] \in PageState
  BY <1>1 DEF PagesInv, PageTypeOK
<1>3. /\ got \in PageState /\ got.ref /\ got.status = status
      /\ got.session = page[q].session /\ got.runs = page[q].runs
  BY <1>1, <1>2 DEF PageState
<1> HIDE DEF got
<1>4. PageTypeOK'
  BY <1>1, <1>3 DEF PagesInv, PageTypeOK
<1>5. ASSUME NEW p \in Pages PROVE page'[p] = IF p = q THEN got ELSE page[p]
  BY <1>1 DEF PagesInv, PageTypeOK
<1>6. ASSUME NEW v \in Visits PROVE fetch'[v] = IF v = u THEN None ELSE fetch[v]
  BY <1>1 DEF PagesInv, PageTypeOK
<1>7. \A p \in Pages :
        /\ page'[p].status # "unopened" => page'[p].session \in Sessions
        /\ page'[p].runs > 0 => page'[p].status # "unopened"
        /\ page'[p].runs > 0 /\ ~page'[p].ref => page'[p].status = "loading"
  BY <1>1, <1>3, <1>5 DEF PagesInv
<1>8. \A v \in Visits : fetch'[v] # None =>
        /\ v # u /\ fetch'[v] = fetch[v] /\ fetch[v] \in Pages /\ fetch[v] # q
  BY <1>6 DEF PagesInv, PageTypeOK
<1>9. QED  BY <1>4, <1>5, <1>7, <1>8 DEF PagesInv

LEMMA PageStepKeeps ==
  ASSUME PagesInv, VisitsAwaited, PageStep
  PROVE  PagesInv'
<1>1. ASSUME NEW p \in Pages, RunEffect(p) PROVE PagesInv'
  BY <1>1, RunKeeps
<1>2. CASE UNCHANGED pageVars
  BY <1>2 DEF PagesInv, PageTypeOK, pageVars
<1>3. ASSUME NEW v \in Visits, NEW status \in {"error", "key", "gone"}, fetch[v] # None,
             Receive(v, status)
      PROVE  PagesInv'
  BY <1>3, ReceiveKeeps
<1>4. ASSUME NEW v \in Visits, ServeRead(v) PROVE PagesInv'
  BY <1>2, <1>3, <1>4 DEF ServeRead
<1>5. ASSUME NEW v \in Visits, ServeNothing(v) PROVE PagesInv'
  BY <1>3, <1>5 DEF ServeNothing
<1>6. ASSUME NEW v \in Visits, ServeAnswer(v) \/ ServeAbandoned(v) PROVE PagesInv'
  <2>1. fetch[v] # None
    BY <1>6 DEF VisitsAwaited, ServeAnswer, ServeAbandoned, AnswerKey, AbandonVisit
  <2>2. QED  BY <1>3, <1>6, <2>1 DEF ServeAnswer, ServeAbandoned
<1>7. ASSUME NEW v \in Visits, ServeClear(v) PROVE PagesInv'
  BY <1>2, <1>7 DEF ServeClear
<1>8. QED  BY <1>1, <1>4, <1>5, <1>6, <1>7 DEF PageStep

LEMMA PageStepAwaits ==
  ASSUME TypeOK, PagesInv, VisitsAwaited, PageStep
  PROVE  VisitsAwaited'
<1>1. visit \in [Visits -> VisitState] /\ fetch \in [Visits -> Pages \cup {None}]
  BY DEF TypeOK, PagesInv, PageTypeOK
<1>2. ASSUME NEW p \in Pages, RunEffect(p) PROVE VisitsAwaited'
  <2>1. visit' = visit
    BY <1>2 DEF RunEffect, vars
  <2>2. CASE fetch' = fetch
    BY <2>1, <2>2 DEF VisitsAwaited
  <2>3. CASE Send(p)
    <3> DEFINE free == {v \in Visits : fetch[v] = None /\ visit[v].pc = "idle"}
               u == CHOOSE v \in free : TRUE
    <3>1. free # {} /\ fetch' = [fetch EXCEPT ![u] = p]
      BY <2>3 DEF Send
    <3>2. visit[u].pc = "idle"
      BY <3>1
    <3> HIDE DEF u, free
    <3>3. \A v \in Visits : v # u => fetch'[v] = fetch[v]
      BY <1>1, <3>1
    <3>4. QED  BY <2>1, <3>2, <3>3 DEF VisitsAwaited
  <2>4. QED  BY <1>2, <2>2, <2>3 DEF RunEffect
<1>3. ASSUME NEW u \in Visits,
             ServeRead(u) \/ ServeNothing(u) \/ ServeClear(u) \/ ServeAnswer(u)
               \/ ServeAbandoned(u)
      PROVE  VisitsAwaited'
  <2>1. \A v \in Visits : v # u => visit'[v] = visit[v] /\ fetch'[v] = fetch[v]
    BY <1>1, <1>3 DEF ServeRead, ServeNothing, ServeClear, ServeAnswer, ServeAbandoned,
      ReadKey, ClearSecret, AnswerKey, AbandonVisit, Receive, pageVars, vars
  <2>2. visit'[u].pc \in {"clearing", "answering"} => fetch'[u] # None
    <3>1. CASE ServeRead(u)
      BY <1>1, <3>1 DEF ServeRead, pageVars
    <3>2. CASE ServeNothing(u)
      BY <3>2 DEF ServeNothing, vars
    <3>3. CASE ServeClear(u)
      BY <3>3 DEF ServeClear, ClearSecret, pageVars, VisitsAwaited
    <3>4. CASE ServeAnswer(u)
      BY <1>1, <3>4 DEF ServeAnswer, AnswerKey, VisitState
    <3>5. CASE ServeAbandoned(u)
      BY <1>1, <3>5 DEF ServeAbandoned, AbandonVisit, VisitState
    <3>6. QED  BY <1>3, <3>1, <3>2, <3>3, <3>4, <3>5
  <2>3. QED  BY <2>1, <2>2 DEF VisitsAwaited
<1>4. QED  BY <1>2, <1>3 DEF PageStep

-----------------------------------------------------------------------------
(* Every step is one of Billing, or none. *)
LEMMA StepIsBilling == PagesInv /\ [CustomersNext]_allVars => [Next]_vars
<1> SUFFICES ASSUME PagesInv, [CustomersNext]_allVars PROVE [Next]_vars
  OBVIOUS
<1>1. CASE StripeStep
  BY <1>1 DEF StripeStep, Next
<1>2. CASE PageStep
  <2>1. ASSUME NEW p \in Pages, RunEffect(p) PROVE UNCHANGED vars
    BY <2>1 DEF RunEffect
  <2>2. ASSUME NEW v \in Visits, ServeRead(v) PROVE Next
    <3>1. fetch[v] \in Pages /\ page[fetch[v]].status = "loading"
      BY <2>2 DEF ServeRead, PagesInv, PageTypeOK
    <3>2. page[fetch[v]].session \in Sessions
      BY <3>1 DEF PagesInv
    <3>3. QED  BY <2>2, <3>2 DEF ServeRead, Next
  <2>3. ASSUME NEW v \in Visits, ServeNothing(v) PROVE UNCHANGED vars
    BY <2>3 DEF ServeNothing
  <2>4. ASSUME NEW v \in Visits, ServeClear(v) \/ ServeAnswer(v) \/ ServeAbandoned(v)
        PROVE  Next
    BY <2>4 DEF ServeClear, ServeAnswer, ServeAbandoned, Next
  <2>5. QED  BY <1>2, <2>1, <2>2, <2>3, <2>4 DEF PageStep
<1>3. CASE ApiStep
  BY <1>3 DEF ApiStep, Authorize, RateLimited, RefuseMonitor, FetchMonitor, DeleteMonitor,
    InsertMonitor, ServeLookup, ServeBulk, ServeExport, ServeUsage
<1>4. QED
  BY <1>1, <1>2, <1>3 DEF CustomersNext, OpenPage, StartPortalSession, AnswerPortal, allVars

-----------------------------------------------------------------------------
(* The calls.                                                              *)
Statuses == {0, 200, 201, 204, 400, 401, 403, 404, 429, 502}

(* A call comes in. *)
LEMMA CallComesIn ==
  ASSUME CallsInv, NEW new \in CallState, call' = Append(call, new), monitor' = monitor,
         new.pc # "deleting",
         new.op = "delete" =>
           /\ new.monitor \in Monitors /\ monitor[new.monitor].at # "unborn"
           /\ new.pc = "done" => new.status = 401,
         new.left =>
           /\ new.pc = "done"
           /\ new.op \in Operations => new.status \in {401, 403}
           /\ new.op = "portal_by_email" => new.status = 404
           /\ new.op = "portal_by_key" => new.status \in {200, 502}
  PROVE  CallsInv'
<1>0. PICK n \in Nat : n = Len(call)
  BY DEF CallsInv, ApiTypeOK
<1>1. call \in Seq(CallState) /\ DOMAIN call = 1 .. n
  BY <1>0 DEF CallsInv, ApiTypeOK
<1>2. /\ call' \in Seq(CallState) /\ DOMAIN call' = 1 .. n + 1 /\ call'[n + 1] = new
      /\ \A c \in 1 .. n : call'[c] = call[c]
  BY <1>0, <1>1
<1>3. ASSUME NEW c \in 1 .. n
      PROVE  (call[c].pc = "deleting" => call[c].op = "delete")' /\ Deletion(c)' /\ Refused(c)'
  BY <1>1, <1>2, <1>3 DEF CallsInv, Deletion, Refused
<1>4. /\ (call[n + 1].pc = "deleting" => call[n + 1].op = "delete")'
      /\ Deletion(n + 1)' /\ Refused(n + 1)'
  BY <1>2 DEF Deletion, Refused
<1>5. ASSUME NEW c \in 1 .. n + 1 PROVE c = n + 1 \/ c \in 1 .. n
  BY <1>1
<1>6. QED  BY <1>2, <1>3, <1>4, <1>5 DEF CallsInv, ApiTypeOK

(* The key of whoever has left is not found. *)
LEMMA LeaverHasNoContext ==
  ASSUME CustomersInv, NEW owner \in Owners, HasLeft(owner)
  PROVE  owner # Licensed /\ ~HasContext(owner)
<1>1. AccessFollowsSubscription
  BY OrderlyFollows DEF CustomersInv
<1>2. owner \in Sessions /\ owner # Licensed /\ key[owner].active = FALSE
  BY <1>1, LicensedAssumption DEF HasLeft, AccessFollowsSubscription
<1>3. QED  BY <1>2 DEF HasContext

(* Nor is one of whoever never paid. *)
LEMMA StrangerHasNoContext ==
  ASSUME CustomersInv, NEW owner \in Owners \ {Licensed}, log[owner] = <<>>
  PROVE  ~HasContext(owner)
<1>1. owner \in Sessions /\ Orderly(owner) /\ Len(log[owner]) = 0
  BY DEF Owners, CustomersInv, AllOrderly
<1>2. inOrder[owner]
  BY <1>1 DEF Orderly, LogTellsStatus
<1>3. HandledUpTo(owner, 0)
  BY <1>1, <1>2 DEF Orderly
<1>4. key[owner] = NoKey
  BY <1>1, <1>3 DEF HandledUpTo, After, IsAfter
<1>5. QED  BY <1>4 DEF HasContext, NoKey

LEMMA AuthorizeKeeps ==
  ASSUME CustomersInv, NEW op \in Operations, NEW owner \in Owners,
         NEW m \in Monitors \cup {None}, Authorize(op, owner, m)
  PROVE  CallsInv'
<1> DEFINE may == Authorized(op, owner)
           new == [pc |-> IF may THEN "authorized" ELSE "done",
                   op |-> op, owner |-> owner, monitor |-> m, left |-> HasLeft(owner),
                   status |-> IF may THEN 0 ELSE Refusal(op)]
<1>1. call' = Append(call, new) /\ monitor' = monitor
  BY DEF Authorize
<1>2. HasLeft(owner) \in BOOLEAN /\ Refusal(op) \in {401, 403}
      /\ (op = "delete" => Refusal(op) = 401)
  BY DEF HasLeft, Refusal
<1>3. op = "delete" => m \in Monitors /\ monitor[m].at # "unborn"
  BY DEF Authorize, CustomersInv, CallsInv, ApiTypeOK
<1>4. HasLeft(owner) => ~may
  BY LeaverHasNoContext DEF Authorized
<1> HIDE DEF may
<1>5. new \in CallState
  BY <1>2 DEF CallState
<1>6. op \notin Portals
  BY DEF Operations, Portals
<1>7. QED
  BY <1>1, <1>2, <1>3, <1>4, <1>5, <1>6, CallComesIn DEF CustomersInv, Portals

(* What the portal answers, and to whom. *)
PortalAnswered(op, owner, left, status) ==
  /\ call' = Append(call, [pc |-> "done", op |-> op, owner |-> owner, monitor |-> None,
                           left |-> left, status |-> status])
  /\ left /\ op = "portal_by_email" => status = 404
  /\ left /\ op = "portal_by_key" => status \in {200, 502}

LEMMA PortalTells ==
  ASSUME CustomersInv, NEW op \in Portals, NEW owner \in Owners,
         StartPortalSession(op, owner)
  PROVE  /\ Inputs < MaxInputs /\ Len(call) < MaxCalls
         /\ UNCHANGED <<vars, pageVars, monitor>>
         /\ \E left \in BOOLEAN, status \in {200, 404, 502} :
              PortalAnswered(op, owner, left, status)
<1>1. /\ HasLeft(owner) \in BOOLEAN /\ EmailHasLeft(owner) \in BOOLEAN
      /\ PortalAnswers(FoundByEmail(owner)) \subseteq {200, 404, 502}
      /\ PortalAnswers(FoundByKey(owner)) \subseteq {200, 404, 502}
  BY DEF HasLeft, EmailHasLeft, PortalAnswers, CreatePortalSession
<1>2. CASE /\ op = "portal_by_email"
           /\ AnswerPortal(op, owner, FoundByEmail(owner), EmailHasLeft(owner))
  <2>1. ASSUME EmailHasLeft(owner) PROVE PortalAnswers(FoundByEmail(owner)) \subseteq {404}
    <3>1. ASSUME NEW o \in FoundByEmail(owner), o # Licensed PROVE FALSE
      <4>1. /\ o \in Owners \ {Licensed} /\ HasContext(o)
            /\ HasLeft(o) \/ log[o] = <<>>
        BY <2>1, <3>1 DEF FoundByEmail, SameEmail, EmailHasLeft
      <4>2. QED  BY <4>1, LeaverHasNoContext, StrangerHasNoContext
    <3>2. QED  BY <3>1 DEF PortalAnswers, CreatePortalSession
  <2>2. PICK status \in PortalAnswers(FoundByEmail(owner)) :
          call' = Append(call, [pc |-> "done", op |-> op, owner |-> owner, monitor |-> None,
                                left |-> EmailHasLeft(owner), status |-> status])
    BY <1>2 DEF AnswerPortal
  <2>3. EmailHasLeft(owner) => status = 404
    BY <2>1, <2>2
  <2>4. Inputs < MaxInputs /\ Len(call) < MaxCalls /\ UNCHANGED <<vars, pageVars, monitor>>
    BY <1>2 DEF AnswerPortal
  <2>5. PortalAnswered(op, owner, EmailHasLeft(owner), status)
    BY <1>2, <2>2, <2>3 DEF PortalAnswered
  <2>6. QED  BY <1>1, <2>2, <2>4, <2>5
<1>3. CASE /\ op = "portal_by_key" /\ FoundByKey(owner) # {}
           /\ AnswerPortal(op, owner, FoundByKey(owner), HasLeft(owner))
  <2>1. FoundByKey(owner) = {owner}
    BY <1>3 DEF FoundByKey
  <2>2. ASSUME HasLeft(owner) PROVE PortalAnswers(FoundByKey(owner)) \subseteq {200, 502}
    BY <2>1, <2>2, LeaverHasNoContext DEF PortalAnswers, CreatePortalSession
  <2>3. PICK status \in PortalAnswers(FoundByKey(owner)) :
          call' = Append(call, [pc |-> "done", op |-> op, owner |-> owner, monitor |-> None,
                                left |-> HasLeft(owner), status |-> status])
    BY <1>3 DEF AnswerPortal
  <2>4. HasLeft(owner) => status \in {200, 502}
    BY <2>2, <2>3
  <2>5. Inputs < MaxInputs /\ Len(call) < MaxCalls /\ UNCHANGED <<vars, pageVars, monitor>>
    BY <1>3 DEF AnswerPortal
  <2>6. PortalAnswered(op, owner, HasLeft(owner), status)
    BY <1>3, <2>3, <2>4 DEF PortalAnswered
  <2>7. QED  BY <1>1, <2>3, <2>5, <2>6
<1>4. QED  BY <1>2, <1>3 DEF StartPortalSession

LEMMA PortalKeeps ==
  ASSUME CustomersInv, NEW op \in Portals, NEW owner \in Owners,
         StartPortalSession(op, owner)
  PROVE  CallsInv'
<1>0. PICK left \in BOOLEAN, status \in {200, 404, 502} :
        PortalAnswered(op, owner, left, status)
  BY PortalTells
<1>1. /\ call' = Append(call, [pc |-> "done", op |-> op, owner |-> owner,
                               monitor |-> None, left |-> left, status |-> status])
      /\ left /\ op = "portal_by_email" => status = 404
      /\ left /\ op = "portal_by_key" => status \in {200, 502}
  BY <1>0 DEF PortalAnswered
<1>2. monitor' = monitor
  BY PortalTells
<1> DEFINE new == [pc |-> "done", op |-> op, owner |-> owner, monitor |-> None,
                   left |-> left, status |-> status]
<1>3. new \in CallState
  BY <1>1 DEF CallState
<1>4. op \notin Operations /\ op # "delete"
  BY DEF Operations, Portals
<1>5. QED  BY <1>1, <1>2, <1>3, <1>4, CallComesIn DEF CustomersInv

Moved(c, pc, status) ==
  [pc |-> pc, op |-> call[c].op, owner |-> call[c].owner, monitor |-> call[c].monitor,
   left |-> call[c].left, status |-> status]

(* Rows are made and deleted, never given to another owner or revived.     *)
RowsKept ==
  /\ monitor' \in [Monitors -> MonitorRow]
  /\ \A m \in Monitors :
       /\ monitor'[m].at = "unborn" => monitor'[m] = Unborn
       /\ monitor[m].at # "unborn" =>
            monitor'[m].at # "unborn" /\ monitor'[m].owner = monitor[m].owner
       /\ monitor[m].at = "deleted" => monitor'[m].at = "deleted"

LEMMA SameRowsKept == ASSUME ApiTypeOK, monitor' = monitor PROVE RowsKept
BY DEF ApiTypeOK, RowsKept

(* A call goes on, or is answered. *)
LEMMA CallMoves ==
  ASSUME CallsInv, RowsKept, NEW c \in DOMAIN call, call[c].pc # "done",
         NEW pc \in {"deleting", "done"}, NEW status \in Statuses,
         call' = [call EXCEPT ![c] = Moved(c, pc, status)],
         pc = "deleting" => call[c].op = "delete",
         call[c].op = "delete" =>
           LET row == monitor'[call[c].monitor]
           IN /\ pc = "deleting" => call[c].owner = row.owner
              /\ pc = "done" =>
                   /\ call[c].owner = row.owner /\ status \in {204, 404} => row.at = "deleted"
                   /\ call[c].owner # row.owner => status \in {401, 404}
  PROVE  CallsInv'
<1> DEFINE moved == Moved(c, pc, status)
<1>1. /\ call \in Seq(CallState) /\ call[c] \in CallState
      /\ DOMAIN call = 1 .. Len(call) /\ Len(call) \in Nat
  BY DEF CallsInv, ApiTypeOK
<1>2. /\ moved \in CallState /\ moved.pc = pc /\ moved.status = status
      /\ moved.op = call[c].op /\ moved.owner = call[c].owner
      /\ moved.monitor = call[c].monitor /\ ~moved.left
  BY <1>1 DEF CallState, Statuses, Moved, CallsInv, Refused
<1> HIDE DEF moved
<1>3. /\ call' \in Seq(CallState) /\ Len(call') = Len(call)
      /\ \A d \in 1 .. Len(call) : call'[d] = IF d = c THEN moved ELSE call[d]
  <2>1. call' = [call EXCEPT ![c] = moved] /\ c \in 1 .. Len(call)
    BY <1>1 DEF moved
  <2> HIDE DEF moved
  <2>2. QED  BY <1>1, <1>2, <2>1, ExceptSeq
<1>4. DOMAIN call' = DOMAIN call
  BY <1>1, <1>3
<1>5. ApiTypeOK'
  BY <1>3 DEF ApiTypeOK, RowsKept
<1>6. ASSUME NEW d \in DOMAIN call
      PROVE  (call[d].pc = "deleting" => call[d].op = "delete")' /\ Deletion(d)' /\ Refused(d)'
  <2>1. CASE d = c
    <3>1. call'[d] = moved
      BY <1>1, <1>3, <2>1
    <3>2. call[c].op = "delete" =>
            call[c].monitor \in Monitors /\ monitor'[call[c].monitor].at # "unborn"
      BY DEF CallsInv, Deletion, RowsKept
    <3>3. QED  BY <1>2, <2>1, <3>1, <3>2 DEF Deletion, Refused
  <2>2. CASE d # c
    <3>1. call'[d] = call[d]
      BY <1>1, <1>3, <2>2
    <3>2. QED  BY <3>1 DEF CallsInv, Deletion, Refused, RowsKept
  <2>3. QED  BY <2>1, <2>2
<1>7. QED  BY <1>4, <1>5, <1>6 DEF CallsInv

LEMMA AnswerMoves ==
  ASSUME ApiTypeOK, NEW c \in DOMAIN call, NEW status, Answer(c, status)
  PROVE  call' = [call EXCEPT ![c] = Moved(c, "done", status)]
<1> DEFINE finished == [call[c] EXCEPT !.pc = "done"]
           answered == [finished EXCEPT !.status = status]
<1>1. call[c] \in CallState
  BY DEF ApiTypeOK
<1>2. call' = [call EXCEPT ![c] = answered]
  BY DEF Answer
<1>3. finished = Moved(c, "done", call[c].status)
  BY <1>1 DEF CallState, Moved
<1> HIDE DEF finished
<1>4. answered = Moved(c, "done", status)
  BY <1>3 DEF Moved
<1>5. QED  BY <1>2, <1>4

(* An answer that touches no row, to a call that deletes nothing.          *)
LEMMA AnsweredKeeps ==
  ASSUME CallsInv, NEW c \in DOMAIN call, Serving(c, Operations \ {"delete"}),
         NEW status \in Statuses, Answer(c, status), RowsKept
  PROVE  CallsInv'
<1>1. call' = [call EXCEPT ![c] = Moved(c, "done", status)]
  BY AnswerMoves DEF CallsInv
<1>2. call[c].pc # "done" /\ call[c].op # "delete"
  BY DEF Serving
<1>3. QED  BY <1>1, <1>2, CallMoves

LEMMA InsertKeeps ==
  ASSUME CallsInv, NEW c \in DOMAIN call, NEW m \in Monitors, InsertMonitor(c, m)
  PROVE  CallsInv'
<1> DEFINE row == [at |-> "live", owner |-> call[c].owner]
<1>1. call[c] \in CallState /\ monitor \in [Monitors -> MonitorRow]
  BY DEF CallsInv, ApiTypeOK
<1>2. row \in MonitorRow /\ row.at = "live"
  BY <1>1 DEF CallState, MonitorRow
<1> HIDE DEF row
<1>3. monitor' = [monitor EXCEPT ![m] = row] /\ monitor[m].at = "unborn"
  BY DEF InsertMonitor, Unborn, row
<1>4. RowsKept
  BY <1>1, <1>2, <1>3 DEF RowsKept, CallsInv, ApiTypeOK
<1>5. Serving(c, Operations \ {"delete"}) /\ Answer(c, 201)
  BY DEF InsertMonitor, Serving, Operations
<1>6. QED  BY <1>4, <1>5, AnsweredKeeps DEF Statuses

LEMMA FetchKeeps ==
  ASSUME CallsInv, NEW c \in DOMAIN call, FetchMonitor(c)
  PROVE  CallsInv'
<1>0. call[c] \in CallState
  BY DEF CallsInv, ApiTypeOK
<1>1. /\ call[c].pc = "authorized" /\ call[c].op = "delete"
      /\ RowsKept /\ monitor' = monitor
  BY SameRowsKept DEF FetchMonitor, Serving, CallsInv
<1>2. call[c].monitor \in Monitors /\ monitor[call[c].monitor].at # "unborn"
  BY <1>1 DEF CallsInv, Deletion
<1>3. CASE FindsOwn(c)
  <2>1. call' = [call EXCEPT ![c] = [call[c] EXCEPT !.pc = "deleting"]]
    BY <1>3 DEF FetchMonitor
  <2>2. [call[c] EXCEPT !.pc = "deleting"] = Moved(c, "deleting", call[c].status)
    BY <1>0 DEF CallState, Moved
  <2>3. call' = [call EXCEPT ![c] = Moved(c, "deleting", call[c].status)]
    BY <2>1, <2>2
  <2>4. call[c].status \in Statuses
    BY <1>0 DEF CallState, Statuses
  <2>5. QED  BY <1>1, <1>3, <2>3, <2>4, CallMoves DEF FindsOwn
<1>4. CASE ~FindsOwn(c)
  <2>1. call' = [call EXCEPT ![c] = Moved(c, "done", 404)]
    BY <1>4, AnswerMoves DEF FetchMonitor, CallsInv
  <2>2. monitor[call[c].monitor].at \in {"unborn", "live", "deleted"}
    BY <1>2 DEF CallsInv, ApiTypeOK, MonitorRow
  <2>3. call[c].owner = monitor[call[c].monitor].owner => monitor[call[c].monitor].at = "deleted"
    BY <1>2, <1>4, <2>2 DEF FindsOwn
  <2>4. 404 \in Statuses /\ call[c].pc # "done"
    BY <1>1 DEF Statuses
  <2>5. LET row == monitor'[call[c].monitor]
        IN  /\ call[c].owner = row.owner /\ 404 \in {204, 404} => row.at = "deleted"
            /\ call[c].owner # row.owner => 404 \in {401, 404}
    BY <1>1, <2>3
  <2>6. QED  BY <1>1, <2>1, <2>4, <2>5, CallMoves
<1>5. QED  BY <1>3, <1>4

LEMMA DeleteKeeps ==
  ASSUME CallsInv, NEW c \in DOMAIN call, DeleteMonitor(c)
  PROVE  CallsInv'
<1> DEFINE m == call[c].monitor
           row == [monitor[m] EXCEPT !.at = "deleted"]
<1>1. call[c].pc = "deleting" /\ call[c].op = "delete"
  BY DEF DeleteMonitor, CallsInv
<1>2. m \in Monitors /\ monitor[m].at # "unborn" /\ call[c].owner = monitor[m].owner
  BY <1>1 DEF CallsInv, Deletion
<1>3. monitor \in [Monitors -> MonitorRow] /\ monitor' = [monitor EXCEPT ![m] = row]
  BY DEF CallsInv, ApiTypeOK, DeleteMonitor
<1>4. row \in MonitorRow /\ row.at = "deleted" /\ row.owner = monitor[m].owner
  BY <1>2, <1>3 DEF MonitorRow
<1> HIDE DEF row
<1>5. RowsKept
  BY <1>2, <1>3, <1>4 DEF RowsKept, CallsInv, ApiTypeOK
<1>6. call' = [call EXCEPT ![c] = Moved(c, "done", 204)]
  BY AnswerMoves DEF DeleteMonitor, CallsInv
<1>7. monitor'[m] = row
  BY <1>2, <1>3
<1>8. 204 \in Statuses /\ call[c].pc # "done"
  BY <1>1 DEF Statuses
<1>9. LET new == monitor'[call[c].monitor]
      IN  /\ call[c].owner = new.owner /\ 204 \in {204, 404} => new.at = "deleted"
          /\ call[c].owner # new.owner => 204 \in {401, 404}
  BY <1>2, <1>4, <1>7
<1>10. QED  BY <1>1, <1>5, <1>6, <1>8, <1>9, CallMoves

LEMMA ApiStepKeeps ==
  ASSUME CustomersInv, ApiStep
  PROVE  CallsInv'
<1>1. ASSUME NEW op \in Operations, NEW owner \in Owners, NEW m \in Monitors \cup {None},
             Authorize(op, owner, m)
      PROVE  CallsInv'
  BY <1>1, AuthorizeKeeps
<1>2. ASSUME NEW c \in DOMAIN call,
             \/ RateLimited(c) \/ RefuseMonitor(c) \/ ServeLookup(c) \/ ServeBulk(c)
             \/ ServeExport(c) \/ ServeUsage(c)
      PROVE  CallsInv'
  <2>1. Serving(c, Operations \ {"delete"})
    BY <1>2 DEF RateLimited, RefuseMonitor, ServeLookup, ServeBulk, ServeExport,
      ServeUsage, Serving,
      Limited, Operations
  <2>2. RowsKept
    BY <1>2, SameRowsKept DEF RateLimited, RefuseMonitor, ServeLookup, ServeBulk,
      ServeExport, ServeUsage, CustomersInv, CallsInv
  <2>3. \E status \in Statuses : Answer(c, status)
    BY <1>2 DEF RateLimited, RefuseMonitor, ServeLookup, ServeBulk, ServeExport,
      ServeUsage, Refusal, Statuses
  <2>4. QED  BY <2>1, <2>2, <2>3, AnsweredKeeps DEF CustomersInv
<1>3. ASSUME NEW c \in DOMAIN call,
             FetchMonitor(c) \/ DeleteMonitor(c) \/ \E m \in Monitors : InsertMonitor(c, m)
      PROVE  CallsInv'
  BY <1>3, FetchKeeps, DeleteKeeps, InsertKeeps DEF CustomersInv
<1>4. QED  BY <1>1, <1>2, <1>3 DEF ApiStep

-----------------------------------------------------------------------------
(* All of it together. *)
LEMMA InitInv == CustomersInit => CustomersInv
<1> SUFFICES ASSUME CustomersInit PROVE CustomersInv
  OBVIOUS
<1>1. AllOrderly
  BY InitOrderly DEF CustomersInit
<1>2. PagesInv
  BY DEF CustomersInit, PageInit, PagesInv, PageTypeOK, PageState
<1>3. VisitsAwaited
  BY DEF CustomersInit, Init, VisitsAwaited
<1>4. CallsInv
  <2>1. monitor \in [Monitors -> MonitorRow]
    BY DEF CustomersInit, MonitorRow, Unborn, Owners
  <2>2. \A m \in Monitors : monitor[m].at = "unborn" => monitor[m] = Unborn
    BY DEF CustomersInit, Unborn
  <2>3. call = <<>>
    BY DEF CustomersInit
  <2>4. call \in Seq(CallState) /\ DOMAIN call = {}
    BY <2>3
  <2>5. QED  BY <2>1, <2>2, <2>4 DEF CallsInv, ApiTypeOK
<1>5. QED  BY <1>1, <1>2, <1>3, <1>4 DEF CustomersInv

LEMMA NextInv == CustomersInv /\ [CustomersNext]_allVars => CustomersInv'
<1> SUFFICES ASSUME CustomersInv, [CustomersNext]_allVars PROVE CustomersInv'
  OBVIOUS
<1>1. AllOrderly'
  BY StepIsBilling, NextAllOrderly DEF CustomersInv
<1>2. CASE PageStep /\ UNCHANGED apiVars
  <2>1. PagesInv' /\ VisitsAwaited'
    BY <1>2, PageStepKeeps, PageStepAwaits DEF CustomersInv, AllOrderly, IInv
  <2>2. CallsInv'
    BY <1>2 DEF CustomersInv, CallsInv, ApiTypeOK, Deletion, Refused, apiVars
  <2>3. QED  BY <1>1, <2>1, <2>2 DEF CustomersInv
<1>3. CASE \E s \in Sessions : OpenPage(s) /\ UNCHANGED apiVars
  <2>1. PagesInv'
    BY <1>3, OpenKeeps DEF CustomersInv
  <2>2. VisitsAwaited'
    BY <1>3 DEF CustomersInv, VisitsAwaited, OpenPage, vars
  <2>3. CallsInv'
    BY <1>3 DEF CustomersInv, CallsInv, ApiTypeOK, Deletion, Refused, apiVars
  <2>4. QED  BY <1>1, <2>1, <2>2, <2>3 DEF CustomersInv
<1>4. CASE UNCHANGED <<pageVars, apiVars, visit>>
  <2>1. PagesInv' /\ VisitsAwaited'
    BY <1>4 DEF CustomersInv, PagesInv, PageTypeOK, VisitsAwaited, pageVars
  <2>2. CallsInv'
    BY <1>4 DEF CustomersInv, CallsInv, ApiTypeOK, Deletion, Refused, apiVars
  <2>3. QED  BY <1>1, <2>1, <2>2 DEF CustomersInv
<1>5. CASE \/ ApiStep
           \/ \E op \in Portals, owner \in Owners : StartPortalSession(op, owner)
  <2>1. UNCHANGED <<vars, pageVars>>
    BY <1>5 DEF ApiStep, StartPortalSession, AnswerPortal, Authorize, RateLimited,
      RefuseMonitor, FetchMonitor, DeleteMonitor, InsertMonitor, ServeLookup, ServeBulk,
      ServeExport, ServeUsage
  <2>2. PagesInv' /\ VisitsAwaited'
    BY <2>1 DEF CustomersInv, PagesInv, PageTypeOK, VisitsAwaited, pageVars, vars
  <2>3. CallsInv'
    BY <1>5, ApiStepKeeps, PortalKeeps
  <2>4. QED  BY <1>1, <2>2, <2>3 DEF CustomersInv
<1>6. CASE StripeStep
  <2>1. UNCHANGED <<pageVars, apiVars, visit>>
    BY <1>6 DEF StripeStep, CompleteCheckout, ChangeStatus, CancelSubscription, Emit, Handle,
      HandleUnanswered
  <2>2. QED  BY <1>4, <2>1
<1>7. CASE UNCHANGED allVars
  BY <1>4, <1>7 DEF allVars, vars
<1>8. QED  BY <1>2, <1>3, <1>5, <1>6, <1>7 DEF CustomersNext

LEMMA CustomersInvariance == CustomersSpec => []CustomersInv
BY InitInv, NextInv, PTL DEF CustomersSpec

-----------------------------------------------------------------------------
(* Types: what the bounds count only ever grows, one at a time, under them. *)
Emitted == {e \in Sessions \X (1 .. MaxEvents) : e[2] <= Len(log[e[1]])}

Opened == {p \in Pages : page[p].status # "unopened"}

(* A row has an owner from the time it is made, a call a status from the   *)
(* time it is answered.                                                    *)
RowsOwned == \A m \in Monitors : monitor[m].owner = None => monitor[m] = Unborn

CallsAnswered == \A c \in DOMAIN call : call[c].pc = "done" <=> call[c].status # 0

CountsInv ==
  /\ IsFiniteSet(Emitted) /\ IsFiniteSet(Opened)
  /\ Inputs <= MaxInputs /\ Len(call) <= MaxCalls

TypesInv == CustomersInv /\ RowsOwned /\ CallsAnswered /\ CountsInv

LEMMA InputsCount ==
  ASSUME CountsInv, ApiTypeOK
  PROVE  /\ Cardinality(Emitted) \in Nat /\ Cardinality(Opened) \in Nat /\ Len(call) \in Nat
         /\ Inputs = Cardinality(Emitted) + Cardinality(Opened) + Len(call)
<1>1. Cardinality(Emitted) \in Nat /\ Cardinality(Opened) \in Nat
  BY FS_CardinalityType DEF CountsInv
<1>2. Len(call) \in Nat
  BY DEF ApiTypeOK
<1>3. QED  BY <1>1, <1>2 DEF Inputs, Emitted, Opened

LEMMA InitTypes == CustomersInit => TypesInv
<1> SUFFICES ASSUME CustomersInit PROVE TypesInv
  OBVIOUS
<1>1. CustomersInv
  BY InitInv
<1>2. RowsOwned
  BY LicensedAssumption DEF CustomersInit, RowsOwned, Unborn
<1>3. call = <<>> /\ Len(call) = 0 /\ DOMAIN call = {}
  BY DEF CustomersInit
<1>4. Emitted = {}
  <2>1. \A s \in Sessions : Len(log[s]) = 0
    BY DEF CustomersInit, Init
  <2>2. QED  BY <2>1 DEF Emitted
<1>5. Opened = {}
  BY DEF CustomersInit, PageInit, Opened
<1>6. /\ IsFiniteSet(Emitted) /\ Cardinality(Emitted) = 0
      /\ IsFiniteSet(Opened) /\ Cardinality(Opened) = 0
  BY <1>4, <1>5, FS_EmptySet
<1>7. CountsInv
  <2>1. Inputs = Cardinality(Emitted) + Cardinality(Opened) + Len(call)
    BY DEF Inputs, Emitted, Opened
  <2>2. QED  BY <1>3, <1>6, <2>1, BoundsAssumption DEF CountsInv
<1>8. QED  BY <1>1, <1>2, <1>3, <1>7 DEF TypesInv, CallsAnswered

(* What is neither emitted nor opened nor called counts nothing. *)
LEMMA NothingCounted ==
  ASSUME CountsInv, Emitted' = Emitted, Opened' = Opened, Len(call') = Len(call)
  PROVE  CountsInv'
<1>1. Inputs' = Inputs
  BY DEF Inputs, Emitted, Opened
<1>2. QED  BY <1>1 DEF CountsInv

LEMMA EmitCounts ==
  ASSUME TypeOK, ApiTypeOK, CountsInv, Inputs < MaxInputs, NEW s \in Sessions,
         NEW type, NEW status, Emit(s, type, status), UNCHANGED <<pageVars, apiVars>>
  PROVE  CountsInv'
<1> DEFINE n == Len(log[s])
           new == <<s, n + 1>>
<1>1. /\ n \in Nat /\ n < MaxEvents /\ MaxEvents \in Nat
      /\ \A t \in Sessions : Len(log[t]) \in Nat
  BY MaxEventsAssumption DEF TypeOK, Emit
<1>2. \A t \in Sessions : Len(log'[t]) = IF t = s THEN n + 1 ELSE Len(log[t])
  BY DEF TypeOK, Emit
<1>3. new \in Sessions \X (1 .. MaxEvents) /\ new[1] = s /\ new[2] = n + 1
  BY <1>1
<1>4. new \notin Emitted
  BY <1>1, <1>3 DEF Emitted
<1>5. Emitted' = Emitted \cup {new}
  <2>1. ASSUME NEW e \in Sessions \X (1 .. MaxEvents)
        PROVE  e[2] <= Len(log'[e[1]]) <=> e[2] <= Len(log[e[1]]) \/ e = new
    <3>1. e = <<e[1], e[2]>> /\ e[1] \in Sessions /\ e[2] \in Nat
      OBVIOUS
    <3>2. CASE e[1] = s
      BY <1>1, <1>2, <3>1, <3>2
    <3>3. CASE e[1] # s
      <4>1. Len(log'[e[1]]) = Len(log[e[1]]) /\ e # new
        BY <1>2, <1>3, <3>1, <3>3
      <4>2. QED  BY <4>1
    <3>4. QED  BY <3>2, <3>3
  <2> HIDE DEF new
  <2>2. QED  BY <1>3, <2>1 DEF Emitted
<1>6. Opened' = Opened /\ call' = call
  BY DEF Opened, pageVars, apiVars
<1> HIDE DEF new
<1>7. IsFiniteSet(Emitted') /\ Cardinality(Emitted') = Cardinality(Emitted) + 1
  BY <1>4, <1>5, FS_AddElement DEF CountsInv
<1>8. Inputs' = Cardinality(Emitted') + Cardinality(Opened') + Len(call')
  BY DEF Inputs, Emitted, Opened
<1>9. QED  BY <1>6, <1>7, <1>8, InputsCount, BoundsAssumption DEF CountsInv

LEMMA OpenCounts ==
  ASSUME PageTypeOK, ApiTypeOK, CountsInv, Inputs < MaxInputs, NEW s \in Sessions, OpenPage(s),
         UNCHANGED apiVars
  PROVE  CountsInv'
<1> DEFINE new == {p \in Pages : page[p].status = "unopened"}
           q == CHOOSE p \in new : TRUE
           opened == [status |-> "loading", session |-> s, ref |-> FALSE, runs |-> 2]
<1>1. /\ new # {} /\ page' = [page EXCEPT ![q] = opened]
      /\ Emitted' = Emitted /\ call' = call
  BY DEF OpenPage, Emitted, vars, apiVars
<1>2. q \in Pages /\ page[q].status = "unopened" /\ opened.status = "loading"
  BY <1>1
<1> HIDE DEF new, q, opened
<1>3. \A p \in Pages : page'[p] = IF p = q THEN opened ELSE page[p]
  BY <1>1 DEF PageTypeOK
<1>4. q \notin Opened /\ Opened' = Opened \cup {q}
  BY <1>2, <1>3 DEF Opened
<1>5. IsFiniteSet(Opened') /\ Cardinality(Opened') = Cardinality(Opened) + 1
  BY <1>4, FS_AddElement DEF CountsInv
<1>6. Inputs' = Cardinality(Emitted') + Cardinality(Opened') + Len(call')
  BY DEF Inputs, Emitted, Opened
<1>7. QED  BY <1>1, <1>5, <1>6, InputsCount, BoundsAssumption DEF CountsInv

LEMMA CallCounts ==
  ASSUME ApiTypeOK, CountsInv, Inputs < MaxInputs, Len(call) < MaxCalls,
         UNCHANGED <<vars, pageVars>>, NEW new, call' = Append(call, new)
  PROVE  CountsInv'
<1>1. Len(call') = Len(call) + 1
  BY DEF ApiTypeOK
<1>2. Emitted' = Emitted /\ Opened' = Opened
  BY DEF Emitted, Opened, vars, pageVars
<1>3. Inputs' = Cardinality(Emitted') + Cardinality(Opened') + Len(call')
  BY DEF Inputs, Emitted, Opened
<1>4. QED  BY <1>1, <1>2, <1>3, InputsCount, BoundsAssumption DEF CountsInv

(* A page that is open stays open, and what shows on it opens no other.    *)
LEMMA OpenedKept ==
  ASSUME PagesInv, VisitsAwaited, PageStep
  PROVE  Opened' = Opened
<1>1. SUFFICES \A p \in Pages : page'[p].status = "unopened" <=> page[p].status = "unopened"
  BY DEF Opened
<1>2. ASSUME NEW q \in Pages, RunEffect(q), NEW p \in Pages
      PROVE  page'[p].status = page[p].status
  <2> DEFINE counted == [page EXCEPT ![q].runs = @ - 1]
  <2>1. page \in [Pages -> PageState] /\ page[p] \in PageState /\ page[q] \in PageState
    BY DEF PagesInv, PageTypeOK
  <2>2. page' = [counted EXCEPT ![q].ref = TRUE]
    BY <1>2 DEF RunEffect
  <2>3. /\ DOMAIN counted = Pages
        /\ counted[p] = IF p = q THEN [page[p] EXCEPT !.runs = @ - 1] ELSE page[p]
    BY <2>1
  <2>4. counted[p].status = page[p].status /\ "status" \in DOMAIN counted[p]
    BY <2>1, <2>3 DEF PageState
  <2> HIDE DEF counted
  <2>5. page'[p] = IF p = q THEN [counted[p] EXCEPT !.ref = TRUE] ELSE counted[p]
    BY <2>2, <2>3
  <2>6. QED  BY <2>4, <2>5
<1>3. ASSUME NEW u \in Visits, fetch[u] # None, NEW status \in {"error", "key", "gone"},
             Receive(u, status), NEW p \in Pages
      PROVE  page'[p].status = "unopened" <=> page[p].status = "unopened"
  <2>1. /\ fetch[u] \in Pages /\ page[fetch[u]].status = "loading"
        /\ page' = [page EXCEPT ![fetch[u]].status = status]
    BY <1>3 DEF PagesInv, PageTypeOK, Receive
  <2>2. page \in [Pages -> PageState] /\ page[fetch[u]] \in PageState
    BY <2>1 DEF PagesInv, PageTypeOK
  <2>3. CASE p = fetch[u]
    BY <2>1, <2>2, <2>3 DEF PageState
  <2>4. CASE p # fetch[u]
    BY <2>1, <2>2, <2>4
  <2>5. QED  BY <2>3, <2>4
<1>4. CASE UNCHANGED pageVars
  BY <1>4 DEF pageVars
<1>5. ASSUME NEW v \in Visits, ServeRead(v) \/ ServeNothing(v) \/ ServeClear(v)
      PROVE  \A p \in Pages : page'[p].status = "unopened" <=> page[p].status = "unopened"
  BY <1>3, <1>4, <1>5 DEF ServeRead, ServeNothing, ServeClear
<1>6. ASSUME NEW v \in Visits, ServeAnswer(v) \/ ServeAbandoned(v)
      PROVE  \A p \in Pages : page'[p].status = "unopened" <=> page[p].status = "unopened"
  <2>1. fetch[v] # None
    BY <1>6 DEF VisitsAwaited, ServeAnswer, ServeAbandoned, AnswerKey, AbandonVisit
  <2>2. QED  BY <1>3, <1>6, <2>1 DEF ServeAnswer, ServeAbandoned
<1>7. QED  BY <1>2, <1>5, <1>6 DEF PageStep

-----------------------------------------------------------------------------
(* A call has a status when it has been answered, in every step.           *)
LEMMA ComesAnswered ==
  ASSUME ApiTypeOK, CallsAnswered, NEW new, call' = Append(call, new),
         new.pc = "done" <=> new.status # 0
  PROVE  CallsAnswered'
<1>0. PICK n \in Nat : n = Len(call)
  BY DEF ApiTypeOK
<1>1. /\ DOMAIN call = 1 .. n /\ DOMAIN call' = 1 .. n + 1 /\ call'[n + 1] = new
      /\ \A c \in 1 .. n : call'[c] = call[c]
  BY <1>0 DEF ApiTypeOK
<1>2. ASSUME NEW c \in 1 .. n + 1 PROVE c = n + 1 \/ c \in 1 .. n
  OBVIOUS
<1>3. QED  BY <1>1, <1>2 DEF CallsAnswered

LEMMA MovesAnswered ==
  ASSUME ApiTypeOK, CallsAnswered, NEW c \in DOMAIN call, NEW pc, NEW status,
         call' = [call EXCEPT ![c] = Moved(c, pc, status)],
         pc = "done" <=> status # 0
  PROVE  CallsAnswered' /\ Len(call') = Len(call)
<1>1. call \in Seq(CallState)
  BY DEF ApiTypeOK
<1>2. DOMAIN call' = DOMAIN call /\ Len(call') = Len(call)
  BY <1>1
<1>3. \A d \in DOMAIN call : call'[d] = IF d = c THEN Moved(c, pc, status) ELSE call[d]
  OBVIOUS
<1>4. QED  BY <1>2, <1>3 DEF CallsAnswered, Moved

LEMMA AnswersAnswered ==
  ASSUME ApiTypeOK, CallsAnswered, NEW c \in DOMAIN call, NEW status, status # 0,
         Answer(c, status)
  PROVE  CallsAnswered' /\ Len(call') = Len(call)
BY AnswerMoves, MovesAnswered

LEMMA ApiAnswers ==
  ASSUME ApiTypeOK, CallsAnswered, ApiStep,
         ~ \E op \in Operations, owner \in Owners, m \in Monitors \cup {None} :
             Authorize(op, owner, m)
  PROVE  CallsAnswered' /\ Len(call') = Len(call)
<1>1. PICK c \in DOMAIN call :
        \/ RateLimited(c) \/ RefuseMonitor(c) \/ FetchMonitor(c) \/ DeleteMonitor(c)
        \/ \E m \in Monitors : InsertMonitor(c, m)
        \/ ServeLookup(c) \/ ServeBulk(c) \/ ServeExport(c) \/ ServeUsage(c)
  BY DEF ApiStep
<1>2. CASE \E status \in {200, 201, 204, 400, 401, 404, 429} : Answer(c, status)
  BY <1>2, AnswersAnswered
<1>3. CASE FetchMonitor(c) /\ FindsOwn(c)
  <2>1. call[c] \in CallState /\ call[c].pc = "authorized"
    BY <1>3 DEF FetchMonitor, Serving, ApiTypeOK
  <2>2. call' = [call EXCEPT ![c] = [call[c] EXCEPT !.pc = "deleting"]]
    BY <1>3 DEF FetchMonitor
  <2>3. [call[c] EXCEPT !.pc = "deleting"] = Moved(c, "deleting", call[c].status)
    BY <2>1 DEF CallState, Moved
  <2>4. call[c].status = 0
    BY <2>1 DEF CallsAnswered
  <2>5. PICK pc, status : pc = "deleting" /\ status = 0
    OBVIOUS
  <2>6. call' = [call EXCEPT ![c] = Moved(c, pc, status)] /\ pc # "done"
    BY <2>2, <2>3, <2>4, <2>5
  <2>7. QED  BY <2>5, <2>6, MovesAnswered
<1>4. QED
  BY <1>1, <1>2, <1>3 DEF RateLimited, RefuseMonitor, FetchMonitor, DeleteMonitor,
    InsertMonitor, ServeLookup, ServeBulk, ServeExport, ServeUsage, Refusal

(* A row keeps its owner for good. *)
LEMMA ApiOwned ==
  ASSUME CallsInv, RowsOwned, ApiStep
  PROVE  RowsOwned'
<1>1. monitor \in [Monitors -> MonitorRow]
  BY DEF CallsInv, ApiTypeOK
<1>2. CASE monitor' = monitor
  BY <1>2 DEF RowsOwned
<1>3. ASSUME NEW c \in DOMAIN call, NEW m \in Monitors, InsertMonitor(c, m)
      PROVE  RowsOwned'
  <2>1. call[c].owner # None
    <3>1. call[c] \in CallState
      BY DEF CallsInv, ApiTypeOK
    <3>2. call[c].owner \in Owners
      BY <3>1 DEF CallState
    <3>3. QED  BY <3>2, LicensedAssumption, NoneAssumption DEF Owners
  <2>2. \A n \in Monitors : n # m => monitor'[n] = monitor[n]
    BY <1>1, <1>3 DEF InsertMonitor
  <2>3. monitor'[m].owner = call[c].owner
    BY <1>1, <1>3 DEF InsertMonitor
  <2>4. QED  BY <2>1, <2>2, <2>3 DEF RowsOwned
<1>4. ASSUME NEW c \in DOMAIN call, DeleteMonitor(c) PROVE RowsOwned'
  <2> DEFINE m == call[c].monitor
  <2>1. m \in Monitors /\ monitor[m].at # "unborn"
    BY <1>4 DEF DeleteMonitor, CallsInv, Deletion
  <2>2. monitor[m].owner # None
    BY <2>1 DEF RowsOwned, Unborn
  <2>3. \A n \in Monitors : n # m => monitor'[n] = monitor[n]
    BY <1>1, <1>4 DEF DeleteMonitor
  <2>4. monitor'[m].owner = monitor[m].owner
    BY <1>1, <1>4, <2>1 DEF DeleteMonitor, MonitorRow
  <2>5. QED  BY <2>2, <2>3, <2>4 DEF RowsOwned
<1>5. QED
  BY <1>2, <1>3, <1>4 DEF ApiStep, Authorize, RateLimited, RefuseMonitor, FetchMonitor,
    ServeLookup, ServeBulk, ServeExport, ServeUsage

LEMMA ComingCounts ==
  ASSUME TypesInv, NEW owner \in Owners,
         \/ \E op \in Operations, m \in Monitors \cup {None} : Authorize(op, owner, m)
         \/ \E op \in Portals : StartPortalSession(op, owner)
  PROVE  RowsOwned' /\ CallsAnswered' /\ CountsInv'
<1>1. ApiTypeOK /\ RowsOwned /\ CallsAnswered /\ CountsInv /\ CustomersInv
  BY DEF TypesInv, CustomersInv, CallsInv
<1>2. /\ Inputs < MaxInputs /\ Len(call) < MaxCalls
      /\ UNCHANGED <<vars, pageVars>> /\ monitor' = monitor
  BY <1>1, PortalTells DEF Authorize
<1>3. \E new : call' = Append(call, new) /\ (new.pc = "done" <=> new.status # 0)
  <2>1. ASSUME NEW op \in Operations, NEW m \in Monitors \cup {None}, Authorize(op, owner, m)
        PROVE  \E new : call' = Append(call, new) /\ (new.pc = "done" <=> new.status # 0)
    <3> DEFINE new == [pc |-> IF Authorized(op, owner) THEN "authorized" ELSE "done",
                       op |-> op, owner |-> owner, monitor |-> m, left |-> HasLeft(owner),
                       status |-> IF Authorized(op, owner) THEN 0 ELSE Refusal(op)]
    <3>1. call' = Append(call, new)
      BY <2>1 DEF Authorize
    <3>2. Refusal(op) # 0
      BY DEF Refusal
    <3>3. new.pc = "done" <=> new.status # 0
      BY <3>2
    <3>4. QED  BY <3>1, <3>3
  <2>2. ASSUME NEW op \in Portals, StartPortalSession(op, owner)
        PROVE  \E new : call' = Append(call, new) /\ (new.pc = "done" <=> new.status # 0)
    <3>1. PICK left \in BOOLEAN, status \in {200, 404, 502} :
            PortalAnswered(op, owner, left, status)
      BY <1>1, <2>2, PortalTells
    <3>2. QED  BY <3>1 DEF PortalAnswered
  <2>3. QED  BY <2>1, <2>2
<1>4. CountsInv'
  BY <1>1, <1>2, <1>3, CallCounts
<1>5. CallsAnswered'
  BY <1>1, <1>3, ComesAnswered
<1>6. RowsOwned'
  BY <1>1, <1>2 DEF RowsOwned
<1>7. QED  BY <1>4, <1>5, <1>6

LEMMA StripeCounts ==
  ASSUME TypesInv, StripeStep
  PROVE  CountsInv'
<1>1. TypeOK /\ ApiTypeOK /\ CountsInv
  BY DEF TypesInv, CustomersInv, AllOrderly, IInv, CallsInv
<1>2. UNCHANGED <<pageVars, apiVars>>
  BY DEF StripeStep
<1>3. ASSUME log' = log PROVE CountsInv'
  <2>1. Emitted' = Emitted /\ Opened' = Opened /\ call' = call
    BY <1>2, <1>3 DEF Emitted, Opened, pageVars, apiVars
  <2>2. QED  BY <1>1, <2>1, NothingCounted
<1>4. ASSUME NEW s \in Sessions, NEW type, NEW status, Inputs < MaxInputs,
             Emit(s, type, status)
      PROVE  CountsInv'
  BY <1>1, <1>2, <1>4, EmitCounts
<1>5. QED
  BY <1>3, <1>4 DEF StripeStep, CompleteCheckout, CancelSubscription, ChangeStatus, Handle,
    HandleUnanswered

LEMMA PageCounts ==
  ASSUME TypesInv, PageStep, UNCHANGED apiVars
  PROVE  CountsInv'
<1>1. PagesInv /\ VisitsAwaited /\ CountsInv
  BY DEF TypesInv, CustomersInv
<1>2. Opened' = Opened
  BY <1>1, OpenedKept
<1>3. log' = log
  BY DEF PageStep, RunEffect, ServeRead, ServeNothing, ServeClear, ServeAnswer,
    ServeAbandoned, ReadKey, ClearSecret, AnswerKey, AbandonVisit, vars
<1>4. Emitted' = Emitted /\ call' = call
  BY <1>3 DEF Emitted, apiVars
<1>5. QED  BY <1>1, <1>2, <1>4, NothingCounted

LEMMA ServingCounts ==
  ASSUME TypesInv, ApiStep,
         ~ \E op \in Operations, owner \in Owners, m \in Monitors \cup {None} :
             Authorize(op, owner, m)
  PROVE  RowsOwned' /\ CallsAnswered' /\ CountsInv'
<1>1. ApiTypeOK /\ CallsInv /\ RowsOwned /\ CallsAnswered /\ CountsInv
  BY DEF TypesInv, CustomersInv, CallsInv
<1>2. CallsAnswered' /\ Len(call') = Len(call)
  BY <1>1, ApiAnswers
<1>3. UNCHANGED <<vars, pageVars>>
  BY DEF ApiStep, RateLimited, RefuseMonitor, FetchMonitor, DeleteMonitor, InsertMonitor,
    ServeLookup, ServeBulk, ServeExport, ServeUsage
<1>4. Emitted' = Emitted /\ Opened' = Opened
  BY <1>3 DEF Emitted, Opened, vars, pageVars
<1>5. CountsInv'
  BY <1>1, <1>2, <1>4, NothingCounted
<1>6. QED  BY <1>1, <1>2, <1>5, ApiOwned

LEMMA NextTypes == TypesInv /\ [CustomersNext]_allVars => TypesInv'
<1> SUFFICES ASSUME TypesInv, [CustomersNext]_allVars PROVE TypesInv'
  OBVIOUS
<1>1. CustomersInv /\ RowsOwned /\ CallsAnswered /\ CountsInv
  BY DEF TypesInv
<1>2. CustomersInv'
  BY <1>1, NextInv
<1>3. UNCHANGED apiVars => RowsOwned' /\ CallsAnswered'
  BY <1>1 DEF RowsOwned, CallsAnswered, apiVars
<1>4. CASE StripeStep
  <2>1. UNCHANGED apiVars
    BY <1>4 DEF StripeStep
  <2>2. QED  BY <1>2, <1>3, <1>4, <2>1, StripeCounts DEF TypesInv
<1>5. CASE \E s \in Sessions : Inputs < MaxInputs /\ OpenPage(s) /\ UNCHANGED apiVars
  <2>1. PageTypeOK /\ ApiTypeOK
    BY <1>1 DEF CustomersInv, PagesInv, CallsInv
  <2>2. CountsInv'
    BY <1>1, <1>5, <2>1, OpenCounts
  <2>3. QED  BY <1>2, <1>3, <1>5, <2>2 DEF TypesInv
<1>6. CASE PageStep /\ UNCHANGED apiVars
  BY <1>2, <1>3, <1>6, PageCounts DEF TypesInv
<1>7. CASE ApiStep
  BY <1>2, <1>7, ComingCounts, ServingCounts DEF TypesInv
<1>8. CASE \E op \in Portals, owner \in Owners : StartPortalSession(op, owner)
  BY <1>2, <1>8, ComingCounts DEF TypesInv
<1>9. CASE UNCHANGED allVars
  <2>1. /\ UNCHANGED apiVars
        /\ Emitted' = Emitted /\ Opened' = Opened /\ call' = call
    BY <1>9 DEF allVars, vars, pageVars, apiVars, Emitted, Opened
  <2>2. CountsInv'
    BY <1>1, <2>1, NothingCounted
  <2>3. QED  BY <1>2, <1>3, <2>1, <2>2 DEF TypesInv
<1>10. QED  BY <1>4, <1>5, <1>6, <1>7, <1>8, <1>9 DEF CustomersNext

(* The rows, pages and calls keep their types, and what the bounds count   *)
(* stays within them: a call has a status just when it has been answered,  *)
(* a monitor an owner just when its row has been made.                     *)
THEOREM CustomersTypes == CustomersSpec => []CustomersTypeOK
<1>1. TypesInv => CustomersTypeOK
  <2> SUFFICES ASSUME TypesInv PROVE CustomersTypeOK
    OBVIOUS
  <2>1. TypeOK /\ PageTypeOK
    BY DEF TypesInv, CustomersInv, AllOrderly, IInv, PagesInv
  <2>2. monitor \in [Monitors -> MonitorRow] /\ call \in Seq(CallState)
    BY DEF TypesInv, CustomersInv, CallsInv, ApiTypeOK
  <2>3. \A m \in Monitors : monitor[m] = Unborn <=> monitor[m].owner = None
    BY DEF TypesInv, RowsOwned, Unborn
  <2>4. QED  BY <2>1, <2>2, <2>3 DEF CustomersTypeOK, TypesInv, CountsInv, CallsAnswered
<1>2. CustomersSpec => []TypesInv
  BY InitTypes, NextTypes, PTL DEF CustomersSpec
<1>3. QED  BY <1>1, <1>2, PTL

-----------------------------------------------------------------------------
(* Customers, with their pages and their calls, do nothing to the tables   *)
(* of billing-service that Billing does not allow: Customers implements it. *)
THEOREM CustomersPay == CustomersSpec => Spec
<1>1. CustomersInit => Init
  BY DEF CustomersInit
<1>2. CustomersInv /\ [CustomersNext]_allVars => [Next]_vars
  BY StepIsBilling DEF CustomersInv
<1>3. QED  BY <1>1, <1>2, CustomersInvariance, PTL DEF CustomersSpec, Spec

(* Whoever deletes a monitor twice, or someone else's, is told the truth:  *)
(* whatever the calls that race with its own do.                           *)
THEOREM DeletesTell == CustomersSpec => []DeleteAnswersTell
<1>1. CustomersInv => DeleteAnswersTell
  BY DEF CustomersInv, CallsInv, Deletion, DeleteAnswersTell
<1>2. QED  BY <1>1, CustomersInvariance, PTL

(* No call made after a handled cancellation is served, however it races   *)
(* with other calls, pages and events of this and other customers.         *)
THEOREM LeaversAreRefused == CustomersSpec => []LeaverIsNotServed
<1>1. CustomersInv => LeaverIsNotServed
  <2> SUFFICES ASSUME CustomersInv, NEW c \in DOMAIN call, call[c].left
               PROVE  CASE call[c].op \in Operations -> call[c].status \in {401, 403}
                        [] call[c].op = "portal_by_email" -> call[c].status = 404
                        [] call[c].op = "portal_by_key" -> call[c].status \in {200, 502}
    BY DEF LeaverIsNotServed
  <2>1. call[c].op \in Operations \/ call[c].op \in Portals
    <3>1. call[c] \in CallState
      BY DEF CustomersInv, CallsInv, ApiTypeOK
    <3>2. QED  BY <3>1 DEF CallState
  <2>2. Refused(c)
    BY DEF CustomersInv, CallsInv
  <2>3. CASE call[c].op \in Operations
    <3>1. call[c].status \in {401, 403}
      BY <2>2, <2>3 DEF Refused
    <3>2. call[c].op # "portal_by_email" /\ call[c].op # "portal_by_key"
      BY <2>3 DEF Operations
    <3>3. QED  BY <2>3, <3>1, <3>2
  <2>4. CASE call[c].op = "portal_by_email" \/ call[c].op = "portal_by_key"
    <3>1. call[c].op \notin Operations
      BY <2>4 DEF Operations
    <3>2. /\ call[c].op = "portal_by_email" => call[c].status = 404
          /\ call[c].op = "portal_by_key" => call[c].status \in {200, 502}
      BY <2>2 DEF Refused
    <3>3. QED  BY <2>4, <3>1, <3>2
  <2>5. QED  BY <2>1, <2>3, <2>4 DEF Portals
<1>2. QED  BY <1>1, CustomersInvariance, PTL

(* A secret on the screen is not replaced: its page waits for no answer,   *)
(* because it sent its one request before it showed the answer to it.      *)
THEOREM SecretStays == CustomersSpec => SecretStaysOnScreen
<1>1. ASSUME CustomersInv, [CustomersNext]_allVars, NEW p \in Pages, page[p].status = "key"
      PROVE  page'[p].status = "key"
  <2> DEFINE Kept == page'[p].status = "key"
  <2>1. CASE UNCHANGED page
    BY <1>1, <2>1
  <2>2. ASSUME NEW s \in Sessions, OpenPage(s) PROVE Kept
    <3> DEFINE new == {q \in Pages : page[q].status = "unopened"}
               o == CHOOSE q \in new : TRUE
    <3>1. new # {} /\ page' = [page EXCEPT ![o] =
            [status |-> "loading", session |-> s, ref |-> FALSE, runs |-> 2]]
      BY <2>2 DEF OpenPage
    <3>2. o # p
      BY <1>1, <3>1
    <3> HIDE DEF o, new
    <3>3. QED  BY <1>1, <3>1, <3>2 DEF CustomersInv, PagesInv, PageTypeOK
  <2>3. ASSUME NEW q \in Pages, RunEffect(q) PROVE Kept
    <3>1. page' = [page EXCEPT ![q] = [[page[q] EXCEPT !.runs = page[q].runs - 1] EXCEPT !.ref = TRUE]]
      BY <2>3 DEF RunEffect
    <3>2. QED  BY <1>1, <3>1 DEF CustomersInv, PagesInv, PageTypeOK, PageState
  <2>4. ASSUME NEW v \in Visits, NEW status, fetch[v] # None, Receive(v, status) PROVE Kept
    <3>1. fetch[v] # p
      BY <1>1, <2>4 DEF CustomersInv, PagesInv
    <3>2. QED  BY <1>1, <2>4, <3>1 DEF Receive, CustomersInv, PagesInv, PageTypeOK
  <2>5. CASE PageStep
    <3>1. ASSUME NEW v \in Visits, ServeAnswer(v) \/ ServeAbandoned(v) PROVE Kept
      <4>1. fetch[v] # None
        BY <1>1, <3>1 DEF CustomersInv, VisitsAwaited, ServeAnswer, ServeAbandoned, AnswerKey,
          AbandonVisit
      <4>2. QED  BY <2>4, <3>1, <4>1 DEF ServeAnswer, ServeAbandoned
    <3>2. ASSUME NEW v \in Visits, ServeRead(v) \/ ServeNothing(v) \/ ServeClear(v) PROVE Kept
      BY <2>1, <2>4, <3>2 DEF ServeRead, ServeNothing, ServeClear, pageVars
    <3>3. QED  BY <2>3, <2>5, <3>1, <3>2 DEF PageStep
  <2>6. CASE StripeStep
    BY <2>1, <2>6 DEF StripeStep, pageVars
  <2>7. CASE ApiStep
    BY <2>1, <2>7 DEF ApiStep, Authorize, RateLimited, RefuseMonitor, FetchMonitor, DeleteMonitor,
      InsertMonitor, ServeLookup, ServeBulk, ServeExport, ServeUsage, pageVars
  <2>8. CASE \E op \in Portals, owner \in Owners : StartPortalSession(op, owner)
    BY <1>1, <2>1, <2>8, PortalTells DEF pageVars
  <2>9. CASE UNCHANGED allVars
    BY <2>1, <2>9 DEF allVars, pageVars
  <2>10. QED  BY <1>1, <2>2, <2>5, <2>6, <2>7, <2>8, <2>9 DEF CustomersNext
<1>2. CustomersInv /\ [CustomersNext]_allVars =>
        [\A p \in Pages : page[p].status = "key" => page'[p].status = "key"]_page
  BY <1>1
<1>3. QED  BY <1>2, CustomersInvariance, PTL DEF CustomersSpec, SecretStaysOnScreen
=============================================================================
