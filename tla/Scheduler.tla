------------------------------ MODULE Scheduler ------------------------------
(***************************************************************************)
(* services/scheduler-service: an hourly EventBridge rule invokes a Lambda *)
(* that reads all domains with the plan tiers of their active watchers     *)
(* (scheduler/db.py), decides which are due (scheduler/cadence.py) and     *)
(* sends each of these to crawl-queue (scheduler/handler.py).  Meanwhile   *)
(* crawls land, customers register and delete monitors, and billing        *)
(* switches keys on and off.                                               *)
(*                                                                         *)
(* Time is in hours: what happens within an hour happens at one instant,   *)
(* in any order.  An invocation (60 s) and its retries end within theirs.  *)
(***************************************************************************)
EXTENDS Integers, FiniteSetsExt

CONSTANTS
  Domains,
  Keys,             \* the paid keys
  Tier,             \* Tier[k] \in {"self_serve", "licensing"}
  LicensingCadence, SelfServeCadence, DefaultCadence,  \* in hours
  Invocations,      \* concurrent invocations
  MaxStarts,        \* bound: invocations an hour, Lambda's retries included
  MaxLag,           \* bound: hours from a fetch to the write of its row
  MaxHour           \* bound: the clock stops here

ASSUME TierAssumption == Tier \in [Keys -> {"self_serve", "licensing"}]
ASSUME CadenceAssumption ==
  /\ LicensingCadence \in Nat /\ SelfServeCadence \in Nat /\ DefaultCadence \in Nat
  /\ LicensingCadence <= SelfServeCadence /\ SelfServeCadence <= DefaultCadence
ASSUME BoundsAssumption == MaxStarts \in Nat /\ MaxLag \in Nat /\ MaxHour \in Nat

VARIABLES
  hour,
  last,      \* last[d]: the hour of last_crawled_at in d's row, or Never
  monitors,  \* the rows <<k, d>> of the monitors table
  active,    \* the keys with api_keys.active
  scan,      \* scan[i]: the domains invocation i has yet to send, Idle if none runs
  starts,    \* invocations started this hour
  returned,  \* one of them returned normally
  reached,   \* history: the domains whose send was tried this hour
  overdue,   \* history: the domains overdue since the hour began
  asked      \* history: asked[d], messages sent since d's row was last written

rows == <<last, monitors, active>>
vars == <<hour, rows, scan, starts, returned, reached, overdue, asked>>

Never == -1
Idle == [running |-> FALSE, todo |-> {}]

TypeOK ==
  /\ hour \in 0 .. MaxHour
  /\ last \in [Domains -> {Never} \cup 0 .. MaxHour]
  /\ monitors \subseteq Keys \X {d \in Domains : last[d] # Never}
  /\ active \subseteq Keys
  /\ scan \in [Invocations -> [running : BOOLEAN, todo : SUBSET Domains]]
  /\ starts \in 0 .. MaxStarts /\ returned \in BOOLEAN
  /\ reached \subseteq Domains /\ overdue \subseteq Domains
  /\ asked \in [Domains -> 0 .. MaxStarts * (MaxHour + 1)]

Init ==
  /\ hour = 0
  /\ last = [d \in Domains |-> Never]
  /\ monitors = {}
  /\ active = Keys
  /\ scan = [i \in Invocations |-> Idle]
  /\ starts = 0 /\ returned = FALSE
  /\ reached = {} /\ overdue = {}
  /\ asked = [d \in Domains |-> 0]

-----------------------------------------------------------------------------
(* The tiers fetch_domains_with_watcher_tiers finds for d.                 *)
Tiers(d) == {Tier[k] : k \in {k \in active : <<k, d>> \in monitors}}

(* Mutant: an inner join. *)
FetchedWatched == {d \in Domains : last[d] # Never /\ Tiers(d) # {}}

(* LEFT JOIN: the domains nobody watches too. *)
Fetched == {d \in Domains : last[d] # Never}

(* Mutant: the tiers looked at in the other order. *)
CadenceLowestFirst(tiers) ==
  CASE "self_serve" \in tiers -> SelfServeCadence
    [] "self_serve" \notin tiers /\ "licensing" \in tiers -> LicensingCadence
    [] OTHER -> DefaultCadence

(* cadence_days_for_tiers                                                  *)
Cadence(tiers) ==
  CASE "licensing" \in tiers -> LicensingCadence
    [] "licensing" \notin tiers /\ "self_serve" \in tiers -> SelfServeCadence
    [] OTHER -> DefaultCadence

(* Mutant: every domain at every scan. *)
IsDueAlways(d) == TRUE

IsDue(d) == hour - last[d] >= Cadence(Tiers(d))

(* What customers pay for: the shortest cadence of any active watcher.     *)
Overdue(d) ==
  /\ last[d] # Never
  /\ hour - last[d] >= Min({DefaultCadence} \cup
        {IF t = "licensing" THEN LicensingCadence ELSE SelfServeCadence : t \in Tiers(d)})

StillOverdue == overdue' = {d \in overdue : Overdue(d)'}

(* An invocation begins: the clock, the SELECT, the decisions.             *)
StartScan(i) ==
  /\ ~scan[i].running
  /\ starts < MaxStarts
  /\ starts' = starts + 1
  /\ scan' = [scan EXCEPT ![i] =
                [running |-> TRUE, todo |-> {d \in Fetched : IsDue(d)}]]
  /\ UNCHANGED <<hour, rows, returned, reached, overdue, asked>>

(* enqueue_domain_for_recrawl                                              *)
EnqueueDue(i, d) ==
  /\ d \in scan[i].todo
  /\ asked' = [asked EXCEPT ![d] = @ + 1]
  /\ reached' = reached \cup {d}
  /\ scan' = [scan EXCEPT ![i].todo = @ \ {d}]
  /\ UNCHANGED <<hour, rows, starts, returned, overdue>>

(* It raises: only this domain is left out.                                *)
EnqueueRaises(i, d) ==
  /\ d \in scan[i].todo
  /\ reached' = reached \cup {d}
  /\ scan' = [scan EXCEPT ![i].todo = @ \ {d}]
  /\ UNCHANGED <<hour, rows, starts, returned, overdue, asked>>

Return(i) ==
  /\ scan[i].running /\ scan[i].todo = {}
  /\ scan' = [scan EXCEPT ![i] = Idle]
  /\ returned' = TRUE
  /\ UNCHANGED <<hour, rows, starts, reached, overdue, asked>>

(* The invocation is killed, or get_connection or the SELECT raises.       *)
Kill(i) ==
  /\ scan[i].running
  /\ scan' = [scan EXCEPT ![i] = Idle]
  /\ UNCHANGED <<hour, rows, starts, returned, reached, overdue, asked>>

(* EventBridge invokes at least once an hour, Lambda retries what failed.  *)
HourPasses ==
  /\ hour < MaxHour
  /\ \A i \in Invocations : ~scan[i].running
  /\ returned \/ starts = MaxStarts
  /\ hour' = hour + 1
  /\ starts' = 0 /\ returned' = FALSE
  /\ reached' = {}
  /\ UNCHANGED <<rows, scan, asked>>
  /\ overdue' = {d \in Domains : Overdue(d)'}

-----------------------------------------------------------------------------
(* A crawl gets to its end and d's row is written, with the hour of the    *)
(* fetch.  A first lookup or a seed list may have asked for it as well, so *)
(* it needs no message of the scheduler; one whose crawl is lost has none. *)
CrawlLands(d, at) ==
  /\ last' = [last EXCEPT ![d] = at]
  /\ asked' = [asked EXCEPT ![d] = 0]
  /\ UNCHANGED <<hour, monitors, active, scan, starts, returned, reached>>
  /\ StillOverdue

(* Mutant: a monitor of a domain that has no row. *)
InsertMonitorUnknown(k, d) ==
  /\ monitors' = monitors \cup {<<k, d>>}
  /\ UNCHANGED <<hour, last, active, scan, starts, returned, reached, asked>>
  /\ StillOverdue

(* create_monitor, for a domain that has a row (a foreign key), and        *)
(* delete_monitor.  The caller's key was active when it was looked up, but *)
(* may have been switched off by now.  A second monitor of the same key on *)
(* the same domain makes no difference to the scan.                        *)
InsertMonitor(k, d) ==
  /\ last[d] # Never /\ <<k, d>> \notin monitors
  /\ monitors' = monitors \cup {<<k, d>>}
  /\ UNCHANGED <<hour, last, active, scan, starts, returned, reached, asked>>
  /\ StillOverdue

DeleteMonitor(k, d) ==
  /\ <<k, d>> \in monitors
  /\ monitors' = monitors \ {<<k, d>>}
  /\ UNCHANGED <<hour, last, active, scan, starts, returned, reached, asked>>
  /\ StillOverdue

(* billing's update_subscription_status.                                   *)
SwitchKey(k) ==
  /\ active' = IF k \in active THEN active \ {k} ELSE active \cup {k}
  /\ UNCHANGED <<hour, last, monitors, scan, starts, returned, reached, asked>>
  /\ StillOverdue

Next ==
  \/ \E i \in Invocations : \/ StartScan(i) \/ Return(i) \/ Kill(i)
                            \/ \E d \in Domains : EnqueueDue(i, d) \/ EnqueueRaises(i, d)
  \/ \E d \in Domains, at \in 0 .. hour : at >= hour - MaxLag /\ CrawlLands(d, at)
  \/ \E k \in Keys : \/ SwitchKey(k)
                     \/ \E d \in Domains : InsertMonitor(k, d) \/ DeleteMonitor(k, d)
  \/ HourPasses

Spec == Init /\ [][Next]_vars
-----------------------------------------------------------------------------
(* scheduler/handler.py: "a domain becoming due is never more than an hour *)
(* late".  A domain that is overdue for the shortest cadence anyone pays   *)
(* for, or for the default one if nobody does, all through an hour is sent *)
(* to crawl-queue in that hour, if one invocation in it gets to its end    *)
(* and the send itself does not raise; whatever else is switched,          *)
(* registered, crawled or raises meanwhile.                                *)
AskedEveryHour ==
  [][hour' # hour /\ returned => overdue \subseteq reached]_vars

(* A domain is asked for only in the hours it is due at the fastest        *)
(* cadence: while its crawl is held up the scans pile up messages, but no  *)
(* more than one for each invocation of these hours.  A scan that read the *)
(* row before a crawl landed may add that hour's.                          *)
BacklogBounded ==
  \A d \in Domains : last[d] # Never =>
    asked[d] <= MaxStarts * (1 + Max({0, hour - last[d] - LicensingCadence + 1}))
=============================================================================
