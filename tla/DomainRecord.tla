---------------------------- MODULE DomainRecord ----------------------------
(***************************************************************************)
(* One domain from its site to its row and its history.  crawler-service   *)
(* stores the artifacts of a crawl in S3 one after the other, then         *)
(* publishes it (crawler/handler.py, crawler/storage.py); parser-service   *)
(* reads published crawls in any order and any number of times             *)
(* (parser/handler.py, see Signals); api-service lists the crawls straight *)
(* out of S3 (api/history.py).                                             *)
(*                                                                         *)
(* Parser has the steps of a parser invocation; here handling a message is *)
(* one step, and the clock that decides which keys are valid runs between. *)
(***************************************************************************)
EXTENDS Signals, FiniteSets, SequencesExt

CONSTANTS
  Sites,        \* the bundles a site may start with
  Updates,      \* the bundles it may change to
  LlmsEnabled,  \* CRAWL_LLMS_TXT_ENABLED
  ListCap,      \* HISTORY_S3_LIST_CAP
  Limits,       \* values of the history's limit
  MaxTime,      \* bound: half seconds in a behaviour
  MaxCrawls     \* bound: crawls in a behaviour

ASSUME SitesAssumption == Sites \cup Updates \subseteq Bundle
ASSUME LlmsEnabledAssumption == LlmsEnabled \in BOOLEAN
ASSUME NumbersAssumption ==
  /\ ListCap \in Nat \ {0} /\ Limits \subseteq Nat \ {0}
  /\ MaxTime \in Nat /\ MaxCrawls \in Nat

VARIABLES
  now,        \* half seconds
  site,       \* the bundle the domain serves
  crawler,    \* the crawl that is running
  store,      \* store[t]: the artifacts in folder `domain/t/' of S3
  published,  \* the raw-fetched messages: crawled_at with what was crawled
  row,        \* the row of the domain in Postgres
  parsed,     \* history: the bundle and the instant the row was made from
  repeats     \* history: record-changed messages since the row's bundle last
              \* differed, where 2 stands for two or more

vars == <<now, site, crawler, store, published, row, parsed, repeats>>

Times == 0 .. MaxTime
Artifacts == {"agents.json", "web-bot-auth-directory", "llms.txt"}

(* The `present' of an envelope, None if there is no such object.          *)
Folder == [Artifacts -> BOOLEAN \cup {None}]
NoFolder == [a \in Artifacts |-> None]

(* pc: what the crawl does next. *)
NotCrawling == [pc |-> "idle"]
Crawling == [pc : {"agents", "directory", "llms", "publish"}, at : Times, found : Bundle]

NoRow == [first_seen_at |-> None]

(* What a crawl takes from the site: llms.txt is not asked for if disabled. *)
Found(b) == [b EXCEPT !.llms = LlmsEnabled /\ @]

TypeOK ==
  /\ now \in Times
  /\ site \in Sites \cup Updates
  /\ crawler # NotCrawling => crawler \in Crawling /\ crawler.at <= now
  /\ store \in [Times -> Folder]
  /\ \A m \in published : m.crawled_at \in 0 .. now /\ m.found \in Bundle
  /\ row # NoRow =>
       /\ row.first_seen_at \in 0 .. now /\ row.last_crawled_at \in 0 .. now
       /\ row.fields = AsStored(Fields(parsed.found, parsed.at))
  /\ repeats \in 0 .. 2

Init ==
  /\ now = 0
  /\ site \in Sites
  /\ crawler = NotCrawling
  /\ store = [t \in Times |-> NoFolder]
  /\ published = {}
  /\ row = NoRow
  /\ parsed = [found |-> None, at |-> 0]
  /\ repeats = 0

-----------------------------------------------------------------------------
Tick ==
  /\ now < MaxTime
  /\ now' = now + 1
  /\ UNCHANGED <<site, crawler, store, published, row, parsed, repeats>>

UpdateSite(b) ==
  /\ b # site
  /\ site' = b
  /\ UNCHANGED <<now, crawler, store, published, row, parsed, repeats>>

Folders == {t \in Times : store[t] # NoFolder}

(* crawl_domain: the well-known paths are fetched.                         *)
Fetch ==
  /\ crawler = NotCrawling
  /\ Cardinality(Folders) < MaxCrawls
  /\ crawler' = [pc |-> "agents", at |-> 0, found |-> Found(site)]
  /\ UNCHANGED <<now, site, store, published, row, parsed, repeats>>

(* store_fetch_result *)
Stored(t, artifact, present) == [store EXCEPT ![t][artifact] = present]

(* crawled_at is read and the first artifact stored.  No two crawls of a   *)
(* domain have the same instant.                                           *)
StoreAgentsJson ==
  /\ crawler.pc = "agents"
  /\ store[now] = NoFolder
  /\ store' = Stored(now, "agents.json", crawler.found.agents # Absent)
  /\ crawler' = [crawler EXCEPT !.pc = "directory", !.at = now]
  /\ UNCHANGED <<now, site, published, row, parsed, repeats>>

StoreDirectory ==
  /\ crawler.pc = "directory"
  /\ store' = Stored(crawler.at, "web-bot-auth-directory", crawler.found.directory # Absent)
  /\ crawler' = [crawler EXCEPT !.pc = IF LlmsEnabled THEN "llms" ELSE "publish"]
  /\ UNCHANGED <<now, site, published, row, parsed, repeats>>

StoreLlmsTxt ==
  /\ crawler.pc = "llms"
  /\ store' = Stored(crawler.at, "llms.txt", crawler.found.llms)
  /\ crawler' = [crawler EXCEPT !.pc = "publish"]
  /\ UNCHANGED <<now, site, published, row, parsed, repeats>>

RawFetched == [crawled_at |-> crawler.at, found |-> crawler.found]

(* Mutant: published before the directory is stored. *)
PublishEarly ==
  /\ crawler.pc \in {"directory", "publish"}
  /\ published' = published \cup {RawFetched}
  /\ crawler' = NotCrawling
  /\ UNCHANGED <<now, site, store, row, parsed, repeats>>

PublishRawFetched ==
  /\ crawler.pc = "publish"
  /\ published' = published \cup {RawFetched}
  /\ crawler' = NotCrawling
  /\ UNCHANGED <<now, site, store, row, parsed, repeats>>

(* An AWS call raises or the crawler is killed: what is stored stays.      *)
AbortCrawl ==
  /\ crawler # NotCrawling
  /\ crawler' = NotCrawling
  /\ UNCHANGED <<now, site, store, published, row, parsed, repeats>>

-----------------------------------------------------------------------------
(* Mutant: keys are judged as of the crawl. *)
CrawlTime(m) == m.crawled_at

(* The instant process_message judges keys by: that of the handling.       *)
ParseTime(m) == now

(* Mutant: the row there was is not asked for. *)
FirstSeenOfRow(m) == row.first_seen_at

FirstSeen(m) == IF row = NoRow THEN m.crawled_at ELSE row.first_seen_at

(* read_envelope finds the artifacts the message says are present.         *)
Readable(m) ==
  /\ m.found.agents # Absent => store[m.crawled_at]["agents.json"] # None
  /\ m.found.directory # Absent => store[m.crawled_at]["web-bot-auth-directory"] # None

(* process_message for a published crawl, delivered early, late or again.  *)
(* A message that raises, or whose statement Postgres refuses, changes     *)
(* nothing here.                                                           *)
ProcessMessage(m) ==
  LET fields == Fields(m.found, ParseTime(m))
      changed == row # NoRow /\ DiffRecords(row.fields, fields) # {}
  IN /\ Readable(m) /\ ~Raises(m.found) /\ ~Refused(m.found)
     /\ row' = [first_seen_at |-> FirstSeen(m), last_crawled_at |-> m.crawled_at,
                fields |-> AsStored(fields)]
     /\ parsed' = [found |-> m.found, at |-> ParseTime(m)]
     /\ repeats' = CASE m.found # parsed.found -> 0
                     [] m.found = parsed.found /\ changed -> IF repeats < 2 THEN repeats + 1 ELSE 2
                     [] OTHER -> repeats
     /\ UNCHANGED <<now, site, crawler, store, published>>

Next ==
  \/ Tick
  \/ \E b \in Updates : UpdateSite(b)
  \/ Fetch \/ StoreAgentsJson \/ StoreDirectory \/ StoreLlmsTxt
  \/ PublishRawFetched \/ AbortCrawl
  \/ \E m \in published : ProcessMessage(m)

Spec == Init /\ [][Next]_vars

-----------------------------------------------------------------------------
(* An isoformat() timestamp up to what decides the order of two of them:   *)
(* the fraction is left out when it is 0, and "+" (43) is before "." (46). *)
Isoformat(t) == <<t \div 2, IF t % 2 = 0 THEN 43 ELSE 46>>
SortsBefore(t, u) ==
  \/ Isoformat(t)[1] < Isoformat(u)[1]
  \/ Isoformat(t)[1] = Isoformat(u)[1] /\ Isoformat(t)[2] < Isoformat(u)[2]

AtMost(n, seq) == SubSeq(seq, 1, IF n < Len(seq) THEN n ELSE Len(seq))

(* list_objects_v2 lists in ascending order and stops at MaxKeys.          *)
Ascending(S) ==
  CHOOSE keys \in [1 .. Cardinality(S) -> S] :
    \A i, j \in DOMAIN keys : i < j => SortsBefore(keys[i], keys[j])

ListCrawlTimestamps == AtMost(ListCap, Ascending(Folders))

(* Mutant: the limit is applied before the order is reversed. *)
OldestOfList(limit) == Reverse(AtMost(limit, ListCrawlTimestamps))

MostRecentFirst(limit) == AtMost(limit, Reverse(ListCrawlTimestamps))

ArtifactSummary(t, artifact) == [present |-> store[t][artifact] = TRUE]

(* list_domain_history *)
DomainHistory(limit) ==
  LET timestamps == MostRecentFirst(limit)
  IN [i \in DOMAIN timestamps |->
       [crawled_at   |-> timestamps[i],
        agents_json  |-> ArtifactSummary(timestamps[i], "agents.json"),
        web_bot_auth |-> ArtifactSummary(timestamps[i], "web-bot-auth-directory")]]

-----------------------------------------------------------------------------
(* The confidence flags say neither more nor less than the rest of the     *)
(* row: confidence.py's rules hold of the row as stored, whatever the      *)
(* parsers made of the artifacts.                                          *)
FlagsTellTheRecord ==
  row # NoRow =>
    LET f == row.fields
        flags == f.confidence_flags
    IN /\ "no_signals" \in flags <=> ~(\/ f.agent_json_present \/ f.llms_txt_present
                                       \/ f.web_bot_auth_present)
       /\ "no_signals" \in flags => flags = {"no_signals"}
       /\ "malformed_manifest" \in flags <=> f.manifest_malformed_reason # None
       /\ "malformed_web_bot_auth" \in flags <=> f.web_bot_auth_malformed_reason # None
       /\ "expired_key" \in flags <=> /\ f.web_bot_auth_present /\ ~f.web_bot_auth_valid
                                      /\ f.web_bot_auth_malformed_reason = None
       /\ f.declared_capabilities # Empty =>
            f.agent_json_present /\ f.manifest_malformed_reason = None

Expiries(body) ==
  IF body = Absent \/ body.shape # "jwks" THEN {}
  ELSE {body.keys[i].exp : i \in KeyObjects(body)} \ {None}

(* The row calls the domain's key valid exactly if some key of the         *)
(* directory was still live when the crawl was parsed, and its expiry is   *)
(* the last one, in whatever order a rotation lists the keys.              *)
ValidMeansLiveKey ==
  row # NoRow =>
    LET expiries == Expiries(parsed.found.directory)
    IN /\ row.fields.web_bot_auth_valid <=> \E e \in expiries : 2 * e > parsed.at
       /\ expiries = {} <=> row.fields.web_bot_auth_expiry = None
       /\ \A e \in expiries : e <= row.fields.web_bot_auth_expiry
       /\ expiries # {} => row.fields.web_bot_auth_expiry \in expiries

(* Crawls that found the same, handled in any order and again, announce at *)
(* most one change after the row first has it: the key's expiry.  An old   *)
(* crawl delivered late does not make an expired key valid again.  It is   *)
(* said of manifests that jsonb gives back as they were: any other differs *)
(* from its own row and is announced at every crawl.                       *)
SteadySiteOneChange ==
  row # NoRow /\ CapabilitiesSurvive(parsed.found) => repeats <= 1

(* The row's crawl is a complete snapshot of the history, and the two tell *)
(* the same of what was present.                                           *)
SnapshotMatchesRow ==
  row # NoRow =>
    LET folder == store[row.last_crawled_at]
    IN /\ folder["agents.json"] = row.fields.agent_json_present
       /\ folder["web-bot-auth-directory"] = row.fields.web_bot_auth_present
       /\ LlmsEnabled => folder["llms.txt"] = row.fields.llms_txt_present

(* The history goes back in time from the newest crawl, without a gap, as  *)
(* long as there are no more crawls than one listing returns.              *)
HistoryNewestFirst ==
  \A limit \in Limits :
    LET history == DomainHistory(limit)
        shown == {history[i].crawled_at : i \in DOMAIN history}
    IN /\ \A i, j \in DOMAIN history : i < j => history[i].crawled_at > history[j].crawled_at
       /\ shown \subseteq Folders
       /\ Cardinality(Folders) <= ListCap =>
            /\ shown # Folders => Len(history) = limit
            /\ \A t \in shown, u \in Folders \ shown : u < t
=============================================================================
