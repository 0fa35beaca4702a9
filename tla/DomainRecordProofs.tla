------------------------- MODULE DomainRecordProofs -------------------------
(***************************************************************************)
(* TLAPS proofs about DomainRecord: what a domain's row says is one crawl, *)
(* whole and judged at one instant, whatever the sites serve, however many *)
(* crawls there are and in whatever order they are parsed.                 *)
(***************************************************************************)
EXTENDS DomainRecord, FiniteSetTheorems, TLAPS

-----------------------------------------------------------------------------
(* The inductive invariant.                                                *)

(* The folder of instant t holds all that was found. *)
Complete(t, found) ==
  /\ store[t]["agents.json"] = (found.agents # Absent)
  /\ store[t]["web-bot-auth-directory"] = (found.directory # Absent)
  /\ LlmsEnabled => store[t]["llms.txt"] = found.llms

PublishedComplete ==
  \A m \in published : m.crawled_at \in Times /\ Complete(m.crawled_at, m.found)

(* A crawl that has begun to store has a folder of its own, which holds    *)
(* what its steps so far put there.                                        *)
UnderWay ==
  crawler # NotCrawling /\ crawler.pc # "agents" =>
    /\ \A m \in published : m.crawled_at # crawler.at
    /\ store[crawler.at]["agents.json"] = (crawler.found.agents # Absent)
    /\ crawler.pc # "directory" =>
         store[crawler.at]["web-bot-auth-directory"] = (crawler.found.directory # Absent)
    /\ crawler.pc = "publish" /\ LlmsEnabled =>
         store[crawler.at]["llms.txt"] = crawler.found.llms

(* The row is that of a published crawl.                                   *)
RowParsed ==
  row # NoRow => \E m \in published : /\ m.crawled_at = row.last_crawled_at
                                      /\ m.found = parsed.found

(* Once a change was announced for the same artifacts again, though their  *)
(* capabilities survive the database, their key has expired, and it stays  *)
(* so.                                                                     *)
Expired ==
  /\ parsed.at \in Nat /\ parsed.at <= now
  /\ row = NoRow => repeats = 0
  /\ row # NoRow => ~WebBotAuthRaises(parsed.found.directory)
  /\ row # NoRow /\ CapabilitiesSurvive(parsed.found) =>
       /\ repeats \in {0, 1}
       /\ repeats = 1 => ~Valid(parsed.found.directory, parsed.at)

IInv == TypeOK /\ PublishedComplete /\ UnderWay /\ RowParsed /\ Expired

-----------------------------------------------------------------------------
(* What the fields of a record say, for any bundle at any instant.         *)
FieldsTell(f) ==
  /\ "no_signals" \in f.confidence_flags
       <=> ~(f.agent_json_present \/ f.llms_txt_present \/ f.web_bot_auth_present)
  /\ "no_signals" \in f.confidence_flags => f.confidence_flags = {"no_signals"}
  /\ "malformed_manifest" \in f.confidence_flags <=> f.manifest_malformed_reason # None
  /\ "malformed_web_bot_auth" \in f.confidence_flags <=> f.web_bot_auth_malformed_reason # None
  /\ "expired_key" \in f.confidence_flags
       <=> /\ f.web_bot_auth_present /\ ~f.web_bot_auth_valid
           /\ f.web_bot_auth_malformed_reason = None
  /\ f.declared_capabilities # Empty =>
       f.agent_json_present /\ f.manifest_malformed_reason = None

LEMMA ManifestFacts ==
  ASSUME NEW body \in AgentsBody \cup {Absent}
  PROVE  /\ body = Absent => ManifestReason(body) = None
         /\ DeclaredCapabilities(body) # Empty =>
              body # Absent /\ ManifestReason(body) = None
BY DEF ManifestReason, DeclaredCapabilities

LEMMA DirectoryFacts ==
  ASSUME NEW body \in DirectoryBody \cup {Absent}
  PROVE  body = Absent => WebBotAuthReason(body) = None
BY DEF WebBotAuthReason

LEMMA FlagsFacts ==
  ASSUME NEW manifestReason, NEW authReason,
         NEW agents \in BOOLEAN, NEW directory \in BOOLEAN, NEW llms \in BOOLEAN,
         NEW valid \in BOOLEAN,
         ~agents => manifestReason = None, ~directory => authReason = None
  PROVE  LET flags == Flags(manifestReason, authReason, agents, directory, llms, valid)
         IN /\ "no_signals" \in flags <=> ~(agents \/ llms \/ directory)
            /\ "no_signals" \in flags => flags = {"no_signals"}
            /\ "malformed_manifest" \in flags <=> manifestReason # None
            /\ "malformed_web_bot_auth" \in flags <=> authReason # None
            /\ "expired_key" \in flags <=> directory /\ ~valid /\ authReason = None
BY DEF Flags

LEMMA FieldsFacts ==
  ASSUME NEW b \in Bundle, NEW t
  PROVE  FieldsTell(Fields(b, t))
<1> DEFINE f == Fields(b, t)
<1>1. /\ b.agents \in AgentsBody \cup {Absent}
      /\ b.directory \in DirectoryBody \cup {Absent}
      /\ b.llms \in BOOLEAN
  BY DEF Bundle
<1>2. Valid(b.directory, t) \in BOOLEAN
  BY DEF Valid
<1>3. /\ f.agent_json_present = (b.agents # Absent)
      /\ f.llms_txt_present = b.llms
      /\ f.web_bot_auth_present = (b.directory # Absent)
      /\ f.web_bot_auth_valid = Valid(b.directory, t)
      /\ f.declared_capabilities = DeclaredCapabilities(b.agents)
      /\ f.manifest_malformed_reason = ManifestReason(b.agents)
      /\ f.web_bot_auth_malformed_reason = WebBotAuthReason(b.directory)
      /\ f.confidence_flags =
           Flags(ManifestReason(b.agents), WebBotAuthReason(b.directory),
                 b.agents # Absent, b.directory # Absent, b.llms, Valid(b.directory, t))
  BY DEF Fields
<1> DEFINE mr == ManifestReason(b.agents)
<1> DEFINE ar == WebBotAuthReason(b.directory)
<1> DEFINE ag == b.agents # Absent
<1> DEFINE dir == b.directory # Absent
<1> DEFINE valid == Valid(b.directory, t)
<1> DEFINE flags == Flags(mr, ar, ag, dir, b.llms, valid)
<1>4. /\ "no_signals" \in flags <=> ~(ag \/ b.llms \/ dir)
      /\ "no_signals" \in flags => flags = {"no_signals"}
      /\ "malformed_manifest" \in flags <=> mr # None
      /\ "malformed_web_bot_auth" \in flags <=> ar # None
      /\ "expired_key" \in flags <=> dir /\ ~valid /\ ar = None
  <2>1. /\ ag \in BOOLEAN /\ dir \in BOOLEAN /\ b.llms \in BOOLEAN /\ valid \in BOOLEAN
    BY <1>1, <1>2
  <2>2. /\ ~ag => mr = None
        /\ ~dir => ar = None
    BY <1>1, ManifestFacts, DirectoryFacts
  <2> HIDE DEF mr, ar, ag, dir, valid
  <2>3. QED  BY <2>1, <2>2, FlagsFacts
<1>5. DeclaredCapabilities(b.agents) # Empty =>
        b.agents # Absent /\ ManifestReason(b.agents) = None
  BY <1>1, ManifestFacts
<1> HIDE DEF f
<1>6. QED  BY <1>3, <1>4, <1>5 DEF FieldsTell, f

(* The row of a crawl says the same, but for what jsonb makes of the       *)
(* capabilities; and that is nothing if there are none.                    *)
LEMMA StoredFields ==
  ASSUME NEW b \in Bundle, NEW t
  PROVE  /\ AsStored(Fields(b, t)).agent_json_present = (b.agents # Absent)
         /\ AsStored(Fields(b, t)).llms_txt_present = b.llms
         /\ AsStored(Fields(b, t)).web_bot_auth_present = (b.directory # Absent)
         /\ AsStored(Fields(b, t)).web_bot_auth_valid = Valid(b.directory, t)
         /\ AsStored(Fields(b, t)).web_bot_auth_expiry = Expiry(b.directory)
BY DEF Fields, AsStored

LEMMA StoredFieldsTell ==
  ASSUME NEW b \in Bundle, NEW t
  PROVE  FieldsTell(AsStored(Fields(b, t)))
<1>1. PICK f : f = Fields(b, t)
  OBVIOUS
<1>2. FieldsTell(f)
  BY <1>1, FieldsFacts
<1>3. PICK s : s = AsStored(f)
  OBVIOUS
<1>4. /\ s.agent_json_present = f.agent_json_present
      /\ s.llms_txt_present = f.llms_txt_present
      /\ s.web_bot_auth_present = f.web_bot_auth_present
      /\ s.web_bot_auth_valid = f.web_bot_auth_valid
      /\ s.manifest_malformed_reason = f.manifest_malformed_reason
      /\ s.web_bot_auth_malformed_reason = f.web_bot_auth_malformed_reason
      /\ s.confidence_flags = f.confidence_flags
      /\ s.declared_capabilities = Jsonb[f.declared_capabilities]
  BY <1>1, <1>3 DEF Fields, AsStored
<1>5. s.declared_capabilities # Empty => f.declared_capabilities # Empty
  BY <1>4, JsonbAssumption
<1>6. FieldsTell(s)
  BY <1>2, <1>4, <1>5 DEF FieldsTell
<1>7. QED  BY <1>1, <1>3, <1>6

-----------------------------------------------------------------------------
LEMMA FoundIsBundle ==
  ASSUME NEW b \in Bundle
  PROVE  Found(b) \in Bundle
BY DEF Found, Bundle

LEMMA NumberTypes ==
  /\ MaxTime \in Nat
  /\ Times = 0 .. MaxTime
BY NumbersAssumption DEF Times

LEMMA InitTypes == Init => TypeOK
<1> SUFFICES ASSUME Init PROVE TypeOK
  OBVIOUS
<1>1. now \in Times /\ store \in [Times -> Folder]
  BY NumberTypes DEF Init, Folder, NoFolder
<1>2. QED  BY <1>1 DEF TypeOK, Init

LEMMA StoredType ==
  ASSUME TypeOK, NEW t \in Times, NEW a \in Artifacts, NEW present \in BOOLEAN
  PROVE  Stored(t, a, present) \in [Times -> Folder]
BY DEF TypeOK, Stored, Folder

LEMMA CrawlerTypes ==
  ASSUME TypeOK, crawler # NotCrawling
  PROVE  /\ crawler \in Crawling
         /\ crawler.at \in Nat /\ crawler.at <= now
         /\ crawler.found \in Bundle /\ crawler.found.llms \in BOOLEAN
         /\ crawler.at \in Times
BY NumberTypes DEF TypeOK, Crawling, Bundle

LEMMA NextTypes == TypeOK /\ [Next]_vars => TypeOK'
<1> SUFFICES ASSUME TypeOK, [Next]_vars PROVE TypeOK'
  OBVIOUS
<1> USE NumberTypes
<1>1. CASE Tick
  <2>1. now' \in Times /\ now <= now' /\ now \in Nat /\ now' \in Nat
    BY <1>1 DEF Tick, TypeOK
  <2>2. crawler' # NotCrawling => crawler' \in Crawling /\ crawler'.at <= now'
    BY <1>1, <2>1, CrawlerTypes DEF Tick
  <2>3. \A m \in published : m.crawled_at \in 0 .. now' /\ m.found \in Bundle
    BY <2>1 DEF TypeOK
  <2>4. row # NoRow => row.first_seen_at \in 0 .. now' /\ row.last_crawled_at \in 0 .. now'
    BY <2>1 DEF TypeOK
  <2>5. QED  BY <1>1, <2>1, <2>2, <2>3, <2>4 DEF Tick, TypeOK
<1>2. ASSUME NEW b \in Updates, UpdateSite(b) PROVE TypeOK'
  BY <1>2 DEF UpdateSite, TypeOK
<1>3. CASE Fetch
  <2>1. Found(site) \in Bundle
    BY FoundIsBundle, SitesAssumption DEF TypeOK
  <2>2. crawler' \in Crawling /\ crawler'.at <= now'
    BY <1>3, <2>1 DEF Fetch, Crawling, TypeOK
  <2>3. QED  BY <1>3, <2>2 DEF Fetch, TypeOK
<1>4. CASE StoreAgentsJson
  <2>1. crawler # NotCrawling
    BY <1>4 DEF StoreAgentsJson, NotCrawling
  <2>2. crawler' \in Crawling /\ crawler'.at <= now'
    <3>1. crawler \in Crawling /\ now \in Times /\ now \in Nat
      BY <2>1 DEF TypeOK
    <3>2. crawler' = [crawler EXCEPT !.pc = "directory", !.at = now] /\ now' = now
      BY <1>4 DEF StoreAgentsJson
    <3>3. crawler' \in Crawling
      BY <3>1, <3>2 DEF Crawling
    <3>4. crawler'.at = now
      BY <3>1, <3>2 DEF Crawling
    <3>5. QED  BY <3>1, <3>2, <3>3, <3>4
  <2>3. store' \in [Times -> Folder]
    <3>1. /\ now \in Times /\ "agents.json" \in Artifacts
          /\ (crawler.found.agents # Absent) \in BOOLEAN
      BY DEF TypeOK, Artifacts
    <3>2. QED  BY <1>4, <3>1, StoredType DEF StoreAgentsJson
  <2>4. QED  BY <1>4, <2>2, <2>3 DEF StoreAgentsJson, TypeOK
<1>5. CASE StoreDirectory
  <2>1. crawler # NotCrawling
    BY <1>5 DEF StoreDirectory, NotCrawling
  <2>2. crawler' \in Crawling /\ crawler'.at <= now'
    BY <1>5, <2>1, CrawlerTypes DEF StoreDirectory, Crawling, TypeOK
  <2>3. store' \in [Times -> Folder]
    BY <1>5, <2>1, CrawlerTypes, StoredType DEF StoreDirectory, Artifacts
  <2>4. QED  BY <1>5, <2>2, <2>3 DEF StoreDirectory, TypeOK
<1>6. CASE StoreLlmsTxt
  <2>1. crawler # NotCrawling
    BY <1>6 DEF StoreLlmsTxt, NotCrawling
  <2>2. crawler' \in Crawling /\ crawler'.at <= now'
    BY <1>6, <2>1, CrawlerTypes DEF StoreLlmsTxt, Crawling, TypeOK
  <2>3. store' \in [Times -> Folder]
    BY <1>6, <2>1, CrawlerTypes, StoredType DEF StoreLlmsTxt, Artifacts
  <2>4. QED  BY <1>6, <2>2, <2>3 DEF StoreLlmsTxt, TypeOK
<1>7. CASE PublishRawFetched
  <2>1. crawler # NotCrawling
    BY <1>7 DEF PublishRawFetched, NotCrawling
  <2>2. RawFetched.crawled_at \in 0 .. now /\ RawFetched.found \in Bundle
    BY <2>1, CrawlerTypes DEF RawFetched, TypeOK
  <2>3. QED  BY <1>7, <2>2 DEF PublishRawFetched, TypeOK
<1>8. CASE AbortCrawl
  BY <1>8 DEF AbortCrawl, TypeOK
<1>9. ASSUME NEW m \in published, ProcessMessage(m) PROVE TypeOK'
  <2>1. m.crawled_at \in 0 .. now
    BY DEF TypeOK
  <2>2. FirstSeen(m) \in 0 .. now
    BY <2>1 DEF FirstSeen, TypeOK
  <2>3. /\ row'.first_seen_at \in 0 .. now' /\ row'.last_crawled_at \in 0 .. now'
        /\ row'.fields = AsStored(Fields(parsed'.found, parsed'.at))
    BY <1>9, <2>1, <2>2 DEF ProcessMessage
  <2>4. repeats' \in 0 .. 2
    BY <1>9 DEF ProcessMessage, TypeOK
  <2>5. QED  BY <1>9, <2>3, <2>4 DEF ProcessMessage, TypeOK
<1>10. CASE UNCHANGED vars
  BY <1>10 DEF vars, TypeOK
<1>11. QED
  BY <1>1, <1>2, <1>3, <1>4, <1>5, <1>6, <1>7, <1>8, <1>9, <1>10 DEF Next

(* Every variable of DomainRecord keeps its type, and the fields of the    *)
(* row are those of one crawl's artifacts, judged at one instant.          *)
THEOREM TypeCorrect == Spec => []TypeOK
<1>1. QED  BY InitTypes, NextTypes, PTL DEF Spec

-----------------------------------------------------------------------------
LEMMA InitIInv == Init => IInv
<1> SUFFICES ASSUME Init PROVE IInv
  OBVIOUS
<1>1. TypeOK
  BY InitTypes
<1>2. PublishedComplete /\ UnderWay /\ RowParsed
  BY DEF Init, PublishedComplete, UnderWay, RowParsed
<1>3. Expired
  BY DEF Init, Expired
<1>4. QED  BY <1>1, <1>2, <1>3 DEF IInv

(* A step that stores into a folder leaves the others alone, and the one   *)
(* it stores into holds the artifact afterwards.                           *)
LEMMA StoredFacts ==
  ASSUME TypeOK, NEW t \in Times, NEW a \in Artifacts, NEW present
  PROVE  /\ \A u \in Times \ {t} : Stored(t, a, present)[u] = store[u]
         /\ Stored(t, a, present)[t][a] = present
         /\ \A b \in Artifacts \ {a} : Stored(t, a, present)[t][b] = store[t][b]
BY DEF TypeOK, Stored, Folder

LEMMA ArtifactNames ==
  /\ "agents.json" \in Artifacts
  /\ "web-bot-auth-directory" \in Artifacts \ {"agents.json"}
  /\ "llms.txt" \in Artifacts \ {"agents.json", "web-bot-auth-directory"}
BY DEF Artifacts

(* No published crawl has the folder that a running crawl stores into.     *)
LEMMA CompleteKept ==
  ASSUME PublishedComplete, published' = published,
         NEW t, \A m \in published : m.crawled_at # t,
         \A u \in Times \ {t} : store'[u] = store[u]
  PROVE  PublishedComplete'
BY DEF PublishedComplete, Complete

LEMMA NextPublished == IInv /\ [Next]_vars => PublishedComplete'
<1> SUFFICES ASSUME IInv, [Next]_vars PROVE PublishedComplete'
  OBVIOUS
<1> USE DEF IInv
<1>1. CASE UNCHANGED <<store, published>>
  BY <1>1 DEF PublishedComplete, Complete
<1>2. CASE StoreAgentsJson
  <2>1. \A m \in published : m.crawled_at # now
    <3> SUFFICES ASSUME NEW m \in published, m.crawled_at = now PROVE FALSE
      OBVIOUS
    <3>1. store[now]["agents.json"] # None
      BY NoneAssumption DEF PublishedComplete, Complete
    <3>2. QED  BY <1>2, <3>1, ArtifactNames DEF StoreAgentsJson, NoFolder
  <2>2. now \in Times
    BY DEF TypeOK
  <2>3. \A u \in Times \ {now} : store'[u] = store[u]
    BY <1>2, <2>2, StoredFacts, ArtifactNames DEF StoreAgentsJson
  <2>4. QED  BY <1>2, <2>1, <2>3, CompleteKept DEF StoreAgentsJson
<1>3. CASE StoreDirectory
  <2>1. crawler # NotCrawling /\ crawler.pc # "agents"
    BY <1>3 DEF StoreDirectory, NotCrawling
  <2>2. \A u \in Times \ {crawler.at} : store'[u] = store[u]
    BY <1>3, <2>1, StoredFacts, ArtifactNames, CrawlerTypes DEF StoreDirectory
  <2>3. QED  BY <1>3, <2>1, <2>2, CompleteKept DEF StoreDirectory, UnderWay
<1>4. CASE StoreLlmsTxt
  <2>1. crawler # NotCrawling /\ crawler.pc # "agents"
    BY <1>4 DEF StoreLlmsTxt, NotCrawling
  <2>2. \A u \in Times \ {crawler.at} : store'[u] = store[u]
    BY <1>4, <2>1, StoredFacts, ArtifactNames, CrawlerTypes DEF StoreLlmsTxt
  <2>3. QED  BY <1>4, <2>1, <2>2, CompleteKept DEF StoreLlmsTxt, UnderWay
<1>5. CASE PublishRawFetched
  <2>1. crawler # NotCrawling /\ crawler.pc = "publish"
    BY <1>5 DEF PublishRawFetched, NotCrawling
  <2>2. RawFetched.crawled_at \in Times /\ Complete(RawFetched.crawled_at, RawFetched.found)
    BY <2>1, CrawlerTypes DEF RawFetched, UnderWay, Complete
  <2>3. published' = published \cup {RawFetched} /\ store' = store
    BY <1>5 DEF PublishRawFetched
  <2>4. QED  BY <2>2, <2>3 DEF PublishedComplete, Complete
<1>6. QED
  <2>1. CASE Tick \/ Fetch \/ AbortCrawl \/ (\E b \in Updates : UpdateSite(b))
    BY <2>1, <1>1 DEF Tick, Fetch, AbortCrawl, UpdateSite
  <2>2. CASE \E m \in published : ProcessMessage(m)
    BY <2>2, <1>1 DEF ProcessMessage
  <2>3. CASE UNCHANGED vars
    BY <2>3, <1>1 DEF vars
  <2>4. QED  BY <1>2, <1>3, <1>4, <1>5, <2>1, <2>2, <2>3 DEF Next

LEMMA NextUnderWay == IInv /\ [Next]_vars => UnderWay'
<1> SUFFICES ASSUME IInv, [Next]_vars PROVE UnderWay'
  OBVIOUS
<1> USE DEF IInv
<1>1. CASE UNCHANGED <<store, published, crawler>>
  BY <1>1 DEF UnderWay
<1>2. CASE Fetch \/ PublishRawFetched \/ AbortCrawl
  BY <1>2 DEF Fetch, PublishRawFetched, AbortCrawl, UnderWay, NotCrawling
<1>3. CASE StoreAgentsJson
  <2>1. crawler # NotCrawling
    BY <1>3 DEF StoreAgentsJson, NotCrawling
  <2>2. crawler \in Crawling /\ now \in Times
    BY <2>1 DEF TypeOK
  <2>3. crawler'.pc = "directory" /\ crawler'.at = now /\ crawler'.found = crawler.found
    BY <1>3, <2>2 DEF StoreAgentsJson, Crawling
  <2>4. \A m \in published : m.crawled_at # now
    <3> SUFFICES ASSUME NEW m \in published, m.crawled_at = now PROVE FALSE
      OBVIOUS
    <3>1. store[now]["agents.json"] # None
      BY NoneAssumption DEF PublishedComplete, Complete
    <3>2. QED  BY <1>3, <3>1, ArtifactNames DEF StoreAgentsJson, NoFolder
  <2>5. store'[now]["agents.json"] = (crawler.found.agents # Absent)
    BY <1>3, <2>2, StoredFacts, ArtifactNames DEF StoreAgentsJson
  <2>6. QED  BY <1>3, <2>3, <2>4, <2>5 DEF UnderWay, StoreAgentsJson
<1>4. CASE StoreDirectory
  <2>1. crawler # NotCrawling /\ crawler.pc = "directory"
    BY <1>4 DEF StoreDirectory, NotCrawling
  <2>2. crawler \in Crawling /\ crawler.at \in Times
    BY <2>1, CrawlerTypes
  <2>3. /\ crawler'.pc = IF LlmsEnabled THEN "llms" ELSE "publish"
        /\ crawler'.at = crawler.at /\ crawler'.found = crawler.found
    BY <1>4, <2>2 DEF StoreDirectory, Crawling
  <2>4. store'[crawler.at]["web-bot-auth-directory"] = (crawler.found.directory # Absent)
    BY <1>4, <2>2, StoredFacts, ArtifactNames DEF StoreDirectory
  <2>5. store'[crawler.at]["agents.json"] = store[crawler.at]["agents.json"]
    BY <1>4, <2>2, StoredFacts, ArtifactNames DEF StoreDirectory
  <2>6. QED  BY <1>4, <2>1, <2>3, <2>4, <2>5 DEF UnderWay, StoreDirectory
<1>5. CASE StoreLlmsTxt
  <2>1. crawler # NotCrawling /\ crawler.pc = "llms"
    BY <1>5 DEF StoreLlmsTxt, NotCrawling
  <2>2. crawler \in Crawling /\ crawler.at \in Times
    BY <2>1, CrawlerTypes
  <2>3. /\ crawler'.pc = "publish"
        /\ crawler'.at = crawler.at /\ crawler'.found = crawler.found
    BY <1>5, <2>2 DEF StoreLlmsTxt, Crawling
  <2>4. store'[crawler.at]["llms.txt"] = crawler.found.llms
    BY <1>5, <2>2, StoredFacts, ArtifactNames DEF StoreLlmsTxt
  <2>5. /\ store'[crawler.at]["agents.json"] = store[crawler.at]["agents.json"]
        /\ store'[crawler.at]["web-bot-auth-directory"]
             = store[crawler.at]["web-bot-auth-directory"]
    BY <1>5, <2>2, StoredFacts, ArtifactNames DEF StoreLlmsTxt
  <2>6. QED  BY <1>5, <2>1, <2>3, <2>4, <2>5 DEF UnderWay, StoreLlmsTxt
<1>6. QED
  <2>1. CASE Tick \/ (\E b \in Updates : UpdateSite(b))
    BY <2>1, <1>1 DEF Tick, UpdateSite
  <2>2. CASE \E m \in published : ProcessMessage(m)
    BY <2>2, <1>1 DEF ProcessMessage
  <2>3. CASE UNCHANGED vars
    BY <2>3, <1>1 DEF vars
  <2>4. QED  BY <1>2, <1>3, <1>4, <1>5, <2>1, <2>2, <2>3 DEF Next

LEMMA NextRowParsed == IInv /\ [Next]_vars => RowParsed'
<1> SUFFICES ASSUME IInv, [Next]_vars PROVE RowParsed'
  OBVIOUS
<1> USE DEF IInv
<1>1. CASE UNCHANGED <<row, parsed>> /\ published \subseteq published'
  BY <1>1 DEF RowParsed
<1>2. ASSUME NEW m \in published, ProcessMessage(m) PROVE RowParsed'
  <2>1. /\ row'.last_crawled_at = m.crawled_at
        /\ parsed'.found = m.found /\ published' = published
    BY <1>2 DEF ProcessMessage
  <2>2. QED  BY <2>1 DEF RowParsed
<1>3. QED
  <2>1. CASE Tick \/ Fetch \/ AbortCrawl \/ (\E b \in Updates : UpdateSite(b))
    BY <2>1, <1>1 DEF Tick, Fetch, AbortCrawl, UpdateSite
  <2>2. CASE StoreAgentsJson \/ StoreDirectory \/ StoreLlmsTxt \/ PublishRawFetched
    BY <2>2, <1>1 DEF StoreAgentsJson, StoreDirectory, StoreLlmsTxt, PublishRawFetched
  <2>3. CASE UNCHANGED vars
    BY <2>3, <1>1 DEF vars
  <2>4. QED  BY <1>2, <2>1, <2>2, <2>3 DEF Next

-----------------------------------------------------------------------------
(* A key that is not valid is not valid later either.                      *)
LEMMA ExpiredForGood ==
  ASSUME NEW body, ~WebBotAuthRaises(body),
         NEW t \in Nat, NEW u \in Nat, t <= u, Valid(body, u)
  PROVE  Valid(body, t)
<1>1. Expiry(body) # None /\ 2 * Expiry(body) > u
  BY DEF Valid
<1>2. Expiry(body) \in Int
  BY <1>1, DatetimesAssumption DEF WebBotAuthRaises
<1>3. QED  BY <1>1, <1>2 DEF Valid

(* The same artifacts differ from their row by the validity of the key, if *)
(* their capabilities survive the database.                                *)
LEMMA OnlyValidityChanges ==
  ASSUME NEW b, NEW t, NEW u, CapabilitiesSurvive(b),
         DiffRecords(AsStored(Fields(b, t)), Fields(b, u)) # {}
  PROVE  Valid(b.directory, t) # Valid(b.directory, u)
<1> SUFFICES ASSUME Valid(b.directory, t) = Valid(b.directory, u) PROVE FALSE
  OBVIOUS
<1>1. Fields(b, t) = Fields(b, u)
  BY DEF Fields
<1>2. PICK f : f = Fields(b, u)
  OBVIOUS
<1>3. f.declared_capabilities = DeclaredCapabilities(b.agents)
  BY <1>2 DEF Fields
<1>4. \A g \in DIFF_FIELDS : AsStored(f)[g] = f[g]
  <2>1. Jsonb[f.declared_capabilities] = f.declared_capabilities
    BY <1>3 DEF CapabilitiesSurvive
  <2>2. AsStored(f) = [f EXCEPT !.declared_capabilities = f.declared_capabilities]
    BY <2>1 DEF AsStored
  <2>3. f = [g \in DOMAIN f |-> f[g]]
    BY <1>2 DEF Fields
  <2>4. QED  BY <2>2, <2>3
<1>5. QED  BY <1>1, <1>2, <1>4 DEF DiffRecords

LEMMA NextExpired == IInv /\ [Next]_vars => Expired'
<1> SUFFICES ASSUME IInv, [Next]_vars PROVE Expired'
  OBVIOUS
<1> USE DEF IInv
<1>1. CASE UNCHANGED <<now, row, parsed, repeats>>
  BY <1>1 DEF Expired
<1>2. CASE Tick
  BY <1>2, NumberTypes DEF Tick, Expired, TypeOK
<1>3. ASSUME NEW m \in published, ProcessMessage(m) PROVE Expired'
  <2> DEFINE same == m.found = parsed.found
  <2> DEFINE changed == row # NoRow /\ DiffRecords(row.fields, Fields(m.found, now)) # {}
  <2> DEFINE survive == CapabilitiesSurvive(m.found)
  <2>1. /\ parsed'.found = m.found /\ parsed'.at = now /\ now' = now
        /\ ~WebBotAuthRaises(m.found.directory)
        /\ ~same => repeats' = 0
        /\ same /\ changed => repeats' = IF repeats < 2 THEN repeats + 1 ELSE 2
        /\ same /\ ~changed => repeats' = repeats
    BY <1>3 DEF ProcessMessage, ParseTime, Raises
  <2>2. now \in Nat /\ parsed.at \in Nat /\ parsed.at <= now
    BY NumberTypes DEF TypeOK, Expired
  <2>3. same => \/ row = NoRow /\ repeats = 0
                \/ survive => /\ repeats \in {0, 1}
                              /\ repeats = 1 => ~Valid(m.found.directory, parsed.at)
    BY DEF Expired
  <2>4. ASSUME same, changed, survive
        PROVE  Valid(m.found.directory, parsed.at) /\ ~Valid(m.found.directory, now)
    <3>1. row.fields = AsStored(Fields(m.found, parsed.at))
      BY <2>4 DEF TypeOK
    <3>2. Valid(m.found.directory, parsed.at) # Valid(m.found.directory, now)
      BY <2>4, <3>1, OnlyValidityChanges
    <3>3. Valid(m.found.directory, now) => Valid(m.found.directory, parsed.at)
      BY <2>1, <2>2, ExpiredForGood
    <3>4. QED  BY <3>2, <3>3 DEF Valid
  <2>5. survive => /\ repeats' \in {0, 1}
                   /\ repeats' = 1 => ~Valid(m.found.directory, now)
    <3> HIDE DEF survive
    <3>1. CASE ~same
      BY <2>1, <3>1
    <3>2. CASE same /\ changed
      BY <2>1, <2>3, <2>4, <3>2
    <3>3. CASE same /\ ~changed
      <4>1. ~Valid(m.found.directory, parsed.at) => ~Valid(m.found.directory, now)
        BY <2>1, <2>2, ExpiredForGood
      <4>2. QED  BY <2>1, <2>3, <3>3, <4>1
    <3>4. QED  BY <3>1, <3>2, <3>3
  <2>6. row' # NoRow
    <3>1. row'.last_crawled_at = m.crawled_at /\ DOMAIN row' = {"first_seen_at", "last_crawled_at", "fields"}
      BY <1>3 DEF ProcessMessage
    <3>2. DOMAIN NoRow = {"first_seen_at"}
      BY DEF NoRow
    <3>3. QED  BY <3>1, <3>2
  <2>7. survive <=> CapabilitiesSurvive(parsed'.found)
    BY <2>1
  <2>8. QED  BY <2>1, <2>2, <2>5, <2>6, <2>7 DEF Expired, CapabilitiesSurvive
<1>4. QED
  <2>1. CASE Fetch \/ AbortCrawl \/ (\E b \in Updates : UpdateSite(b))
    BY <2>1, <1>1 DEF Fetch, AbortCrawl, UpdateSite
  <2>2. CASE StoreAgentsJson \/ StoreDirectory \/ StoreLlmsTxt \/ PublishRawFetched
    BY <2>2, <1>1 DEF StoreAgentsJson, StoreDirectory, StoreLlmsTxt, PublishRawFetched
  <2>3. CASE UNCHANGED vars
    BY <2>3, <1>1 DEF vars
  <2>4. QED  BY <1>2, <1>3, <2>1, <2>2, <2>3 DEF Next

-----------------------------------------------------------------------------
(* max() over the keys of a directory.                                     *)

(* In a finite set ordered by R there is an element that none is before.   *)
LEMMA UndominatedElement ==
  ASSUME NEW S, IsFiniteSet(S), S # {}, NEW R,
         \A x \in S : <<x, x>> \notin R,
         \A x, y, z \in S : <<x, y>> \in R /\ <<y, z>> \in R => <<x, z>> \in R
  PROVE  \E x \in S : \A y \in S : <<y, x>> \notin R
<1> DEFINE Before(x) == {y \in S : <<y, x>> \in R}
<1> DEFINE T == {Before(x) : x \in S}
<1> DEFINE Smaller == StrictSubsetOrdering(S)
<1>1. T \subseteq FiniteSubsetsOf(S)
  <2>1. \A x \in S : Before(x) \in SUBSET S
    OBVIOUS
  <2> HIDE DEF Before
  <2>2. \A x \in S : Before(x) \in FiniteSubsetsOf(S)
    BY <2>1, FS_Subset DEF FiniteSubsetsOf
  <2>3. QED  BY <2>2
<1>2. T # {}
  <2>1. PICK x \in S : TRUE
    OBVIOUS
  <2> HIDE DEF Before
  <2>2. Before(x) \in T
    OBVIOUS
  <2>3. QED  BY <2>2
<1>3. \E b \in T : \A c \in T : <<c, b>> \notin Smaller
  <2> HIDE DEF T, Smaller
  <2>1. IsWellFoundedOn(Smaller, FiniteSubsetsOf(S))
    BY FS_StrictSubsetOrderingWellFounded DEF Smaller
  <2>2. QED  BY <1>1, <1>2, <2>1, WFMin
<1>4. PICK x \in S : \A c \in T : <<c, Before(x)>> \notin Smaller
  BY <1>3
<1>5. ASSUME NEW y \in S, <<y, x>> \in R PROVE FALSE
  <2>1. Before(y) \subseteq Before(x) /\ Before(x) \subseteq S
    BY <1>5
  <2>2. y \in Before(x) /\ y \notin Before(y)
    BY <1>5
  <2>3. Before(y) \in T
    OBVIOUS
  <2> HIDE DEF Before, T
  <2>4. <<Before(y), Before(x)>> \in Smaller
    BY <2>1, <2>2 DEF StrictSubsetOrdering
  <2>5. QED  BY <1>4, <2>3, <2>4
<1>6. QED  BY <1>5

LEMMA JwksFacts ==
  ASSUME NEW body \in DirectoryBody, body.shape = "jwks"
  PROVE  /\ body.keys \in Seq(KeyEntry)
         /\ IsFiniteSet(KeyObjects(body))
         /\ \A i \in KeyObjects(body) : i \in Nat /\ body.keys[i].exp \in Int \cup {None}
<1>1. body.keys \in Seq(KeyEntry)
  BY DEF DirectoryBody, Broken
<1> DEFINE keys == body.keys
<1> HIDE DEF keys
<1>2. keys \in Seq(KeyEntry) /\ KeyObjects(body) = {i \in DOMAIN keys : keys[i].isObject}
  BY <1>1 DEF KeyObjects, keys
<1>3. DOMAIN keys = 1 .. Len(keys) /\ Len(keys) \in Nat
  BY <1>2
<1>4. IsFiniteSet(KeyObjects(body))
  <2>1. IsFiniteSet(1 .. Len(keys))
    BY <1>3, FS_Interval
  <2>2. KeyObjects(body) \in SUBSET (1 .. Len(keys))
    BY <1>2, <1>3
  <2>3. QED  BY <2>1, <2>2, FS_Subset
<1>5. \A i \in KeyObjects(body) : i \in Nat /\ keys[i].exp \in Int \cup {None}
  <2>1. \A i \in DOMAIN keys : keys[i] \in KeyEntry
    BY <1>2
  <2>2. \A k \in KeyEntry : k.exp \in Int \cup {None}
    <3> DEFINE Objects == [kid : Kids \cup {None}, exp : Int \cup {None}, isObject : {TRUE}]
    <3>1. Junk.exp = None
      BY DEF Junk
    <3>2. \A k \in Objects : k.exp \in Int \cup {None}
      OBVIOUS
    <3>3. KeyEntry = {Junk} \cup Objects
      BY Zenon DEF KeyEntry
    <3> HIDE DEF Objects
    <3>4. QED  BY <3>1, <3>2, <3>3
  <2>3. QED  BY <1>2, <1>3, <2>1, <2>2
<1>6. QED  BY <1>1, <1>4, <1>5 DEF keys

(* The key that is chosen is one of the directory's, and none expires      *)
(* later.                                                                  *)
LEMMA ChosenIsLatest ==
  ASSUME NEW body \in DirectoryBody, body.shape = "jwks", KeyObjects(body) # {}
  PROVE  \E i \in KeyObjects(body) :
           /\ Chosen(body) = body.keys[i]
           /\ \A j \in KeyObjects(body) : ~Sooner(body.keys[i].exp, body.keys[j].exp)
<1> DEFINE K == KeyObjects(body)
<1> DEFINE exp(i) == body.keys[i].exp
<1> DEFINE Preferred(i, j) == \/ Sooner(exp(j), exp(i))
                              \/ ~Sooner(exp(i), exp(j)) /\ i < j
<1> DEFINE R == {p \in K \X K : Preferred(p[1], p[2])}
<1> DEFINE Pick(i) == \A j \in K : /\ ~Sooner(exp(i), exp(j))
                                   /\ j < i => Sooner(exp(j), exp(i))
<1>1. /\ IsFiniteSet(K)
      /\ \A i \in K : i \in Nat /\ exp(i) \in Int \cup {None}
  BY JwksFacts
<1>2. None \notin Int
  BY NoneAssumption
<1>3. \E i \in K : Pick(i)
  <2> HIDE DEF K, exp
  <2>1. \A i, j \in K : <<i, j>> \in R <=> Preferred(i, j)
    OBVIOUS
  <2>2. \A i \in K : <<i, i>> \notin R
    BY <1>1, <1>2, <2>1 DEF Sooner
  <2>3. \A i, j, k \in K : <<i, j>> \in R /\ <<j, k>> \in R => <<i, k>> \in R
    <3> SUFFICES ASSUME NEW i \in K, NEW j \in K, NEW k \in K,
                        Preferred(i, j), Preferred(j, k)
                 PROVE  Preferred(i, k)
      BY <2>1
    <3>1. /\ i \in Nat /\ j \in Nat /\ k \in Nat
          /\ exp(i) \in Int \cup {None} /\ exp(j) \in Int \cup {None}
          /\ exp(k) \in Int \cup {None}
      BY <1>1
    <3>2. QED  BY <1>2, <3>1 DEF Sooner
  <2> HIDE DEF R
  <2>4. PICK i \in K : \A j \in K : <<j, i>> \notin R
    BY <1>1, <2>2, <2>3, UndominatedElement DEF K
  <2>5. \A j \in K : ~Preferred(j, i)
    BY <2>1, <2>4
  <2>6. QED  BY <1>1, <2>5
<1> DEFINE c == CHOOSE i \in K : Pick(i)
<1>4. c \in K /\ Pick(c)
  BY <1>3
<1>5. Chosen(body) = body.keys[c]
  BY DEF Chosen
<1> HIDE DEF c
<1>6. QED  BY <1>4, <1>5

(* What the directory's expiry says of its keys. *)
LEMMA ExpiryFacts ==
  ASSUME NEW body \in DirectoryBody \cup {Absent}
  PROVE  /\ Expiries(body) \subseteq Int
         /\ Expiries(body) = {} <=> Expiry(body) = None
         /\ \A e \in Expiries(body) : e <= Expiry(body)
         /\ Expiries(body) # {} => Expiry(body) \in Expiries(body)
<1> DEFINE K == KeyObjects(body)
<1>1. CASE body = Absent \/ body.shape # "jwks"
  <2>1. Expiries(body) = {}
    BY <1>1 DEF Expiries
  <2>2. Expiry(body) = None
    <3>1. CASE body = Absent
      BY <3>1 DEF Expiry, Usable
    <3>2. CASE body # Absent /\ body.shape # "jwks"
      <4>1. body.shape \in Reasons
        BY <3>2 DEF DirectoryBody, Reasons
      <4>2. WebBotAuthReason(body) = body.shape
        BY <3>2 DEF WebBotAuthReason
      <4>3. QED  BY <4>1, <4>2, ReasonsAssumption DEF Expiry, Usable
    <3>3. QED  BY <1>1, <3>1, <3>2
  <2>3. QED  BY <2>1, <2>2
<1>2. CASE body # Absent /\ body.shape = "jwks" /\ K = {}
  <2>1. Expiries(body) = {}
    BY <1>2 DEF Expiries
  <2>2. WebBotAuthReason(body) \in Reasons
    BY <1>2 DEF WebBotAuthReason, Reasons
  <2>3. Expiry(body) = None
    BY <2>2, ReasonsAssumption DEF Expiry, Usable
  <2>4. QED  BY <2>1, <2>3
<1>3. CASE body # Absent /\ body.shape = "jwks" /\ K # {}
  <2> DEFINE exp(i) == body.keys[i].exp
  <2>1. body \in DirectoryBody
    BY <1>3
  <2>2. \A i \in K : exp(i) \in Int \cup {None}
    BY <1>3, <2>1, JwksFacts
  <2>3. PICK i \in K : /\ Chosen(body) = body.keys[i]
                       /\ \A j \in K : ~Sooner(exp(i), exp(j))
    BY <1>3, <2>1, ChosenIsLatest
  <2>4. Expiry(body) = exp(i)
    <3>1. body.keys # <<>>
      BY <2>3 DEF KeyObjects
    <3>2. WebBotAuthReason(body) = None
      BY <1>3, <3>1 DEF WebBotAuthReason
    <3>3. QED  BY <1>3, <2>3, <3>2 DEF Expiry, Usable
  <2>5. Expiries(body) = {exp(j) : j \in K} \ {None}
    BY <1>3 DEF Expiries
  <2>6. None \notin Int
    BY NoneAssumption
  <2> HIDE DEF K, exp
  <2>7. QED  BY <2>2, <2>3, <2>4, <2>5, <2>6 DEF Sooner
<1>4. QED  BY <1>1, <1>2, <1>3

-----------------------------------------------------------------------------
LEMMA Inductive == Spec => []IInv
<1>1. IInv /\ [Next]_vars => IInv'
  BY NextTypes, NextPublished, NextUnderWay, NextRowParsed, NextExpired DEF IInv
<1>2. QED  BY InitIInv, <1>1, PTL DEF Spec

(* The confidence flags of a row agree with the rest of it, whatever the   *)
(* site served: compute_confidence_flags with what the parsers return.     *)
THEOREM FlagsTell == Spec => []FlagsTellTheRecord
<1>1. IInv => FlagsTellTheRecord
  <2> SUFFICES ASSUME IInv, row # NoRow PROVE FieldsTell(row.fields)
    BY DEF FlagsTellTheRecord, FieldsTell
  <2>1. PICK m \in published : m.found = parsed.found
    BY DEF IInv, RowParsed
  <2>2. parsed.found \in Bundle /\ row.fields = AsStored(Fields(parsed.found, parsed.at))
    BY <2>1 DEF IInv, TypeOK
  <2>3. QED  BY <2>2, StoredFieldsTell
<1>2. QED  BY Inductive, <1>1, PTL

(* The row's crawl is stored whole: crawler-service publishes after the    *)
(* last artifact, and no other crawl writes into its folder.               *)
THEOREM SnapshotMatches == Spec => []SnapshotMatchesRow
<1>1. IInv => SnapshotMatchesRow
  <2> SUFFICES ASSUME IInv, row # NoRow PROVE SnapshotMatchesRow
    BY DEF SnapshotMatchesRow
  <2>1. PICK m \in published : /\ m.crawled_at = row.last_crawled_at
                               /\ m.found = parsed.found
    BY DEF IInv, RowParsed
  <2>2. Complete(row.last_crawled_at, parsed.found)
    BY <2>1 DEF IInv, PublishedComplete
  <2>3. /\ row.fields.agent_json_present = (parsed.found.agents # Absent)
        /\ row.fields.web_bot_auth_present = (parsed.found.directory # Absent)
        /\ row.fields.llms_txt_present = parsed.found.llms
    BY <2>1, StoredFields DEF IInv, TypeOK
  <2>4. QED  BY <2>2, <2>3 DEF Complete, SnapshotMatchesRow
<1>2. QED  BY Inductive, <1>1, PTL

(* However often and in whatever order crawls that found the same are      *)
(* parsed, at most one of them announces a change, provided the database   *)
(* gives their capabilities back as they were: keys expire once.           *)
THEOREM SteadySite == Spec => []SteadySiteOneChange
<1>1. IInv => SteadySiteOneChange
  BY DEF IInv, Expired, SteadySiteOneChange
<1>2. QED  BY Inductive, <1>1, PTL

(* A row says that the domain's key is valid exactly if one of the keys of *)
(* its directory was live when it was parsed, and has the last expiry of   *)
(* them, however many keys there are and in whatever order: the max() of   *)
(* parse_web_bot_auth.                                                     *)
THEOREM LiveKey == Spec => []ValidMeansLiveKey
<1>1. IInv => ValidMeansLiveKey
  <2> DEFINE body == parsed.found.directory
  <2> SUFFICES ASSUME IInv, row # NoRow
               PROVE  LET expiries == Expiries(body)
                      IN /\ row.fields.web_bot_auth_valid
                              <=> \E e \in expiries : 2 * e > parsed.at
                         /\ expiries = {} <=> row.fields.web_bot_auth_expiry = None
                         /\ \A e \in expiries : e <= row.fields.web_bot_auth_expiry
                         /\ expiries # {} => row.fields.web_bot_auth_expiry \in expiries
    BY DEF ValidMeansLiveKey
  <2>1. PICK m \in published : m.found = parsed.found
    BY DEF IInv, RowParsed
  <2>2. body \in DirectoryBody \cup {Absent}
    BY <2>1 DEF IInv, TypeOK, Bundle
  <2>3. /\ row.fields.web_bot_auth_valid = Valid(body, parsed.at)
        /\ row.fields.web_bot_auth_expiry = Expiry(body)
    BY <2>1, StoredFields DEF IInv, TypeOK
  <2>4. parsed.at \in Nat
    BY DEF IInv, Expired
  <2> HIDE DEF body
  <2>5. Valid(body, parsed.at) <=> \E e \in Expiries(body) : 2 * e > parsed.at
    BY <2>2, <2>4, ExpiryFacts DEF Valid
  <2>6. QED  BY <2>2, <2>3, <2>5, ExpiryFacts
<1>2. QED  BY Inductive, <1>1, PTL

-----------------------------------------------------------------------------
(* The history.                                                            *)

(* What decides the order of two timestamps as strings is their order in   *)
(* time, the fraction that isoformat() leaves out included.                *)
LEMMA SortsInTime ==
  ASSUME NEW t \in Nat, NEW u \in Nat
  PROVE  SortsBefore(t, u) <=> t < u
<1>1. /\ Isoformat(t)[1] = t \div 2 /\ Isoformat(u)[1] = u \div 2
      /\ Isoformat(t)[2] = IF t % 2 = 0 THEN 43 ELSE 46
      /\ Isoformat(u)[2] = IF u % 2 = 0 THEN 43 ELSE 46
  BY DEF Isoformat
<1>2. \A v \in Nat : v \div 2 \in Nat /\ v % 2 \in 0 .. 1 /\ v = 2 * (v \div 2) + (v % 2)
  OBVIOUS
<1> DEFINE a == t \div 2  b == u \div 2  c == t % 2  d == u % 2
<1>3. /\ a \in Nat /\ b \in Nat /\ c \in 0 .. 1 /\ d \in 0 .. 1
      /\ t = 2 * a + c /\ u = 2 * b + d
  BY <1>2
<1>4. SortsBefore(t, u) <=> a < b \/ (a = b /\ c < d)
  BY <1>1, <1>3 DEF SortsBefore
<1> HIDE DEF a, b, c, d
<1>5. QED  BY <1>3, <1>4

(* The number of elements up to each enumerates a finite set in order.     *)
LEMMA RankFacts ==
  ASSUME NEW S \in SUBSET Nat, IsFiniteSet(S)
  PROVE  \E rank \in [S -> 1 .. Cardinality(S)] :
           /\ \A t, u \in S : t < u => rank[t] < rank[u]
           /\ \A i \in 1 .. Cardinality(S) : \E t \in S : rank[t] = i
<1> DEFINE n == Cardinality(S)
<1> DEFINE UpTo(t) == {u \in S : u <= t}
<1> DEFINE rank == [t \in S |-> Cardinality(UpTo(t))]
<1>1. \A t \in S : UpTo(t) \in SUBSET S /\ t \in UpTo(t)
  OBVIOUS
<1>2. ASSUME NEW t \in S, NEW u \in S, t < u
      PROVE  UpTo(t) \in SUBSET UpTo(u) /\ u \notin UpTo(t)
  <2>1. t \in Nat /\ u \in Nat /\ \A v \in S : v \in Nat
    OBVIOUS
  <2>2. \A v \in S : v <= t => v <= u
    BY <1>2, <2>1
  <2>3. ~(u <= t)
    BY <1>2, <2>1
  <2>4. QED  BY <2>2, <2>3
<1>3. \A t \in S : rank[t] = Cardinality(UpTo(t))
  OBVIOUS
<1>4. n \in Nat
  BY FS_CardinalityType
<1> HIDE DEF UpTo
<1>5. \A t \in S : IsFiniteSet(UpTo(t)) /\ Cardinality(UpTo(t)) <= n
  BY <1>1, FS_Subset
<1>6. \A t \in S : Cardinality(UpTo(t)) \in Nat \ {0}
  BY <1>1, <1>5, FS_CardinalityType, FS_EmptySet
<1>7. rank \in [S -> 1 .. n]
  BY <1>4, <1>5, <1>6
<1> HIDE DEF rank, n
<1>8. \A t, u \in S : t < u => rank[t] < rank[u]
  <2> SUFFICES ASSUME NEW t \in S, NEW u \in S, t < u PROVE rank[t] < rank[u]
    OBVIOUS
  <2>1. UpTo(t) \in SUBSET UpTo(u) /\ UpTo(t) # UpTo(u)
    BY <1>1, <1>2
  <2>2. /\ Cardinality(UpTo(t)) <= Cardinality(UpTo(u))
        /\ Cardinality(UpTo(t)) # Cardinality(UpTo(u))
    BY <1>5, <2>1, FS_Subset
  <2>3. QED  BY <1>3, <1>6, <2>2
<1>9. rank \in Injection(S, 1 .. n)
  <2>1. \A t, u \in S : rank[t] = rank[u] => t = u
    <3> SUFFICES ASSUME NEW t \in S, NEW u \in S, rank[t] = rank[u] PROVE t = u
      OBVIOUS
    <3>1. t \in Nat /\ u \in Nat /\ rank[t] \in 1 .. n /\ rank[u] \in 1 .. n
      BY <1>7
    <3>2. ~(t < u) /\ ~(u < t)
      BY <1>4, <1>8, <3>1
    <3>3. QED  BY <3>1, <3>2
  <2>2. QED  BY <1>7, <2>1 DEF Injection, IsInjective
<1>10. rank \in Surjection(S, 1 .. n)
  <2>1. IsFiniteSet(1 .. n) /\ Cardinality(1 .. n) = n
    BY <1>4, FS_Interval
  <2>2. QED  BY <1>9, <2>1, FS_Injection DEF n
<1>11. \A i \in 1 .. n : \E t \in S : rank[t] = i
  BY <1>10 DEF Surjection
<1>12. QED  BY <1>7, <1>8, <1>11 DEF n

(* L lists the n elements of S in ascending order. *)
Enumerates(L, n, S) ==
  /\ L \in [1 .. n -> S]
  /\ \A i, j \in 1 .. n : i < j => L[i] < L[j]
  /\ \A t \in S : \E i \in 1 .. n : L[i] = t

LEMMA AscendingFacts ==
  ASSUME NEW S \in SUBSET Nat, IsFiniteSet(S)
  PROVE  Enumerates(Ascending(S), Cardinality(S), S)
<1> DEFINE n == Cardinality(S)
<1> DEFINE Sorted(f) == \A i, j \in DOMAIN f : i < j => SortsBefore(f[i], f[j])
<1>1. n \in Nat
  BY FS_CardinalityType
<1>2. PICK rank \in [S -> 1 .. n] :
        /\ \A t, u \in S : t < u => rank[t] < rank[u]
        /\ \A i \in 1 .. n : \E t \in S : rank[t] = i
  BY RankFacts
<1> DEFINE f == [i \in 1 .. n |-> CHOOSE t \in S : rank[t] = i]
<1>3. \A i \in 1 .. n : f[i] \in S /\ rank[f[i]] = i
  BY <1>2
<1>4. f \in [1 .. n -> S]
  BY <1>3
<1>5. Sorted(f)
  <2> HIDE DEF f, n
  <2> SUFFICES ASSUME NEW i \in 1 .. n, NEW j \in 1 .. n, i < j
               PROVE  SortsBefore(f[i], f[j])
    BY <1>4
  <2>1. f[i] \in Nat /\ f[j] \in Nat /\ f[i] \in S /\ f[j] \in S
    BY <1>3
  <2>2. ~(f[j] < f[i]) /\ f[i] # f[j]
    BY <1>1, <1>2, <1>3, <2>1
  <2>3. QED  BY <2>1, <2>2, SortsInTime
<1> DEFINE L == CHOOSE g \in [1 .. n -> S] : Sorted(g)
<1>6. L \in [1 .. n -> S] /\ Sorted(L)
  <2> HIDE DEF f, Sorted
  <2>1. QED  BY <1>4, <1>5
<1>7. Ascending(S) = L
  BY DEF Ascending
<1> HIDE DEF L
<1>8. \A i, j \in 1 .. n : i < j => L[i] < L[j]
  <2> SUFFICES ASSUME NEW i \in 1 .. n, NEW j \in 1 .. n, i < j PROVE L[i] < L[j]
    OBVIOUS
  <2>1. L[i] \in Nat /\ L[j] \in Nat /\ SortsBefore(L[i], L[j])
    BY <1>6
  <2>2. QED  BY <2>1, SortsInTime
<1> HIDE DEF n
<1>9. L \in Injection(1 .. n, S)
  <2>1. \A i, j \in 1 .. n : L[i] = L[j] => i = j
    <3> SUFFICES ASSUME NEW i \in 1 .. n, NEW j \in 1 .. n, L[i] = L[j] PROVE i = j
      OBVIOUS
    <3>1. L[i] \in Nat /\ L[j] \in Nat
      BY <1>6
    <3>2. ~(i < j) /\ ~(j < i)
      BY <1>8, <3>1
    <3>3. QED  BY <1>1, <3>2
  <2>2. QED  BY <1>6, <2>1 DEF Injection, IsInjective
<1>10. L \in Surjection(1 .. n, S)
  <2>1. Cardinality(1 .. n) = Cardinality(S)
    BY <1>1, FS_Interval DEF n
  <2>2. QED  BY <1>9, <2>1, FS_Injection
<1>11. \A t \in S : \E i \in 1 .. n : L[i] = t
  BY <1>10 DEF Surjection
<1>12. QED  BY <1>6, <1>7, <1>8, <1>11 DEF n, Enumerates

LEMMA AtMostFacts ==
  ASSUME NEW T, NEW seq \in Seq(T), NEW k \in Nat
  PROVE  /\ AtMost(k, seq) \in Seq(T)
         /\ Len(AtMost(k, seq)) = IF k < Len(seq) THEN k ELSE Len(seq)
         /\ \A i \in 1 .. Len(AtMost(k, seq)) : AtMost(k, seq)[i] = seq[i]
BY DEF AtMost

LEMMA ReverseFacts ==
  ASSUME NEW T, NEW seq \in Seq(T)
  PROVE  /\ Reverse(seq) \in Seq(T)
         /\ Len(Reverse(seq)) = Len(seq)
         /\ \A i \in 1 .. Len(seq) : Reverse(seq)[i] = seq[Len(seq) - i + 1]
BY DEF Reverse

(* The timestamps a history is made of are the last ones of the listing,   *)
(* in reverse.                                                             *)
LEMMA MostRecentFacts ==
  ASSUME NEW limit \in Nat, Cardinality(Folders) \in Nat,
         Ascending(Folders) \in [1 .. Cardinality(Folders) -> Folders]
  PROVE  \E k, h \in Nat :
           /\ k = IF ListCap < Cardinality(Folders) THEN ListCap ELSE Cardinality(Folders)
           /\ h = IF limit < k THEN limit ELSE k
           /\ MostRecentFirst(limit) \in Seq(Folders)
           /\ Len(MostRecentFirst(limit)) = h
           /\ \A i \in 1 .. h : MostRecentFirst(limit)[i] = Ascending(Folders)[k - i + 1]
<1> DEFINE n == Cardinality(Folders)
<1> DEFINE F == Folders
<1> DEFINE L == Ascending(F)
<1>1. PICK S : S = F
  OBVIOUS
<1>2. L \in Seq(S) /\ Len(L) = n
  <2>1. n \in Nat /\ L \in [1 .. n -> S]
    BY <1>1
  <2> HIDE DEF n, L
  <2>2. QED  BY <2>1
<1> HIDE DEF n, F, L
<1> DEFINE A == AtMost(ListCap, L)
<1>3. ListCap \in Nat
  BY NumbersAssumption
<1>4. /\ A \in Seq(S)
      /\ Len(A) = IF ListCap < n THEN ListCap ELSE n
      /\ \A i \in 1 .. Len(A) : A[i] = L[i]
  BY <1>2, <1>3, AtMostFacts
<1>5. ListCrawlTimestamps = A
  BY DEF ListCrawlTimestamps, L, F
<1> HIDE DEF A
<1> DEFINE R == Reverse(A)
<1>6. /\ R \in Seq(S) /\ Len(R) = Len(A)
      /\ \A i \in 1 .. Len(A) : R[i] = A[Len(A) - i + 1]
  BY <1>4, ReverseFacts
<1>7. MostRecentFirst(limit) = AtMost(limit, R)
  BY <1>5 DEF MostRecentFirst
<1> HIDE DEF R
<1> DEFINE M == AtMost(limit, R)
<1>8. /\ M \in Seq(S)
      /\ Len(M) = IF limit < Len(R) THEN limit ELSE Len(R)
      /\ \A i \in 1 .. Len(M) : M[i] = R[i]
  BY <1>6, AtMostFacts
<1> HIDE DEF M
<1>9. PICK k \in Nat, h \in Nat : k = Len(A) /\ h = Len(M)
  BY <1>4, <1>8
<1>10. \A i \in 1 .. h : M[i] = L[k - i + 1]
  <2> SUFFICES ASSUME NEW i \in 1 .. h PROVE M[i] = L[k - i + 1]
    OBVIOUS
  <2>1. h <= k /\ Len(R) = k
    BY <1>6, <1>8, <1>9
  <2>2. M[i] = R[i]
    BY <1>8, <1>9
  <2>3. R[i] = A[k - i + 1]
    BY <1>6, <1>9, <2>1
  <2>4. k - i + 1 \in 1 .. Len(A)
    BY <1>9, <2>1
  <2>5. QED  BY <1>4, <2>2, <2>3, <2>4
<1>11. h = IF limit < k THEN limit ELSE k
  BY <1>6, <1>8, <1>9
<1>12. k = IF ListCap < n THEN ListCap ELSE n
  BY <1>4, <1>9
<1>13. MostRecentFirst(limit) = M
  BY <1>7 DEF M
<1>14. QED  BY <1>1, <1>8, <1>9, <1>10, <1>11, <1>12, <1>13 DEF n, F, L

(* The last h of the first k members of L. *)
LastOf(L, k, h) == {L[k - i + 1] : i \in 1 .. h}

LEMMA LastOnes ==
  ASSUME NEW F \in SUBSET Nat, NEW n \in Nat, NEW L, Enumerates(L, n, F),
         NEW k \in 0 .. n, NEW h \in 0 .. k
  PROVE  /\ \A i, j \in 1 .. h : i < j => L[k - i + 1] > L[k - j + 1]
         /\ LastOf(L, k, h) \subseteq F
         /\ k = n => /\ LastOf(L, k, h) # F => h < n
                     /\ \A t \in LastOf(L, k, h), u \in F \ LastOf(L, k, h) : u < t
<1> DEFINE shown == LastOf(L, k, h)
<1>1. /\ L \in [1 .. n -> F]
      /\ \A i, j \in 1 .. n : i < j => L[i] < L[j]
      /\ \A t \in F : \E i \in 1 .. n : L[i] = t
  BY DEF Enumerates
<1>2. \A t : t \in shown <=> \E i \in 1 .. h : t = L[k - i + 1]
  BY DEF LastOf
<1> HIDE DEF shown
<1>3. \A i \in 1 .. h : k - i + 1 \in 1 .. n
  OBVIOUS
<1>4. \A i, j \in 1 .. h : i < j => L[k - i + 1] > L[k - j + 1]
  <2> SUFFICES ASSUME NEW i \in 1 .. h, NEW j \in 1 .. h, i < j
               PROVE  L[k - i + 1] > L[k - j + 1]
    OBVIOUS
  <2>1. k - j + 1 < k - i + 1 /\ k - j + 1 \in 1 .. n /\ k - i + 1 \in 1 .. n
    OBVIOUS
  <2>2. L[k - j + 1] < L[k - i + 1] /\ L[k - j + 1] \in Nat /\ L[k - i + 1] \in Nat
    BY <1>1, <2>1
  <2>3. QED  BY <2>2
<1>5. shown \subseteq F
  BY <1>3, <1>1, <1>2
<1>6. ASSUME k = n
      PROVE  /\ shown # F => h < n
             /\ \A t \in shown, u \in F \ shown : u < t
  <2>1. \A i \in 1 .. n : i > n - h => L[i] \in shown
    <3> SUFFICES ASSUME NEW i \in 1 .. n, i > n - h PROVE L[i] \in shown
      OBVIOUS
    <3> DEFINE j == n - i + 1
    <3>1. j \in 1 .. h /\ k - j + 1 = i
      BY <1>6
    <3> HIDE DEF j
    <3>2. QED  BY <1>2, <3>1
  <2>2. shown # F => h < n
    <3> SUFFICES ASSUME ~(h < n) PROVE F \subseteq shown
      BY <1>5
    <3>1. h = n
      BY <1>6
    <3>2. \A i \in 1 .. n : L[i] \in shown
      BY <2>1, <3>1
    <3>3. QED  BY <1>1, <3>2
  <2>3. ASSUME NEW t \in shown, NEW u \in F \ shown PROVE u < t
    <3>1. PICK i \in 1 .. h : t = L[n - i + 1]
      BY <1>6, <1>2
    <3>2. PICK j \in 1 .. n : u = L[j]
      BY <1>1
    <3>3. j <= n - h
      BY <2>1, <3>2
    <3>4. n - i + 1 \in 1 .. n /\ j < n - i + 1
      BY <1>6, <3>3
    <3>5. QED  BY <1>1, <3>1, <3>2, <3>4
  <2>4. QED  BY <2>2, <2>3
<1>7. QED  BY <1>4, <1>5, <1>6 DEF shown

(* The history is the newest crawls, newest first, whatever folders there  *)
(* are: list_domain_history.                                               *)
THEOREM NewestFirst == Spec => []HistoryNewestFirst
<1>1. HistoryNewestFirst
  <2>1. Folders \in SUBSET Nat /\ IsFiniteSet(Folders)
    <3>1. IsFiniteSet(Times) /\ Times \in SUBSET Nat
      BY NumberTypes, FS_Interval
    <3>2. Folders \in SUBSET Times
      BY DEF Folders
    <3>3. QED  BY <3>1, <3>2, FS_Subset
  <2>2. Cardinality(Folders) \in Nat
    BY <2>1, FS_CardinalityType
  <2>3. PICK F \in SUBSET Nat : F = Folders
    BY <2>1
  <2>4. PICK n \in Nat : n = Cardinality(Folders)
    BY <2>2
  <2>5. PICK L : L = Ascending(Folders)
    OBVIOUS
  <2>6. Enumerates(L, n, F)
    BY <2>1, <2>3, <2>4, <2>5, AscendingFacts
  <2>7. ListCap \in Nat /\ Limits \subseteq Nat
    BY NumbersAssumption
  <2> SUFFICES ASSUME NEW limit \in Limits
               PROVE  LET history == DomainHistory(limit)
                          shown == {history[i].crawled_at : i \in DOMAIN history}
                      IN /\ \A i, j \in DOMAIN history :
                              i < j => history[i].crawled_at > history[j].crawled_at
                         /\ shown \subseteq F
                         /\ n <= ListCap =>
                              /\ shown # F => Len(history) = limit
                              /\ \A t \in shown, u \in F \ shown : u < t
    BY <2>3, <2>4 DEF HistoryNewestFirst
  <2>8. PICK k \in Nat, h \in Nat :
          /\ k = IF ListCap < n THEN ListCap ELSE n
          /\ h = IF limit < k THEN limit ELSE k
          /\ MostRecentFirst(limit) \in Seq(F) /\ Len(MostRecentFirst(limit)) = h
          /\ \A i \in 1 .. h : MostRecentFirst(limit)[i] = L[k - i + 1]
    <3>1. limit \in Nat
      BY <2>7
    <3>2. \E k, h \in Nat :
            /\ k = IF ListCap < Cardinality(Folders) THEN ListCap ELSE Cardinality(Folders)
            /\ h = IF limit < k THEN limit ELSE k
            /\ MostRecentFirst(limit) \in Seq(Folders)
            /\ Len(MostRecentFirst(limit)) = h
            /\ \A i \in 1 .. h : MostRecentFirst(limit)[i] = Ascending(Folders)[k - i + 1]
      <4>1. Ascending(Folders) \in [1 .. Cardinality(Folders) -> Folders]
        BY <2>1, AscendingFacts DEF Enumerates
      <4>2. QED  BY <2>2, <3>1, <4>1, MostRecentFacts
    <3>3. QED  BY <2>3, <2>4, <2>5, <3>2
  <2> DEFINE M == MostRecentFirst(limit)
  <2> DEFINE history == DomainHistory(limit)
  <2> DEFINE shown == {history[i].crawled_at : i \in DOMAIN history}
  <2>9. /\ DOMAIN history = 1 .. h /\ Len(history) = h
        /\ \A i \in 1 .. h : history[i].crawled_at = L[k - i + 1]
    <3>1. DOMAIN M = 1 .. h
      BY <2>8
    <3> HIDE DEF M
    <3>2. history = [i \in DOMAIN M |->
                      [crawled_at   |-> M[i],
                       agents_json  |-> ArtifactSummary(M[i], "agents.json"),
                       web_bot_auth |-> ArtifactSummary(M[i], "web-bot-auth-directory")]]
      BY DEF DomainHistory, M
    <3> HIDE DEF history
    <3>3. DOMAIN history = 1 .. h /\ \A i \in 1 .. h : history[i].crawled_at = M[i]
      BY <3>1, <3>2
    <3>4. Len(history) = h
      BY <3>1, <3>2
    <3>5. QED  BY <2>8, <3>3, <3>4 DEF M
  <2>10. shown = LastOf(L, k, h)
    <3> HIDE DEF history
    <3>1. \A i \in 1 .. h : history[i].crawled_at = L[k - i + 1]
      BY <2>9
    <3>2. shown = {history[i].crawled_at : i \in 1 .. h}
      BY <2>9
    <3>3. QED  BY <3>1, <3>2 DEF LastOf
  <2> HIDE DEF history, shown
  <2>11. limit \in Nat /\ k \in 0 .. n /\ h \in 0 .. k
    BY <2>7, <2>8
  <2>12. /\ \A i, j \in 1 .. h : i < j => L[k - i + 1] > L[k - j + 1]
         /\ shown \subseteq F
         /\ k = n => /\ shown # F => h < n
                     /\ \A t \in shown, u \in F \ shown : u < t
    BY <2>6, <2>10, <2>11, LastOnes
  <2>13. n <= ListCap => k = n
    BY <2>7, <2>8
  <2>14. h < k => h = limit
    BY <2>8, <2>11
  <2>15. QED  BY <2>9, <2>12, <2>13, <2>14 DEF history, shown
<1>2. QED  BY <1>1, PTL
=============================================================================
