------------------------------ MODULE Signals ------------------------------
(***************************************************************************)
(* What parser-service reads out of one crawl: agents.json                 *)
(* (parser/manifest.py), the Web Bot Auth directory (parser/webbotauth.py) *)
(* and llms.txt, the confidence flags (parser/confidence.py) and the       *)
(* fields of the domain's record (parser/normalize.py).                    *)
(*                                                                         *)
(* The body of an artifact is the SHAPE that the parsers tell apart, with  *)
(* the parts of it that reach the record.  Absent stands for an answer     *)
(* other than 200, or none.                                                *)
(***************************************************************************)
EXTENDS Integers, Sequences

CONSTANTS
  None,          \* JSON null, a missing field, SQL NULL
  Absent,        \* an artifact that is not present
  Kids,          \* key ids
  Capabilities,  \* JSON objects a manifest may hold
  Empty,         \* the empty one of them
  Unstorable,    \* key ids and objects Postgres refuses: they hold NaN or \u0000
  Jsonb,         \* Jsonb[c]: what psycopg2 reads back after c was stored as jsonb
  Datetimes      \* the seconds that a datetime can hold

ASSUME NoneAssumption == None \notin Kids \cup Capabilities \cup Int \cup BOOLEAN
ASSUME AbsentAssumption == Absent # None
ASSUME CapabilitiesAssumption ==
  Empty \in Capabilities /\ Unstorable \subseteq (Kids \cup Capabilities) \ {Empty}
(* Jsonb keeps numbers as decimals: a float like 1e23 comes back as an     *)
(* integer that is not equal to it.                                        *)
ASSUME JsonbAssumption ==
  Jsonb \in [Capabilities -> Capabilities] /\ Jsonb[Empty] = Empty
ASSUME DatetimesAssumption == Datetimes \subseteq Int

(* "too_nested" is JSON that json.loads gives up on with RecursionError.   *)
Broken == {"undecodable", "unparseable", "not_object", "too_nested"}

AgentsBody == [shape : Broken] \cup [shape : {"object"}, capabilities : Capabilities]

(* An entry of "keys" that is no object, or one with its kid and exp.      *)
Junk == [kid |-> None, exp |-> None, isObject |-> FALSE]
KeyEntry == {Junk} \cup [kid : Kids \cup {None}, exp : Int \cup {None}, isObject : {TRUE}]

(* "no_keys": "keys" is missing or no list.                                *)
DirectoryBody ==
  [shape : Broken \cup {"no_keys"}] \cup [shape : {"jwks"}, keys : Seq(KeyEntry)]

(* The malformed reasons. *)
Reasons == Broken \cup {"no_keys", "no_key_objects"}

ASSUME ReasonsAssumption == None \notin Reasons

(* What one crawl of a site finds. *)
Bundle == [agents : AgentsBody \cup {Absent}, directory : DirectoryBody \cup {Absent},
           llms : BOOLEAN]

-----------------------------------------------------------------------------
(* parse_agents_json.  RecursionError is not caught.                       *)
ManifestRaises(body) == body # Absent /\ body.shape = "too_nested"

ManifestReason(body) ==
  IF body = Absent \/ body.shape = "object" THEN None ELSE body.shape

DeclaredCapabilities(body) ==
  IF body # Absent /\ body.shape = "object" THEN body.capabilities ELSE Empty

-----------------------------------------------------------------------------
KeyObjects(body) == {i \in DOMAIN body.keys : body.keys[i].isObject}

(* Mutant: a key without exp is preferred to those that have one. *)
SoonerForever(exp1, exp2) == exp1 # None /\ (exp2 = None \/ exp1 < exp2)

(* _key_sort_value: a key without exp comes before every other.            *)
Sooner(exp1, exp2) == exp2 # None /\ (exp1 = None \/ exp1 < exp2)

(* max() over the key objects: the first of those with the latest exp.     *)
Chosen(body) ==
  body.keys[CHOOSE i \in KeyObjects(body) :
              \A j \in KeyObjects(body) :
                /\ ~Sooner(body.keys[i].exp, body.keys[j].exp)
                /\ j < i => Sooner(body.keys[j].exp, body.keys[i].exp)]

WebBotAuthReason(body) ==
  CASE body = Absent -> None
    [] body # Absent /\ body.shape # "jwks" -> body.shape
    [] body # Absent /\ body.shape = "jwks" ->
         IF body.keys = <<>> THEN "no_keys"
         ELSE IF KeyObjects(body) = {} THEN "no_key_objects" ELSE None

Usable(body) == body # Absent /\ WebBotAuthReason(body) = None

KeyId(body) == IF Usable(body) THEN Chosen(body).kid ELSE None
Expiry(body) == IF Usable(body) THEN Chosen(body).exp ELSE None

(* parse_web_bot_auth: RecursionError, and an expiry that no datetime has. *)
WebBotAuthRaises(body) ==
  \/ body # Absent /\ body.shape = "too_nested"
  \/ Expiry(body) # None /\ Expiry(body) \notin Datetimes

(* Instants are half seconds, exp is in seconds; nbf is not looked at.     *)
Valid(body, now) == Expiry(body) # None /\ 2 * Expiry(body) > now

-----------------------------------------------------------------------------
(* Mutant: llms.txt is not passed on, as before Phase 5's fix. *)
FlagsWithoutLlms(manifestReason, authReason, agents, directory, llms, valid) ==
  IF ~agents /\ ~directory THEN {"no_signals"}
  ELSE (IF manifestReason # None THEN {"malformed_manifest"} ELSE {})
       \cup (IF authReason # None THEN {"malformed_web_bot_auth"}
             ELSE IF directory /\ ~valid THEN {"expired_key"} ELSE {})

(* compute_confidence_flags; the reasons are None exactly if not malformed. *)
Flags(manifestReason, authReason, agents, directory, llms, valid) ==
  IF ~agents /\ ~directory /\ ~llms THEN {"no_signals"}
  ELSE (IF agents /\ manifestReason # None THEN {"malformed_manifest"} ELSE {})
       \cup (IF directory /\ authReason # None THEN {"malformed_web_bot_auth"} ELSE {})
       \cup (IF directory /\ authReason = None /\ ~valid THEN {"expired_key"} ELSE {})

(* process_message up to fetch_domain raises. *)
Raises(b) == ManifestRaises(b.agents) \/ WebBotAuthRaises(b.directory)

(* Postgres refuses the upsert of this crawl. *)
Refused(b) ==
  \/ DeclaredCapabilities(b.agents) \in Unstorable
  \/ KeyId(b.directory) \in Unstorable

(* build_domain_record without its timestamps and S3 keys.                 *)
Fields(b, now) ==
  [agent_json_present            |-> b.agents # Absent,
   llms_txt_present              |-> b.llms,
   web_bot_auth_present          |-> b.directory # Absent,
   web_bot_auth_key_id           |-> KeyId(b.directory),
   web_bot_auth_valid            |-> Valid(b.directory, now),
   web_bot_auth_expiry           |-> Expiry(b.directory),
   declared_capabilities         |-> DeclaredCapabilities(b.agents),
   manifest_malformed_reason     |-> ManifestReason(b.agents),
   web_bot_auth_malformed_reason |-> WebBotAuthReason(b.directory),
   confidence_flags              |->
     Flags(ManifestReason(b.agents), WebBotAuthReason(b.directory),
           b.agents # Absent, b.directory # Absent, b.llms, Valid(b.directory, now))]

(* The fields as fetch_domain returns them after upsert_domain: the        *)
(* capabilities have made the round trip through a jsonb column, the other *)
(* types come back as they went in.                                        *)
AsStored(fields) == [fields EXCEPT !.declared_capabilities = Jsonb[@]]

CapabilitiesSurvive(b) ==
  Jsonb[DeclaredCapabilities(b.agents)] = DeclaredCapabilities(b.agents)

DIFF_FIELDS ==
  {"agent_json_present", "llms_txt_present", "web_bot_auth_present",
   "web_bot_auth_key_id", "web_bot_auth_valid", "web_bot_auth_expiry",
   "declared_capabilities", "confidence_flags"}

(* diff_records between a stored record and a new one: the fields that     *)
(* differ.                                                                 *)
DiffRecords(old, new) == {f \in DIFF_FIELDS : old[f] # new[f]}
=============================================================================
