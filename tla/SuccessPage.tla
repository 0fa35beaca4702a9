----------------------------- MODULE SuccessPage -----------------------------
(***************************************************************************)
(* The page the customer lands on after paying                             *)
(* (apps/frontend/app/dashboard/success/success-content.tsx), on top of    *)
(* Billing: it fetches the key of its session once, although React's       *)
(* Strict Mode runs the effect that does so twice, and shows what it got.  *)
(* A fetch of the page is a visit of Billing.                              *)
(***************************************************************************)
EXTENDS Billing

CONSTANTS
  Pages      \* mounts of the page: opened, reloaded, opened again

VARIABLES
  page,      \* page[p]: what p shows, and its effect
  fetch      \* fetch[v]: the page waiting for the answer to v, or None

pageVars == <<page, fetch>>

(* ref: hasFetchedRef; runs: how often the effect is still to run.         *)
PageState == [status : {"unopened", "loading", "error", "key", "gone"},
              session : Sessions \cup {None}, ref : BOOLEAN, runs : 0 .. 2]

PageTypeOK ==
  /\ page \in [Pages -> PageState]
  /\ fetch \in [Visits -> Pages \cup {None}]

PageInit ==
  /\ page = [p \in Pages |-> [status |-> "unopened", session |-> None,
                              ref |-> FALSE, runs |-> 0]]
  /\ fetch = [v \in Visits |-> None]

-----------------------------------------------------------------------------
(* Pages, and visits, differ in their names only: any new one will do.     *)
(*                                                                         *)
(* Stripe redirects to success_url, or the customer opens the page again.  *)
(* In Strict Mode the effect runs twice; running once is how that begins.  *)
OpenPage(s) ==
  LET new == {p \in Pages : page[p].status = "unopened"}
  IN /\ subscription[s] # "none"
     /\ new # {}
     /\ page' = [page EXCEPT ![CHOOSE p \in new : TRUE] =
                   [status |-> "loading", session |-> s, ref |-> FALSE, runs |-> 2]]
     /\ UNCHANGED <<vars, fetch>>

Send(p) ==
  LET new == {v \in Visits : fetch[v] = None /\ visit[v].pc = "idle"}
  IN /\ new # {}
     /\ fetch' = [fetch EXCEPT ![CHOOSE v \in new : TRUE] = p]

(* Mutant: no ref guards the fetch. *)
RunEffectUnguarded(p) ==
  /\ page[p].runs > 0
  /\ page' = [page EXCEPT ![p].runs = @ - 1]
  /\ Send(p)
  /\ UNCHANGED vars

(* useEffect: the second run finds the ref set. *)
RunEffect(p) ==
  /\ page[p].runs > 0
  /\ page' = [page EXCEPT ![p].runs = @ - 1, ![p].ref = TRUE]
  /\ IF page[p].ref THEN UNCHANGED fetch ELSE Send(p)
  /\ UNCHANGED vars

(* Mutant: the clean-up of the first run cancels its fetch. *)
ReceiveUnlessCleanedUp(v, status) ==
  /\ fetch' = [fetch EXCEPT ![v] = None]
  /\ page' = IF page[fetch[v]].runs = 0 THEN page
             ELSE [page EXCEPT ![fetch[v]].status = status]

(* setState with what the fetch resolved to. *)
Receive(v, status) ==
  /\ fetch' = [fetch EXCEPT ![v] = None]
  /\ page' = [page EXCEPT ![fetch[v]].status = status]

-----------------------------------------------------------------------------
(* The visit at billing-service.                                           *)
ServeRead(v) ==
  /\ fetch[v] # None
  /\ ReadKey(v, page[fetch[v]].session)
  /\ IF visit'[v].pc = "done" THEN Receive(v, "gone") ELSE UNCHANGED pageVars

(* session_not_found, or the network fails before billing-service acts.    *)
ServeNothing(v) ==
  /\ fetch[v] # None /\ visit[v].pc = "idle"
  /\ Receive(v, "error")
  /\ UNCHANGED vars

ServeClear(v) == ClearSecret(v) /\ UNCHANGED pageVars

ServeAnswer(v) == AnswerKey(v) /\ Receive(v, "key")

(* An answer that is not a 2xx, or none; or the page is closed meanwhile.  *)
ServeAbandoned(v) == AbandonVisit(v) /\ Receive(v, "error")

PageStep ==
  \/ \E p \in Pages : RunEffect(p)
  \/ \E v \in Visits :
       \/ ServeRead(v) \/ ServeNothing(v) \/ ServeClear(v)
       \/ ServeAnswer(v) \/ ServeAbandoned(v)

(* The browser runs the effects, and every fetch resolves or rejects: a    *)
(* page takes finitely many steps, so it is enough that some page goes on. *)
PageFairness == WF_<<vars, pageVars>>(PageStep)

-----------------------------------------------------------------------------
(* A secret on the screen stays there: it will not be shown again.  The    *)
(* answer to a second fetch would replace it by "already retrieved".       *)
SecretStaysOnScreen ==
  [][\A p \in Pages : page[p].status = "key" => page'[p].status = "key"]_page

(* The page does not hang on "Retrieving your API key", whatever becomes   *)
(* of the fetch and however often the effect runs.                         *)
LoadingEnds ==
  \A p \in Pages : page[p].status = "loading" ~> page[p].status # "loading"
=============================================================================
