------------------------------ MODULE SqsQueue ------------------------------
(***************************************************************************)
(* A standard SQS queue behind a Lambda event source mapping, as operators *)
(* on one message.  AWS is not part of the repository: this is what the    *)
(* services' handlers and infra/terraform/modules/sqs rely on.             *)
(*                                                                         *)
(* A message is received by a worker (one running Lambda invocation),      *)
(* which hides it for the visibility timeout; `holder' is the worker with  *)
(* the latest receipt handle.  With a dead-letter queue it is moved there  *)
(* when it has been received MaxReceive times and becomes visible again.   *)
(***************************************************************************)
EXTENDS Integers

Message(Workers, MaxReceive) ==
  [at : {"unsent", "visible", "inflight", "deleted", "dead"},
   holder : Workers, receives : 0 .. MaxReceive]

Unsent(worker) == [at |-> "unsent", holder |-> worker, receives |-> 0]

Sent(msg) == [msg EXCEPT !.at = "visible"]

(* MaxReceive = 0 stands for a queue with no dead-letter queue: nothing is *)
(* counted then. *)
Received(msg, worker, MaxReceive) ==
  [at |-> "inflight", holder |-> worker,
   receives |-> IF msg.receives < MaxReceive THEN msg.receives + 1
                                             ELSE MaxReceive]

(* Mutant: enable_dlq is left at its default. *)
ReappearedForever(msg, MaxReceive) == [msg EXCEPT !.at = "visible"]

Reappeared(msg, MaxReceive) ==
  [msg EXCEPT !.at = IF MaxReceive > 0 /\ msg.receives = MaxReceive
                     THEN "dead" ELSE "visible"]

Deleted(msg) == [msg EXCEPT !.at = "deleted"]

(* The mapping deletes a batch after a normal return.  A delete with the   *)
(* latest handle works, in flight or visible again; with an older one it   *)
(* succeeds but the message may stay.                                      *)
MayDelete(queue, batch, worker) ==
  {gone \in SUBSET batch : \A m \in batch : queue[m].holder = worker => m \in gone}

DeleteAll(queue, gone) ==
  [m \in DOMAIN queue |-> IF m \in gone THEN Deleted(queue[m]) ELSE queue[m]]
=============================================================================
