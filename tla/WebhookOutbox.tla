--------------------------- MODULE WebhookOutbox ---------------------------
(***************************************************************************)
(* The delivery of the webhooks that Relayer enqueues                      *)
(* (backend/app/services/webhook_service.py), composed with the requests   *)
(* that enqueue them.  A worker is one run of process_pending_webhooks: it *)
(* reads the due rows, then posts them one after another and writes each   *)
(* outcome back, computed from the row as it was read.  The service's      *)
(* comments leave the loop that runs it to main.py, which has none: a      *)
(* worker may run or never run here, and runs may overlap, as they do when *)
(* a loop is run in two processes or does not wait for a slow batch.       *)
(***************************************************************************)
EXTENDS Relayer

CONSTANTS Workers,
          MaxTries   \* WEBHOOK_MAX_RETRIES, 5 in the code

Outcomes == {"2xx", "other", "error"}

(* A row as a worker has read it: it has tries left.                       *)
RowCopy == [submission : Requests, attempts : 0 .. MaxTries - 1, url : {"good", "odd"}]

(* None is no row that was posted.                                         *)
ASSUME OutboxAssumption == /\ MaxTries \in Nat \ {0}
                           /\ None \notin [row : RowCopy, outcome : Outcomes]

VARIABLES delivery,  \* the row of webhook_deliveries of each submission
          batch,     \* the rows a worker has read and not yet posted
          posting,   \* the row a worker has posted, and what came back
          posts,     \* history: how often a delivery was posted
          acked      \* history: the deliveries an endpoint answered with 2xx

outboxVars == <<delivery, batch, posting, posts, acked>>
allVars == <<vars, outboxVars>>

Enqueued(r) == \E w \in outbox : w.submission = r

(* enqueue_webhook's row: due at once.                                     *)
NewDelivery == [status |-> "pending", attempts |-> 0, due |-> TRUE]

(* The SELECT: pending, due, and the integrator has a url now.             *)
DueRows_AnyStatus ==
    {[submission |-> w.submission, attempts |-> delivery[w.submission].attempts,
      url |-> settings[w.integrator].url] :
         w \in {x \in outbox : /\ delivery[x.submission].due
                               /\ settings[x.integrator].url # "null"}}

DueRows ==
    {[submission |-> w.submission, attempts |-> delivery[w.submission].attempts,
      url |-> settings[w.integrator].url] :
         w \in {x \in outbox : /\ delivery[x.submission].status = "pending"
                               /\ delivery[x.submission].due
                               /\ settings[x.integrator].url # "null"}}

Idle(w) == batch[w] = {} /\ posting[w] = None

(* A worker has read the row of r and not yet written it back.             *)
Held(r) ==
    \E w \in Workers : \/ \E row \in batch[w] : row.submission = r
                       \/ posting[w] # None /\ posting[w].row.submission = r

-----------------------------------------------------------------------------
(* process_pending_webhooks reads the due rows, and claims none of them.   *)
Fetch(w) ==
    /\ Idle(w) /\ DueRows # {}
    /\ batch' = [batch EXCEPT ![w] = DueRows]
    /\ UNCHANGED <<delivery, posting, posts, acked>>

(* client.post: the endpoint answers, or an httpx.HTTPError is raised (it  *)
(* timed out, perhaps after the endpoint had accepted).                    *)
Post(w) ==
    /\ posting[w] = None
    /\ \E row \in batch[w], outcome \in Outcomes :
         /\ row.url = "good"
         /\ batch' = [batch EXCEPT ![w] = @ \ {row}]
         /\ posting' = [posting EXCEPT ![w] = [row |-> row, outcome |-> outcome]]
         /\ posts' = [posts EXCEPT ![row.submission] = @ + 1]
         /\ acked' = IF outcome = "2xx" THEN acked \cup {row.submission} ELSE acked
    /\ UNCHANGED delivery

(* An address httpx cannot parse raises InvalidURL, no HTTPError: nothing  *)
(* catches it, and the rest of the batch is dropped.                       *)
PostRaises(w) ==
    /\ posting[w] = None
    /\ \E row \in batch[w] : row.url = "odd"
    /\ batch' = [batch EXCEPT ![w] = {}]
    /\ UNCHANGED <<delivery, posting, posts, acked>>

Outcome_AnyAnswerDelivers(row, outcome) ==
    IF outcome # "error"
    THEN [status |-> "delivered", attempts |-> row.attempts + 1, due |-> TRUE]
    ELSE IF row.attempts + 1 >= MaxTries
    THEN [status |-> "failed", attempts |-> row.attempts + 1, due |-> TRUE]
    ELSE [status |-> "pending", attempts |-> row.attempts + 1, due |-> FALSE]

Outcome_OneTryShort(row, outcome) ==
    IF outcome = "2xx"
    THEN [status |-> "delivered", attempts |-> row.attempts + 1, due |-> TRUE]
    ELSE IF row.attempts + 2 >= MaxTries
    THEN [status |-> "failed", attempts |-> row.attempts + 1, due |-> TRUE]
    ELSE [status |-> "pending", attempts |-> row.attempts + 1, due |-> FALSE]

Outcome_OneTryMore(row, outcome) ==
    IF outcome = "2xx"
    THEN [status |-> "delivered", attempts |-> row.attempts + 1, due |-> TRUE]
    ELSE IF row.attempts + 1 > MaxTries
    THEN [status |-> "failed", attempts |-> row.attempts + 1, due |-> TRUE]
    ELSE [status |-> "pending", attempts |-> row.attempts + 1, due |-> FALSE]

(* What the UPDATE writes: the end of _attempt_delivery, and               *)
(* _schedule_retry_or_fail, which sets a later next_retry_at.              *)
Outcome(row, outcome) ==
    IF outcome = "2xx"
    THEN [status |-> "delivered", attempts |-> row.attempts + 1, due |-> TRUE]
    ELSE IF row.attempts + 1 >= MaxTries
    THEN [status |-> "failed", attempts |-> row.attempts + 1, due |-> TRUE]
    ELSE [status |-> "pending", attempts |-> row.attempts + 1, due |-> FALSE]

(* The UPDATE, whatever became of the row since it was read.               *)
Record(w) ==
    /\ posting[w] # None
    /\ LET row == posting[w].row
       IN  delivery' = [delivery EXCEPT ![row.submission] =
                          Outcome(row, posting[w].outcome)]
    /\ posting' = [posting EXCEPT ![w] = None]
    /\ UNCHANGED <<batch, posts, acked>>

WorkerStep(w) == (Fetch(w) \/ Post(w) \/ PostRaises(w) \/ Record(w)) /\ UNCHANGED vars

(* next_retry_at passes.                                                   *)
BackoffElapses(r) ==
    /\ ~delivery[r].due
    /\ delivery' = [delivery EXCEPT ![r].due = TRUE]
    /\ UNCHANGED <<vars, batch, posting, posts, acked>>

(* The process dies, its workers with it.                                  *)
CrashAll ==
    /\ Crash
    /\ batch' = [w \in Workers |-> {}] /\ posting' = [w \in Workers |-> None]
    /\ UNCHANGED <<delivery, posts, acked>>

-----------------------------------------------------------------------------
InitOutbox ==
    /\ Init
    /\ delivery = [r \in Requests |-> NewDelivery]
    /\ batch = [w \in Workers |-> {}] /\ posting = [w \in Workers |-> None]
    /\ posts = [r \in Requests |-> 0] /\ acked = {}

NextOutbox ==
    \/ (Environment \/ \E r \in Requests : Advance(r)) /\ UNCHANGED outboxVars
    \/ CrashAll
    \/ \E w \in Workers : WorkerStep(w)
    \/ \E r \in Requests : BackoffElapses(r)

(* Requests proceed as in Relayer.  Workers are owed no step: nothing in   *)
(* the repository runs process_pending_webhooks.                           *)
SpecOutbox ==
    /\ InitOutbox /\ [][NextOutbox]_allVars
    /\ \A r \in Requests : Proceeds(r)

-----------------------------------------------------------------------------
(* The types; a row that is read has tries left.                           *)
TypeOKOutbox ==
    /\ delivery \in [Requests -> [status : {"pending", "delivered", "failed"},
                                  attempts : 0 .. MaxTries, due : BOOLEAN]]
    /\ batch \in [Workers -> SUBSET RowCopy]
    /\ posting \in [Workers -> [row : RowCopy, outcome : Outcomes] \cup {None}]
    /\ posts \in [Requests -> Nat] /\ acked \subseteq Requests

(* A delivery is given up only after its endpoint was really tried MaxTries *)
(* times: neither crashes nor workers with out-of-date rows use up tries.  *)
GivenUpAfterAllTries ==
    \A r \in Requests : delivery[r].status = "failed" => posts[r] >= MaxTries

(* A delivery is recorded as delivered only if the endpoint acknowledged   *)
(* it, though a worker's answer may be written over another's.             *)
DeliveredWasAcknowledged ==
    \A r \in Requests : delivery[r].status = "delivered" => r \in acked

(* A delivery recorded as delivered is not read, sent or reopened again,   *)
(* unless by a worker that had read its row before.                        *)
DeliveredIsFinal ==
    [][\A r \in Requests :
          delivery[r].status = "delivered" /\ ~Held(r)
              => /\ delivery'[r].status = "delivered"
                 /\ posts'[r] = posts[r] /\ ~Held(r)']_allVars
=============================================================================
