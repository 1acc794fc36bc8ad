------------------------------ MODULE Relayer ------------------------------
(***************************************************************************)
(* POST /proof/submit of the relayer (backend/app/api/routes_proof.py):    *)
(* requests are asyncio tasks that share a database and the sponsor's      *)
(* Stellar account.  A task runs from one awaited statement to the next    *)
(* without interruption; every SQL statement is a transaction of its own.  *)
(* So the steps of a request are: read the integrator's row, check the     *)
(* proof and count the log, submit to Soroban, insert the log row, insert  *)
(* the webhook and answer.  Between any two of them other requests, the    *)
(* integrator's dashboard, the ledger and a crash of the process may act.  *)
(*                                                                         *)
(* A retry is one more request with the same nullifier.  Definitions whose *)
(* name continues another's after an underscore are mistaken forms of it.  *)
(***************************************************************************)
EXTENDS Integers, FiniteSets

CONSTANTS Requests,      \* requests that can arrive
          Integrators,
          Nullifiers,
          Settings,      \* what the dashboard can set, a set of Setting
          Limit,         \* daily_sponsored_tx_limit
          PoolSize,      \* max_size of the asyncpg pool, 10 in the code
          Window,        \* twenty-four hours
          MaxTime,       \* bound of the clock
          MaxCrashes,    \* bound on crashes of the process
          EncoderReady,  \* FALSE: _public_signals_scval raises NotImplementedError
          None           \* no integrator, nullifier, transaction or row yet

(* url: the integrator's webhook_url, NULL, one that can be posted to, or   *)
(* a text that httpx cannot make an address of; nfc: its policy demands    *)
(* the chip for a passport, the only type this route knows.                *)
Setting == [url : {"null", "good", "odd"}, nfc : BOOLEAN]

ASSUME RelayerAssumption ==
    /\ Limit \in Nat /\ PoolSize \in Nat \ {0} /\ IsFiniteSet(Requests)
    /\ Window \in Nat /\ MaxTime \in Nat /\ MaxCrashes \in Nat
    /\ EncoderReady \in BOOLEAN
    /\ Settings \subseteq Setting /\ None \notin Requests \cup Integrators \cup Nullifiers

VARIABLES settings,  \* the integrators table
          req,       \* the requests, and what each holds in local variables
          log,       \* sponsored_tx_log
          outbox,    \* webhook_deliveries
          pending,   \* transactions waiting for a ledger
          charged,   \* transactions included in a ledger, whose fee was paid
          verified,  \* the <<integrator, nullifier>> pairs the contract recorded
          now,
          crashes

vars == <<settings, req, log, outbox, pending, charged, verified, now, crashes>>
chainVars == <<pending, charged, verified>>

Steps == {"unsent", "new", "authed", "reserved", "submitted", "logged", "done"}
Answers == {"none", "200", "400", "422", "429", "500", "502", "lost"}
Request == [pc : Steps, integrator : Integrators \cup {None},
            nullifier : Nullifiers \cup {None},
            seen : Settings \cup {None}, passed : BOOLEAN, ok : BOOLEAN,
            answer : Answers]

-----------------------------------------------------------------------------
(* A request holds a connection of the pool from its first step to its     *)
(* last (Depends(get_db)), so the pool bounds the requests in flight.      *)
InFlight == {r \in Requests : req[r].pc \notin {"unsent", "done"}}

(* check_and_reserve's SELECT COUNT: every row of the integrator in the    *)
(* window, whatever its status.                                            *)
Recent(i) == {row \in log : row.integrator = i /\ row.at >= now - Window}

LimitReached_OffByOne(i) == Cardinality(Recent(i)) > Limit

LimitReached(i) == Cardinality(Recent(i)) >= Limit

(* The unique index on (integrator_id, nullifier_hex).                     *)
AlreadyLogged(i, nf) == \E row \in log : row.integrator = i /\ row.nullifier = nf

(* Answering a request drops its local variables.                          *)
Answered(q, code) == [q EXCEPT !.pc = "done", !.answer = code, !.seen = None,
                               !.nullifier = None, !.ok = FALSE]
Answer(r, code) == req' = [req EXCEPT ![r] = Answered(@, code)]

(* An exception no handler catches: FastAPI answers 500.                   *)
UniqueViolation(r) ==
    /\ AlreadyLogged(req[r].integrator, req[r].nullifier)
    /\ Answer(r, "500")
    /\ UNCHANGED <<log, outbox>>

Row(r, status, checked) ==
    [request |-> r, integrator |-> req[r].integrator, nullifier |-> req[r].nullifier,
     status |-> status, checked |-> checked, at |-> now]

-----------------------------------------------------------------------------
(* A request reaches the server and gets a connection.                     *)
Arrive(r, i, nf) ==
    /\ req[r].pc = "unsent"
    /\ Cardinality(InFlight) < PoolSize
    /\ req' = [req EXCEPT ![r].pc = "new", ![r].integrator = i, ![r].nullifier = nf]
    /\ UNCHANGED <<settings, log, outbox, chainVars, now, crashes>>

(* get_current_integrator: the row is read once, and used to the end.      *)
Authenticate(r) ==
    /\ req[r].pc = "new"
    /\ req' = [req EXCEPT ![r].pc = "authed", ![r].seen = settings[req[r].integrator]]
    /\ UNCHANGED <<settings, log, outbox, chainVars, now, crashes>>

(* The document-type gate (422), or a proof or key file that cannot be     *)
(* read (400).                                                             *)
Refuse(r) ==
    /\ req[r].pc = "authed"
    /\ Answer(r, IF req[r].seen.nfc THEN "422" ELSE "400")
    /\ UNCHANGED <<settings, log, outbox, chainVars, now, crashes>>

(* snarkjs says no, or runs out of its thirty seconds, which is also a no: *)
(* the rejection is logged under the nullifier of the request.             *)
RejectOffChain(r) ==
    /\ req[r].pc = "authed" /\ ~req[r].seen.nfc
    /\ \/ UniqueViolation(r)
       \/ /\ ~AlreadyLogged(req[r].integrator, req[r].nullifier)
          /\ log' = log \cup {Row(r, "rejected", FALSE)}
          /\ Answer(r, "400")
          /\ UNCHANGED outbox
    /\ UNCHANGED <<settings, chainVars, now, crashes>>

(* snarkjs says yes; check_and_reserve counts, and reserves nothing.       *)
CheckLimit(r) ==
    /\ req[r].pc = "authed" /\ ~req[r].seen.nfc
    /\ IF LimitReached(req[r].integrator) THEN Answer(r, "429")
       ELSE req' = [req EXCEPT ![r].pc = "reserved", ![r].passed = TRUE]
    /\ UNCHANGED <<settings, log, outbox, chainVars, now, crashes>>

-----------------------------------------------------------------------------
(* prepare_transaction simulates verify on the last closed ledger: a spent *)
(* nullifier is an error there.  Ok(false) is not.                         *)
SimulationErrs(r) == <<req[r].integrator, req[r].nullifier>> \in verified

(* Transactions are told apart by the request that built them.  (A retry   *)
(* with the same body and the same sequence number builds the transaction  *)
(* that is still queued; the network does not queue it again.)             *)
TxOf(r) == [by |-> r, integrator |-> req[r].integrator, nullifier |-> req[r].nullifier]

(* submit_verification returns success = False and nothing was sent: no    *)
(* sponsor secret, an argument that does not encode (always, as long as    *)
(* the encoder is a stub), a failed simulation, an RPC error.              *)
SubmitFails(r) ==
    /\ req[r].pc = "reserved"
    /\ req' = [req EXCEPT ![r].pc = "submitted", ![r].ok = FALSE]
    /\ UNCHANGED <<settings, log, outbox, chainVars, now, crashes>>

(* send_transaction was called.  The network queues one transaction of an  *)
(* account at a time and may turn one away; the code does not read the     *)
(* status, so ok says that a hash came back and no more.  A reply that     *)
(* never came is an exception: not ok, though the transaction may be       *)
(* queued.                                                                 *)
SubmitSends(r) ==
    /\ req[r].pc = "reserved"
    /\ EncoderReady /\ ~SimulationErrs(r)
    /\ \E heard \in BOOLEAN :
         req' = [req EXCEPT ![r].pc = "submitted", ![r].ok = heard]
    /\ \/ pending = {} /\ pending' = {TxOf(r)}
       \/ UNCHANGED pending
    /\ UNCHANGED <<settings, log, outbox, charged, verified, now, crashes>>

Status_Confirmed(r) == IF req[r].ok THEN "confirmed" ELSE "rejected"

Status(r) == IF req[r].ok THEN "submitted" ELSE "rejected"

InsertLog_OnConflictDoNothing(r) ==
    /\ req[r].pc = "submitted"
    /\ log' = IF AlreadyLogged(req[r].integrator, req[r].nullifier) THEN log
              ELSE log \cup {Row(r, Status(r), TRUE)}
    /\ req' = [req EXCEPT ![r].pc = "logged"]
    /\ UNCHANGED <<settings, outbox, chainVars, now, crashes>>

InsertLog_SecondConnection(r) ==
    /\ req[r].pc = "submitted"
    /\ Cardinality(InFlight) < PoolSize
    /\ \/ UniqueViolation(r)
       \/ /\ ~AlreadyLogged(req[r].integrator, req[r].nullifier)
          /\ log' = log \cup {Row(r, Status(r), TRUE)}
          /\ req' = [req EXCEPT ![r].pc = "logged"]
          /\ UNCHANGED outbox
    /\ UNCHANGED <<settings, chainVars, now, crashes>>

InsertLog(r) ==
    /\ req[r].pc = "submitted"
    /\ \/ UniqueViolation(r)
       \/ /\ ~AlreadyLogged(req[r].integrator, req[r].nullifier)
          /\ log' = log \cup {Row(r, Status(r), TRUE)}
          /\ req' = [req EXCEPT ![r].pc = "logged"]
          /\ UNCHANGED outbox
    /\ UNCHANGED <<settings, chainVars, now, crashes>>

(* enqueue_webhook, when the row read at the start had a webhook_url and   *)
(* the submission succeeded; then the answer.                              *)
Finish_HookOnFailure(r) ==
    /\ req[r].pc = "logged"
    /\ outbox' = IF req[r].seen.url # "null"
                 THEN outbox \cup {[submission |-> r, integrator |-> req[r].integrator,
                                    nullifier |-> req[r].nullifier]}
                 ELSE outbox
    /\ Answer(r, IF req[r].ok THEN "200" ELSE "502")
    /\ UNCHANGED <<settings, log, chainVars, now, crashes>>

Finish(r) ==
    /\ req[r].pc = "logged"
    /\ outbox' = IF req[r].seen.url # "null" /\ req[r].ok
                 THEN outbox \cup {[submission |-> r, integrator |-> req[r].integrator,
                                    nullifier |-> req[r].nullifier]}
                 ELSE outbox
    /\ Answer(r, IF req[r].ok THEN "200" ELSE "502")
    /\ UNCHANGED <<settings, log, chainVars, now, crashes>>

-----------------------------------------------------------------------------
(* The dashboard: update_webhook and update_my_policy.                     *)
UpdateSettings(i, setting) ==
    /\ settings' = [settings EXCEPT ![i] = setting]
    /\ UNCHANGED <<req, log, outbox, chainVars, now, crashes>>

(* A ledger includes the queued transaction: verify records the nullifier, *)
(* or returns Ok(false), or an error (the nullifier is spent, or the rules *)
(* or the clock moved on since the simulation).  The fee is paid anyway.   *)
LedgerIncludes ==
    \E tx \in pending :
        /\ pending' = {} /\ charged' = charged \cup {tx.by}
        /\ \/ UNCHANGED verified
           \/ verified' = verified \cup {<<tx.integrator, tx.nullifier>>}
        /\ UNCHANGED <<settings, req, log, outbox, now, crashes>>

(* The process dies and is restarted; what it held in memory is gone.      *)
Crash ==
    /\ crashes < MaxCrashes
    /\ crashes' = crashes + 1
    /\ req' = [r \in Requests |-> IF r \in InFlight THEN Answered(req[r], "lost")
                                  ELSE req[r]]
    /\ UNCHANGED <<settings, log, outbox, chainVars, now>>

Tick == /\ now < MaxTime /\ now' = now + 1
        /\ UNCHANGED <<settings, req, log, outbox, chainVars, crashes>>

-----------------------------------------------------------------------------
NewRequest == [pc |-> "unsent", integrator |-> None, nullifier |-> None,
               seen |-> None, passed |-> FALSE, ok |-> FALSE, answer |-> "none"]

Init ==
    /\ settings \in [Integrators -> Settings]
    /\ req = [r \in Requests |-> NewRequest]
    /\ log = {} /\ outbox = {}
    /\ pending = {} /\ charged = {} /\ verified = {}
    /\ now = 0 /\ crashes = 0

Advance(r) ==
    \/ Authenticate(r) \/ Refuse(r) \/ RejectOffChain(r) \/ CheckLimit(r)
    \/ SubmitFails(r) \/ SubmitSends(r) \/ InsertLog(r) \/ Finish(r)

Environment ==
    \/ \E r \in Requests, i \in Integrators, nf \in Nullifiers : Arrive(r, i, nf)
    \/ \E i \in Integrators, setting \in Settings : UpdateSettings(i, setting)
    \/ LedgerIncludes
    \/ Tick

Next == Environment \/ Crash \/ \E r \in Requests : Advance(r)

Spec == Init /\ [][Next]_vars

(* Every await of a request completes: the database answers or raises, and *)
(* the calls to snarkjs and to the RPC time out.                           *)
Proceeds(r) == WF_vars(Advance(r))

FairSpec == Spec /\ \A r \in Requests : Proceeds(r)

-----------------------------------------------------------------------------
TypeOK ==
    /\ settings \in [Integrators -> Settings]
    /\ req \in [Requests -> Request]
    /\ log \subseteq [request : Requests, integrator : Integrators,
                      nullifier : Nullifiers, status : {"submitted", "rejected"},
                      checked : BOOLEAN, at : 0 .. MaxTime]
    /\ outbox \subseteq [submission : Requests, integrator : Integrators,
                         nullifier : Nullifiers]
    /\ pending \subseteq [by : Requests, integrator : Integrators, nullifier : Nullifiers]
    /\ charged \subseteq Requests
    /\ verified \subseteq Integrators \X Nullifiers
    /\ now \in 0 .. MaxTime /\ crashes \in 0 .. MaxCrashes

(* How far a burst can overshoot the daily limit.  spend_limit.py:35-43    *)
(* admits a race between the count and the insert and calls it a handful:  *)
(* the log of an integrator's checked proofs in the last day exceeds the   *)
(* limit by at most the size of the connection pool less one.              *)
BurstWithinPool ==
    \A i \in Integrators :
        Cardinality({row \in Recent(i) : row.checked}) <= Limit + PoolSize - 1

(* No fee is spent in silence: a transaction that is queued or was charged *)
(* is in the log as submitted, with its hash, or its request is still under *)
(* way, or the request ended in an error the caller or the operator sees.  *)
SpendAccountedFor ==
    \A r \in charged \cup {tx.by : tx \in pending} :
        \/ \E row \in log : row.request = r /\ row.status = "submitted"
        \/ req[r].pc = "submitted"
        \/ req[r].answer \in {"500", "502", "lost"}
        \/ req[r].pc = "logged" /\ ~req[r].ok

(* An integrator hears at most once of a nullifier, however often its      *)
(* proof is retried and wherever the process dies, and only of one whose   *)
(* log row says submitted.                                                 *)
WebhookOncePerNullifier ==
    /\ \A w, x \in outbox :
         w.integrator = x.integrator /\ w.nullifier = x.nullifier => w = x
    /\ \A w \in outbox : \E row \in log :
         /\ row.request = w.submission /\ row.status = "submitted"
         /\ row.integrator = w.integrator /\ row.nullifier = w.nullifier

(* Every request that gets a connection is answered, whatever the others   *)
(* do: holding one connection to the end cannot leave all of them waiting. *)
EveryRequestAnswered == \A r \in Requests : req[r].pc = "new" ~> req[r].pc = "done"

(* Why fairness is enough: a request in flight always has a step to take.  *)
AdvanceEnabled == \A r \in InFlight : ENABLED <<Advance(r)>>_vars

-----------------------------------------------------------------------------
(* What spend_limit.py:5-9 says: a bug that retries in a loop is stopped   *)
(* at the daily ceiling.  Within one window, the requests of an integrator *)
(* that got past the limit are within it, but for the race of a burst.     *)
RetryLoopStopped ==
    now <= Window =>
        \A i \in Integrators :
            Cardinality({r \in Requests : req[r].integrator = i /\ req[r].passed})
                <= Limit + PoolSize - 1
=============================================================================
