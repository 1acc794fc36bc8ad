------------------------ MODULE VerificationSession ------------------------
(***************************************************************************)
(* One row of verification_sessions: the desktop creates it, polls it, and *)
(* the phone reports progress (backend/app/services/verification_session.py *)
(* and api/routes_sessions.py).  Sessions share nothing, so one is enough. *)
(* Every handler reads the row with one statement and writes it with a     *)
(* later, unconditional one; the calls of other clients may come between.  *)
(***************************************************************************)
EXTENDS Integers

CONSTANTS Clients,   \* each has one call under way at a time
          Poller,    \* the desktop, a client that only polls, until expires_at
          Lifetime,  \* the default of expires_at, after the creation
          MaxTime    \* bound of the clock

ASSUME SessionAssumption ==
    /\ Poller \in Clients
    /\ Lifetime \in Nat /\ MaxTime \in Nat /\ Lifetime < MaxTime

VARIABLES status,     \* "none" before the row exists
          expiresAt,
          call,       \* what each client's call holds in local variables
          now,
          basis       \* history: when the last update's status had been read

vars == <<status, expiresAt, call, now, basis>>

Terminal == {"confirmed", "failed", "expired"}
Statuses == Terminal \cup {"none", "pending", "wallet_connected", "scanning",
                           "proof_generated", "submitted"}

ValidTransitions_Restart(s) ==
    CASE s = "pending"          -> {"wallet_connected", "scanning", "expired", "failed"}
      [] s = "wallet_connected" -> {"scanning", "expired", "failed"}
      [] s = "scanning"         -> {"wallet_connected", "proof_generated", "expired", "failed"}
      [] s = "proof_generated"  -> {"submitted", "failed"}
      [] s = "submitted"        -> {"confirmed", "failed"}
      [] OTHER                  -> {}

(* VALID_TRANSITIONS.                                                      *)
ValidTransitions(s) ==
    CASE s = "pending"          -> {"wallet_connected", "scanning", "expired", "failed"}
      [] s = "wallet_connected" -> {"scanning", "expired", "failed"}
      [] s = "scanning"         -> {"proof_generated", "expired", "failed"}
      [] s = "proof_generated"  -> {"submitted", "failed"}
      [] s = "submitted"        -> {"confirmed", "failed"}
      [] OTHER                  -> {}

(* What a call asks for: GET asks for nothing, PATCH for a status.         *)
Wants == {"nothing"} \cup (Statuses \ {"none"})

Accepted_OnlyConfirmedRefused(wants) == wants # "confirmed"

(* PATCH answers 400 to these before it looks at the row.                  *)
Accepted(wants) == wants \notin {"submitted", "confirmed"}

Overdue_TerminalToo == now > expiresAt

Overdue_WhilePending == status = "pending" /\ now > expiresAt

(* get_session finds the session out of its time and not yet ended.        *)
Overdue == status \notin Terminal /\ now > expiresAt

-----------------------------------------------------------------------------
Idle == [pc |-> "idle", wants |-> "nothing", seen |-> "none", readAt |-> 0]

(* POST /sessions.  For an inactive integrator it answers 404 instead.     *)
(* (The bound on the time of it lets the clock pass expires_at.)           *)
Create ==
    /\ status = "none" /\ now + Lifetime < MaxTime
    /\ status' = "pending" /\ expiresAt' = now + Lifetime
    /\ UNCHANGED <<call, now, basis>>

(* The desktop's widget compares its clock first and asks no more after    *)
(* expires_at.                                                             *)
PollsOn == now <= expiresAt

(* GET or PATCH /sessions/{id} arrives.                                    *)
Begin(c, wants) ==
    /\ status # "none"
    /\ call[c].pc = "idle" /\ Accepted(wants)
    /\ c = Poller => wants = "nothing" /\ PollsOn
    /\ call' = [call EXCEPT ![c] = [pc |-> "called", wants |-> wants,
                                    seen |-> "none", readAt |-> 0]]
    /\ UNCHANGED <<status, expiresAt, now, basis>>

(* The SELECT of get_session and what is decided on it: to mark the row as *)
(* expired, to write the new status, or to answer (a poll, 409 or 400).    *)
Read(c) ==
    /\ call[c].pc = "called"
    /\ LET step == IF Overdue THEN "sweeping"
                   ELSE IF call[c].wants \in ValidTransitions(status) THEN "writing"
                   ELSE "idle"
       IN  call' = [call EXCEPT ![c] =
                      IF step = "idle" THEN Idle
                      ELSE [pc |-> step, wants |-> call[c].wants,
                            seen |-> status, readAt |-> now]]
    /\ UNCHANGED <<status, expiresAt, now, basis>>

(* get_session's UPDATE, whatever the row says by now.  The call then sees *)
(* 'expired' and is answered.                                              *)
Sweep(c) ==
    /\ call[c].pc = "sweeping"
    /\ status' = "expired"
    /\ call' = [call EXCEPT ![c] = Idle]
    /\ UNCHANGED <<expiresAt, now, basis>>

(* update_status's UPDATE, whatever the row says by now.                   *)
Write(c) ==
    /\ call[c].pc = "writing"
    /\ status' = call[c].wants /\ basis' = call[c].readAt
    /\ call' = [call EXCEPT ![c] = Idle]
    /\ UNCHANGED <<expiresAt, now>>

(* The process dies between two statements of a call, or the client goes:  *)
(* a phone loses its connection, the desktop's tab is closed.              *)
Drop(c) ==
    /\ call[c].pc # "idle"
    /\ call' = [call EXCEPT ![c] = Idle]
    /\ UNCHANGED <<status, expiresAt, now, basis>>

Tick == /\ now < MaxTime /\ now' = now + 1
        /\ UNCHANGED <<status, expiresAt, call, basis>>

-----------------------------------------------------------------------------
Init == /\ status = "none" /\ expiresAt = 0 /\ now = 0 /\ basis = 0
        /\ call = [c \in Clients |-> Idle]

Step(c) == Read(c) \/ Sweep(c) \/ Write(c)

Next == \/ Create \/ Tick
        \/ \E c \in Clients : \/ \E wants \in Wants : Begin(c, wants)
                              \/ Step(c) \/ Drop(c)

(* Nobody is owed a step: any client may go, the process may die, and no   *)
(* task of the relayer looks for sessions that have run out.               *)
Spec == Init /\ [][Next]_vars

-----------------------------------------------------------------------------
(* The types.  Only a session that has run out and not ended is to be      *)
(* marked as expired: an ended one keeps its outcome.                      *)
TypeOK ==
    /\ status \in Statuses
    /\ now \in 0 .. MaxTime /\ expiresAt \in 0 .. MaxTime + Lifetime
    /\ basis \in 0 .. now
    /\ call \in [Clients -> [pc : {"idle", "called", "sweeping", "writing"},
                             wants : Wants, seen : Statuses, readAt : 0 .. MaxTime]]
    /\ \A c \in Clients :
         call[c].pc = "sweeping" => call[c].seen \notin Terminal /\ call[c].readAt > expiresAt

(* No sequence of reports and races of a phone makes a session look        *)
(* submitted or confirmed (routes_sessions.py:102-111).                    *)
NoSelfReportedSuccess == status \notin {"submitted", "confirmed"}

(* Progress that is recorded was reported in time: an update that arrives  *)
(* after expires_at changes nothing, though one that had read the row      *)
(* before may still be written after.                                      *)
ProgressReadInTime == status # "none" => basis <= expiresAt

Rank(s) == CASE s = "none" -> 0 [] s = "pending" -> 1 [] s = "wallet_connected" -> 2
             [] s = "scanning" -> 3 [] s = "proof_generated" -> 4
             [] s = "submitted" -> 5 [] OTHER -> 6

(* A session moves back, or out of an outcome, only when two calls raced:  *)
(* the step is a write that rests on a status the row no longer has.       *)
BackwardOnlyByRace ==
    [][Rank(status') < Rank(status) \/ (status \in Terminal /\ status' # status)
         => \E c \in Clients : /\ call[c].pc \in {"writing", "sweeping"}
                               /\ call[c].seen # status /\ call'[c].pc = "idle"]_vars

(* However many clients report and poll for ever, and although an ended    *)
(* session can be reopened by a write that had read it before: its status  *)
(* changes only so often.  It need not come to rest in an ended one: a     *)
(* session that nobody reads after expires_at stays as it was left.        *)
SessionComesToRest == <>[][status' = status]_vars
=============================================================================
