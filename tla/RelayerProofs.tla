--------------------------- MODULE RelayerProofs ---------------------------
(***************************************************************************)
(* Theorems of Relayer, for any requests, any limit, any pool and window,  *)
(* and any number of crashes.                                              *)
(***************************************************************************)
EXTENDS Relayer, FiniteSetTheorems, TLAPS

USE RelayerAssumption

Late == {"submitted", "logged", "done"}
Resting == {"unsent", "done"}
Rows == [request : Requests, integrator : Integrators, nullifier : Nullifiers,
         status : {"submitted", "rejected"}, checked : BOOLEAN, at : 0 .. MaxTime]

(* A request under way knows whose proof it carries.                       *)
Named == \A r \in Requests : req[r].pc \notin Resting =>
           req[r].integrator \in Integrators /\ req[r].nullifier \in Nullifiers

(* The unique index, and what is known of a request that was logged.       *)
OneRowEach == \A a, b \in log : a.integrator = b.integrator /\ a.nullifier = b.nullifier => a = b

RowOf(r) == \E row \in log : /\ row.request = r /\ row.integrator = req[r].integrator
                             /\ row.nullifier = req[r].nullifier
                             /\ req[r].ok => row.status = "submitted"

LoggedHasRow == \A r \in Requests : req[r].pc = "logged" => RowOf(r)

(* Past the count, and not in the log yet.                                 *)
Counted(i) == {r \in Requests : req[r].pc \in {"reserved", "submitted"} /\ req[r].integrator = i}

Checked(i) == {row \in Recent(i) : row.checked}

PoolHolds == Cardinality(InFlight) <= PoolSize

BurstBound ==
    \A i \in Integrators :
        Cardinality(Checked(i)) + Cardinality(Counted(i)) <= Limit + PoolSize - 1

Spent == charged \cup {tx.by : tx \in pending}

SentIsLate == \A r \in Spent : req[r].pc \in Late

AnsweredIsDone == \A r \in Requests : req[r].answer # "none" => req[r].pc = "done"

IInvRelayer ==
    /\ TypeOK /\ IsFiniteSet(log) /\ Named /\ OneRowEach /\ LoggedHasRow
    /\ PoolHolds /\ BurstBound /\ SentIsLate /\ SpendAccountedFor /\ WebhookOncePerNullifier

-----------------------------------------------------------------------------
(* Steps of one request, by what they do to it.                            *)
Moves(r, from, to) ==
    /\ req' \in [Requests -> Request]
    /\ \A s \in Requests : s # r => req'[s] = req[s]
    /\ req[r].pc \in from /\ req'[r].pc \in to
    /\ req'[r].integrator = req[r].integrator
    /\ req'[r].pc = "done" \/ req'[r].nullifier = req[r].nullifier

(* Answering takes a request from any stage to its end.                    *)
LEMMA AnswerMoves ==
    ASSUME TypeOK, NEW r \in Requests, NEW code \in Answers, Answer(r, code),
           req[r].pc \notin Resting
    PROVE  /\ Moves(r, Steps \ Resting, {"done"}) /\ req'[r].answer = code
<1>1. req[r] \in Request
  BY DEF TypeOK
<1>2. Answered(req[r], code) \in Request
  BY <1>1 DEF Answered, Request, Steps, Resting
<1>3. /\ Answered(req[r], code).pc = "done" /\ Answered(req[r], code).answer = code
      /\ Answered(req[r], code).integrator = req[r].integrator
  BY <1>1 DEF Answered, Request
<1>4. /\ req' \in [Requests -> Request] /\ req'[r] = Answered(req[r], code)
      /\ \A s \in Requests : s # r => req'[s] = req[s]
  BY <1>2 DEF Answer, TypeOK
<1>5. req[r].pc \in Steps
  BY <1>1 DEF Request
<1>. QED BY <1>3, <1>4, <1>5 DEF Moves
(* The other steps of a request.                                           *)
LEMMA AdvanceMoves ==
    ASSUME TypeOK, Named, NEW r \in Requests, Advance(r)
    PROVE  \/ Moves(r, {"new"}, {"authed"}) /\ Authenticate(r) /\ UNCHANGED log
           \/ Moves(r, {"authed"}, {"done"}) /\ (Refuse(r) \/ RejectOffChain(r) \/ CheckLimit(r))
           \/ /\ Moves(r, {"authed"}, {"reserved"}) /\ CheckLimit(r)
              /\ ~LimitReached(req[r].integrator) /\ UNCHANGED log
           \/ /\ Moves(r, {"reserved"}, {"submitted"}) /\ (SubmitFails(r) \/ SubmitSends(r))
              /\ UNCHANGED log
           \/ Moves(r, {"submitted"}, {"done"}) /\ InsertLog(r) /\ UNCHANGED log
           \/ Moves(r, {"submitted"}, {"logged"}) /\ InsertLog(r)
           \/ Moves(r, {"logged"}, {"done"}) /\ Finish(r) /\ UNCHANGED log
<1>. USE DEF Moves
<1>1. CASE Authenticate(r)
  <2>1. settings[req[r].integrator] \in Settings
    BY <1>1 DEF Authenticate, Named, Resting, TypeOK
  <2>2. req[r] \in Request /\ req[r].pc = "new" /\ log' = log
    BY <1>1 DEF Authenticate, TypeOK
  <2>. DEFINE q == [req[r] EXCEPT !.pc = "authed", !.seen = settings[req[r].integrator]]
  <2>3. /\ q \in Request /\ q.pc = "authed" /\ q.integrator = req[r].integrator
        /\ q.nullifier = req[r].nullifier
    BY <2>1, <2>2 DEF Request, Steps
  <2>4. req' = [req EXCEPT ![r] = q]
    BY <1>1 DEF Authenticate, TypeOK
  <2>. HIDE DEF q
  <2>. QED BY <1>1, <2>2, <2>3, <2>4 DEF TypeOK
<1>2. CASE Refuse(r)
  <2>1. \E code \in Answers : Answer(r, code)
    BY <1>2 DEF Refuse, Answers
  <2>. QED BY <1>2, <2>1, AnswerMoves DEF Refuse, Resting
<1>3. CASE RejectOffChain(r)
  <2>1. \E code \in Answers : Answer(r, code)
    BY <1>3 DEF RejectOffChain, UniqueViolation, Answers
  <2>. QED BY <1>3, <2>1, AnswerMoves DEF RejectOffChain, Resting
<1>4. CASE CheckLimit(r)
  <2>1. CASE LimitReached(req[r].integrator)
    BY <1>4, <2>1, AnswerMoves DEF CheckLimit, Resting, Answers
  <2>2. CASE ~LimitReached(req[r].integrator)
    BY <1>4, <2>2 DEF CheckLimit, TypeOK, Request, Steps
  <2>. QED BY <2>1, <2>2
<1>5. CASE SubmitFails(r) \/ SubmitSends(r)
  BY <1>5 DEF SubmitFails, SubmitSends, TypeOK, Request, Steps
<1>6. CASE InsertLog(r)
  <2>1. CASE UniqueViolation(r)
    BY <1>6, <2>1, AnswerMoves DEF InsertLog, UniqueViolation, Resting, Answers
  <2>2. CASE ~UniqueViolation(r)
    <3>1. req' = [req EXCEPT ![r].pc = "logged"] /\ req[r].pc = "submitted"
      BY <1>6, <2>2 DEF InsertLog
    <3>. QED BY <1>6, <3>1 DEF TypeOK, Request, Steps
  <2>. QED BY <2>1, <2>2
<1>7. CASE Finish(r)
  <2>1. \E code \in Answers : Answer(r, code)
    BY <1>7 DEF Finish, Answers
  <2>. QED BY <1>7, <2>1, AnswerMoves DEF Finish, Resting
<1>. QED BY <1>1, <1>2, <1>3, <1>4, <1>5, <1>6, <1>7 DEF Advance

(* What a step of a request adds to the log is one row of its own, of a    *)
(* pair that has none; a checked row when the request stops being counted. *)
Logs(r, status, checked) ==
    /\ log' = log \cup {Row(r, status, checked)} /\ status \in {"submitted", "rejected"}
    /\ ~AlreadyLogged(req[r].integrator, req[r].nullifier)

LEMMA AdvanceLogs ==
    ASSUME TypeOK, NEW r \in Requests, Advance(r)
    PROVE  \/ log' = log
           \/ Logs(r, "rejected", FALSE) /\ req[r].pc = "authed" /\ RejectOffChain(r)
           \/ /\ Logs(r, Status(r), TRUE) /\ req[r].pc = "submitted"
              /\ req' = [req EXCEPT ![r].pc = "logged"] /\ InsertLog(r)
<1>1. CASE RejectOffChain(r)
  BY <1>1 DEF RejectOffChain, UniqueViolation, Logs
<1>2. CASE InsertLog(r)
  BY <1>2 DEF InsertLog, UniqueViolation, Logs, Status
<1>. QED
  BY <1>1, <1>2 DEF Advance, Authenticate, Refuse, CheckLimit, SubmitFails, SubmitSends, Finish

LEMMA RowTyped ==
    ASSUME TypeOK, Named, NEW r \in Requests, req[r].pc \notin Resting,
           NEW status \in {"submitted", "rejected"}, NEW checked \in BOOLEAN
    PROVE  LET row == Row(r, status, checked)
           IN  /\ row \in Rows /\ row.request = r /\ row.integrator = req[r].integrator
               /\ row.nullifier = req[r].nullifier /\ row.status = status
               /\ row.checked = checked /\ row.at = now
  BY DEF Row, Rows, Named, TypeOK

(* The log only grows, by a row that the unique index allows.              *)
LEMMA LogKeeps ==
    ASSUME TypeOK, Named, IsFiniteSet(log), OneRowEach, NEW r \in Requests, Advance(r)
    PROVE  log' \subseteq Rows /\ log \subseteq log' /\ IsFiniteSet(log') /\ OneRowEach'
<1>1. CASE log' = log
  BY <1>1 DEF TypeOK, Rows, OneRowEach
<1>2. ASSUME NEW status \in {"submitted", "rejected"}, NEW checked \in BOOLEAN,
             Logs(r, status, checked), req[r].pc \notin Resting
      PROVE  log' \subseteq Rows /\ log \subseteq log' /\ IsFiniteSet(log') /\ OneRowEach'
  <2>. DEFINE row == Row(r, status, checked)
  <2>1. /\ row \in Rows /\ row.integrator = req[r].integrator
        /\ row.nullifier = req[r].nullifier
    BY <1>2, RowTyped
  <2>2. log' = log \cup {row}
    BY <1>2 DEF Logs
  <2>3. \A a \in log : ~(a.integrator = row.integrator /\ a.nullifier = row.nullifier)
    BY <1>2, <2>1 DEF Logs, AlreadyLogged
  <2>. HIDE DEF row
  <2>4. IsFiniteSet(log')
    BY <2>2, FS_AddElement
  <2>. QED BY <2>1, <2>2, <2>3, <2>4 DEF TypeOK, Rows, OneRowEach
<1>. QED BY <1>1, <1>2, AdvanceLogs DEF Resting, Status

LEMMA AdvanceKeepsTypes ==
    ASSUME TypeOK, Named, IsFiniteSet(log), OneRowEach, NEW r \in Requests, Advance(r)
    PROVE  TypeOK' /\ Named'
<1>1. req' \in [Requests -> Request] /\ log' \subseteq Rows
  BY AdvanceMoves, LogKeeps DEF Moves
<1>2. UNCHANGED <<settings, charged, verified, now, crashes>>
  BY DEF Advance, Authenticate, Refuse, RejectOffChain, CheckLimit, SubmitFails, SubmitSends,
     InsertLog, Finish, chainVars
<1>3. Named'
  BY AdvanceMoves DEF Named, Moves, Resting
<1>4. CASE SubmitSends(r)
  <2>1. TxOf(r) \in [by : Requests, integrator : Integrators, nullifier : Nullifiers]
    BY <1>4 DEF SubmitSends, TxOf, Named, Resting
  <2>2. (pending' = {TxOf(r)} \/ pending' = pending) /\ outbox' = outbox
    BY <1>4 DEF SubmitSends
  <2>. QED BY <1>1, <1>2, <1>3, <2>1, <2>2 DEF TypeOK, Rows
<1>5. CASE Finish(r)
  <2>. DEFINE hook == [submission |-> r, integrator |-> req[r].integrator,
                       nullifier |-> req[r].nullifier]
  <2>1. hook \in [submission : Requests, integrator : Integrators, nullifier : Nullifiers]
    BY <1>5 DEF Finish, Named, Resting
  <2>2. (outbox' = outbox \cup {hook} \/ outbox' = outbox) /\ pending' = pending
    BY <1>5 DEF Finish, chainVars
  <2>. QED BY <1>1, <1>2, <1>3, <2>1, <2>2 DEF TypeOK, Rows
<1>6. CASE ~SubmitSends(r) /\ ~Finish(r)
  <2>1. UNCHANGED <<outbox, pending>>
    BY <1>6 DEF Advance, Authenticate, Refuse, RejectOffChain, CheckLimit, SubmitFails,
       InsertLog, UniqueViolation, chainVars
  <2>. QED BY <1>1, <1>2, <1>3, <2>1 DEF TypeOK, Rows
<1>. QED BY <1>4, <1>5, <1>6

-----------------------------------------------------------------------------
(* Pool and burst: nothing new is counted, logged as checked or connected. *)
LEMMA FinitePool ==
    ASSUME IsFiniteSet(log), NEW i
    PROVE  /\ IsFiniteSet(InFlight) /\ Cardinality(InFlight) \in Nat
           /\ IsFiniteSet(Counted(i)) /\ Cardinality(Counted(i)) \in Nat
           /\ IsFiniteSet(Recent(i)) /\ Cardinality(Recent(i)) \in Nat
           /\ IsFiniteSet(Checked(i)) /\ Cardinality(Checked(i)) \in Nat
<1>1. IsFiniteSet(InFlight) /\ IsFiniteSet(Counted(i))
  BY FS_Subset DEF InFlight, Counted
<1>2. IsFiniteSet(Recent(i))
  BY FS_Subset DEF Recent
<1>3. IsFiniteSet(Checked(i))
  BY <1>2, FS_Subset DEF Checked
<1>. QED BY <1>1, <1>2, <1>3, FS_CardinalityType

(* The bounds on counts survive a step that adds to neither set.           *)
LEMMA Shrinks ==
    ASSUME IsFiniteSet(log), PoolHolds, BurstBound, InFlight' \subseteq InFlight,
           \A i \in Integrators : /\ Counted(i)' \subseteq Counted(i)
                                  /\ Checked(i)' \subseteq Checked(i)
    PROVE  PoolHolds' /\ BurstBound'
<1>1. PoolHolds'
  <2>1. Cardinality(InFlight') <= Cardinality(InFlight) /\ Cardinality(InFlight') \in Nat
    BY FinitePool, FS_Subset, FS_CardinalityType
  <2>. QED BY <2>1, FinitePool DEF PoolHolds
<1>2. ASSUME NEW i \in Integrators
      PROVE  Cardinality(Checked(i)') + Cardinality(Counted(i)') <= Limit + PoolSize - 1
  <2>1. /\ Cardinality(Checked(i)') <= Cardinality(Checked(i))
        /\ Cardinality(Counted(i)') <= Cardinality(Counted(i))
        /\ Cardinality(Checked(i)') \in Nat /\ Cardinality(Counted(i)') \in Nat
    BY <1>2, FinitePool, FS_Subset, FS_CardinalityType
  <2>2. Cardinality(Checked(i)) + Cardinality(Counted(i)) <= Limit + PoolSize - 1
    BY DEF BurstBound
  <2>. QED BY <2>1, <2>2, FinitePool
<1>. QED BY <1>1, <1>2 DEF BurstBound

(* The request that passes the count: its integrator's log had room, and   *)
(* those counted before it each hold a connection of the pool.             *)
LEMMA PassingKeepsBurst ==
    ASSUME TypeOK, IsFiniteSet(log), PoolHolds, BurstBound, NEW r \in Requests,
           Moves(r, {"authed"}, {"reserved"}), ~LimitReached(req[r].integrator),
           UNCHANGED <<log, now>>
    PROVE  PoolHolds' /\ BurstBound'
<1>1. InFlight' = InFlight
  BY DEF InFlight, Moves
<1>2. \A i : Checked(i)' = Checked(i)
  BY DEF Checked, Recent
<1>3. ASSUME NEW i \in Integrators
      PROVE  Cardinality(Checked(i)) + Cardinality(Counted(i)') <= Limit + PoolSize - 1
  <2>1. CASE i = req[r].integrator
    <3>1. Cardinality(Checked(i)) <= Cardinality(Recent(i))
      BY FinitePool, FS_Subset DEF Checked
    <3>2. Cardinality(Recent(i)) < Limit
      BY <2>1, FinitePool DEF LimitReached
    <3>3. Counted(i)' \subseteq InFlight
      BY DEF Counted, InFlight, Moves
    <3>4. Cardinality(Counted(i)') <= Cardinality(InFlight) /\ Cardinality(Counted(i)') \in Nat
      BY <3>3, FinitePool, FS_Subset, FS_CardinalityType
    <3>. QED BY <3>1, <3>2, <3>4, FinitePool DEF PoolHolds
  <2>2. CASE i # req[r].integrator
    <3>1. Counted(i)' = Counted(i)
      BY <2>2 DEF Counted, Moves
    <3>. QED BY <3>1 DEF BurstBound
  <2>. QED BY <2>1, <2>2
<1>. QED BY <1>1, <1>2, <1>3 DEF PoolHolds, BurstBound

(* The request that logs its checked row is counted no more.               *)
LEMMA LoggingKeepsBurst ==
    ASSUME TypeOK, Named, IsFiniteSet(log), PoolHolds, BurstBound, NEW r \in Requests,
           Moves(r, {"submitted"}, {"logged"}), Logs(r, Status(r), TRUE), now' = now
    PROVE  PoolHolds' /\ BurstBound'
<1>1. InFlight' = InFlight
  BY DEF InFlight, Moves
<1>. DEFINE row == Row(r, Status(r), TRUE)
<1>2. row.integrator = req[r].integrator /\ log' = log \cup {row}
  BY DEF Row, Logs
<1>. HIDE DEF row
<1>3. ASSUME NEW i \in Integrators
      PROVE  Cardinality(Checked(i)') + Cardinality(Counted(i)') <= Limit + PoolSize - 1
  <2>1. CASE i = req[r].integrator
    <3>1. Checked(i)' \subseteq Checked(i) \cup {row}
      BY <1>2 DEF Checked, Recent
    <3>2. /\ IsFiniteSet(Checked(i) \cup {row})
          /\ Cardinality(Checked(i) \cup {row}) <= Cardinality(Checked(i)) + 1
          /\ Cardinality(Checked(i) \cup {row}) \in Nat
      <4>1. IsFiniteSet(Checked(i)) /\ Cardinality(Checked(i)) \in Nat
        BY FinitePool
      <4>2. /\ IsFiniteSet(Checked(i) \cup {row})
            /\ \/ Cardinality(Checked(i) \cup {row}) = Cardinality(Checked(i))
               \/ Cardinality(Checked(i) \cup {row}) = Cardinality(Checked(i)) + 1
        BY <4>1, FS_AddElement
      <4>. QED BY <4>1, <4>2
    <3>3. /\ Cardinality(Checked(i)') <= Cardinality(Checked(i) \cup {row})
          /\ Cardinality(Checked(i)') \in Nat
      BY <3>1, <3>2, FS_Subset, FS_CardinalityType
    <3>4. r \in Counted(i) /\ Counted(i)' = Counted(i) \ {r}
      BY <2>1 DEF Counted, Moves
    <3>5. Cardinality(Counted(i)') = Cardinality(Counted(i)) - 1
      BY <3>4, FinitePool, FS_RemoveElement
    <3>6. Cardinality(Checked(i)) + Cardinality(Counted(i)) <= Limit + PoolSize - 1
      BY DEF BurstBound
    <3>. QED BY <3>2, <3>3, <3>5, <3>6, FinitePool
  <2>2. CASE i # req[r].integrator
    <3>1. Counted(i)' = Counted(i) /\ Checked(i)' = Checked(i)
      BY <1>2, <2>2 DEF Counted, Checked, Recent, Moves
    <3>. QED BY <3>1 DEF BurstBound
  <2>. QED BY <2>1, <2>2
<1>. QED BY <1>1, <1>3 DEF PoolHolds, BurstBound

LEMMA AdvanceKeepsBurst ==
    ASSUME TypeOK, Named, IsFiniteSet(log), PoolHolds, BurstBound,
           NEW r \in Requests, Advance(r)
    PROVE  PoolHolds' /\ BurstBound'
<1>1. now' = now
  BY DEF Advance, Authenticate, Refuse, RejectOffChain, CheckLimit, SubmitFails, SubmitSends,
     InsertLog, Finish
<1>2. ASSUME NEW from, NEW to, Moves(r, from, to), from \subseteq Steps \ Resting,
             to \cap {"unsent", "new", "reserved", "submitted"} = {}
               \/ from \cup to \subseteq {"reserved", "submitted"},
             \A i \in Integrators : Checked(i)' \subseteq Checked(i)
      PROVE  PoolHolds' /\ BurstBound'
  <2>1. InFlight' \subseteq InFlight
    BY <1>2 DEF InFlight, Moves, Steps, Resting
  <2>2. \A i \in Integrators : Counted(i)' \subseteq Counted(i)
    BY <1>2 DEF Counted, Moves
  <2>. QED BY <1>2, <2>1, <2>2, Shrinks
<1>3. ASSUME log' = log
      PROVE  \A i \in Integrators : Checked(i)' \subseteq Checked(i)
  BY <1>1, <1>3 DEF Checked, Recent
<1>4. ASSUME Moves(r, {"authed"}, {"done"}), Refuse(r) \/ RejectOffChain(r) \/ CheckLimit(r)
      PROVE  PoolHolds' /\ BurstBound'
  <2>1. log' = log \/ log' = log \cup {Row(r, "rejected", FALSE)}
    BY <1>4 DEF Refuse, RejectOffChain, CheckLimit, UniqueViolation
  <2>2. ~Row(r, "rejected", FALSE).checked
    BY DEF Row
  <2>3. \A i \in Integrators : Checked(i)' \subseteq Checked(i)
    BY <1>1, <2>1, <2>2 DEF Checked, Recent
  <2>. QED BY <1>2, <1>4, <2>3 DEF Steps, Resting
<1>5. ASSUME Moves(r, {"submitted"}, {"logged"}), InsertLog(r)
      PROVE  PoolHolds' /\ BurstBound'
  <2>1. ~UniqueViolation(r)
    BY <1>5, AnswerMoves DEF UniqueViolation, Moves, Resting, Answers
  <2>2. Logs(r, Status(r), TRUE)
    BY <1>5, <2>1 DEF InsertLog, Logs, Status
  <2>. QED BY <1>1, <1>5, <2>2, LoggingKeepsBurst
<1>. QED
  BY <1>1, <1>2, <1>3, <1>4, <1>5, AdvanceMoves, PassingKeepsBurst DEF Steps, Resting

-----------------------------------------------------------------------------
(* What was sent is accounted for: by its request's row, or by its end.    *)
Accounted(r) == \/ \E row \in log : row.request = r /\ row.status = "submitted"
                \/ req[r].pc = "submitted"
                \/ req[r].answer \in {"500", "502", "lost"}
                \/ req[r].pc = "logged" /\ ~req[r].ok

LEMMA AdvanceKeepsSpend ==
    ASSUME TypeOK, Named, IsFiniteSet(log), OneRowEach, LoggedHasRow, SentIsLate,
           SpendAccountedFor, NEW r \in Requests, Advance(r)
    PROVE  SentIsLate' /\ SpendAccountedFor' /\ LoggedHasRow'
<1>1. /\ log \subseteq log' /\ charged' = charged
      /\ \A s \in Requests : s # r => req'[s] = req[s]
  BY AdvanceMoves, LogKeeps
  DEF Moves, Advance, Authenticate, Refuse, RejectOffChain, CheckLimit, SubmitFails,
      SubmitSends, InsertLog, Finish, chainVars
<1>2. Spent' \subseteq Spent \cup {r} /\ Spent \subseteq Requests
  <2>1. pending' = pending \/ pending' = {TxOf(r)}
    BY DEF Advance, Authenticate, Refuse, RejectOffChain, CheckLimit, SubmitFails,
       SubmitSends, InsertLog, Finish, chainVars
  <2>2. TxOf(r).by = r
    BY DEF TxOf
  <2>. QED BY <1>1, <2>1, <2>2 DEF Spent, TypeOK
<1>3. r \in Spent' => req'[r].pc \in Late /\ Accounted(r)'
  <2>1. CASE ~(req[r].pc \in Late) /\ ~SubmitSends(r)
    <3>1. Spent' = Spent
      BY <2>1 DEF Spent, Advance, Authenticate, Refuse, RejectOffChain, CheckLimit,
         SubmitFails, InsertLog, Finish, chainVars
    <3>. QED BY <2>1, <3>1 DEF SentIsLate
  <2>2. CASE SubmitSends(r)
    <3>1. req'[r].pc = "submitted"
      BY <2>2 DEF SubmitSends, TypeOK, Request
    <3>. QED BY <3>1 DEF Late, Accounted
  <2>3. CASE InsertLog(r)
    <3>1. CASE UniqueViolation(r)
      BY <2>3, <3>1, AnswerMoves
      DEF UniqueViolation, InsertLog, Moves, Late, Accounted, Resting, Answers
    <3>2. CASE ~UniqueViolation(r)
      <4>1. /\ log' = log \cup {Row(r, Status(r), TRUE)}
            /\ req' = [req EXCEPT ![r].pc = "logged"]
        BY <2>3, <3>2 DEF InsertLog
      <4>2. req'[r].pc = "logged" /\ req'[r].ok = req[r].ok
        BY <4>1 DEF TypeOK, Request
      <4>3. req[r].ok => Status(r) = "submitted"
        BY DEF Status
      <4>4. Row(r, Status(r), TRUE) \in log' /\ Row(r, Status(r), TRUE).request = r
            /\ Row(r, Status(r), TRUE).status = Status(r)
        BY <4>1 DEF Row
      <4>. QED BY <4>2, <4>3, <4>4 DEF Late, Accounted
    <3>. QED BY <3>1, <3>2
  <2>4. CASE Finish(r)
    <3>1. Answer(r, IF req[r].ok THEN "200" ELSE "502") /\ req[r].pc = "logged"
          /\ UNCHANGED log
      BY <2>4 DEF Finish
    <3>2. Moves(r, Steps \ Resting, {"done"})
          /\ req'[r].answer = IF req[r].ok THEN "200" ELSE "502"
      BY <3>1, AnswerMoves DEF Resting, Answers
    <3>3. req[r].ok => \E row \in log : row.request = r /\ row.status = "submitted"
      BY <3>1 DEF LoggedHasRow, RowOf
    <3>. QED BY <3>1, <3>2, <3>3 DEF Moves, Late, Accounted
  <2>. QED
    BY <2>1, <2>2, <2>3, <2>4 DEF Advance, Late, Authenticate, Refuse, RejectOffChain,
       CheckLimit, SubmitFails
<1>4. ASSUME NEW s \in Spent', s # r
      PROVE  req'[s].pc \in Late /\ Accounted(s)'
  <2>1. s \in Spent /\ s \in Requests /\ req'[s] = req[s]
    BY <1>1, <1>2, <1>4
  <2>2. req[s].pc \in Late /\ Accounted(s)
    BY <2>1 DEF SentIsLate, SpendAccountedFor, Accounted, Spent
  <2>. QED BY <1>1, <2>1, <2>2 DEF Accounted
<1>5. SentIsLate' /\ SpendAccountedFor'
  BY <1>3, <1>4 DEF SentIsLate, SpendAccountedFor, Accounted, Spent
<1>6. LoggedHasRow'
  <2>. SUFFICES ASSUME NEW s \in Requests, req'[s].pc = "logged" PROVE RowOf(s)'
    BY DEF LoggedHasRow
  <2>1. CASE s # r
    BY <1>1, <2>1 DEF LoggedHasRow, RowOf
  <2>2. CASE s = r
    <3>1. InsertLog(r) /\ ~UniqueViolation(r)
      <4>1. InsertLog(r) /\ req[r].pc = "submitted"
        BY <2>2, AdvanceMoves DEF Moves, InsertLog
      <4>2. UniqueViolation(r) => req'[r].pc = "done"
        BY <4>1, AnswerMoves DEF Moves, UniqueViolation, Resting, Answers
      <4>. QED BY <2>2, <4>1, <4>2
    <3>2. /\ log' = log \cup {Row(r, Status(r), TRUE)} /\ req[r].pc = "submitted"
          /\ req' = [req EXCEPT ![r].pc = "logged"]
      BY <3>1 DEF InsertLog
    <3>3. /\ req'[r].integrator = req[r].integrator /\ req'[r].nullifier = req[r].nullifier
          /\ req'[r].ok = req[r].ok
      BY <3>2 DEF TypeOK, Request
    <3>. DEFINE row == Row(r, Status(r), TRUE)
    <3>4. /\ row \in log' /\ row.request = r /\ row.integrator = req[r].integrator
          /\ row.nullifier = req[r].nullifier
          /\ req[r].ok => row.status = "submitted"
      BY <3>2 DEF Row, Status
    <3>. HIDE DEF row
    <3>. QED BY <2>2, <3>3, <3>4 DEF RowOf
  <2>. QED BY <2>1, <2>2
<1>. QED BY <1>5, <1>6

-----------------------------------------------------------------------------
(* A webhook has the row of its submission; that no two are of one pair    *)
(* follows from the unique index.                                          *)
HookHasRow(w) == \E row \in log : /\ row.request = w.submission /\ row.status = "submitted"
                                  /\ row.integrator = w.integrator
                                  /\ row.nullifier = w.nullifier

LEMMA HooksOfRows ==
    ASSUME TypeOK, OneRowEach, \A w \in outbox : HookHasRow(w)
    PROVE  WebhookOncePerNullifier
<1>1. ASSUME NEW w \in outbox, NEW x \in outbox,
             w.integrator = x.integrator, w.nullifier = x.nullifier
      PROVE  w = x
  <2>1. w.submission = x.submission
    BY <1>1 DEF HookHasRow, OneRowEach
  <2>2. /\ w \in [submission : Requests, integrator : Integrators, nullifier : Nullifiers]
        /\ x \in [submission : Requests, integrator : Integrators, nullifier : Nullifiers]
    BY DEF TypeOK
  <2>. QED BY <1>1, <2>1, <2>2
<1>. QED BY <1>1 DEF WebhookOncePerNullifier, HookHasRow

LEMMA AdvanceKeepsHooks ==
    ASSUME TypeOK, Named, IsFiniteSet(log), OneRowEach, LoggedHasRow,
           WebhookOncePerNullifier, NEW r \in Requests, Advance(r)
    PROVE  WebhookOncePerNullifier'
<1>1. TypeOK' /\ OneRowEach' /\ log \subseteq log'
  BY AdvanceKeepsTypes, LogKeeps
<1>2. \A w \in outbox : HookHasRow(w)
  BY DEF WebhookOncePerNullifier, HookHasRow
<1>3. CASE Finish(r)
  <2>. DEFINE hook == [submission |-> r, integrator |-> req[r].integrator,
                       nullifier |-> req[r].nullifier]
  <2>1. /\ req[r].pc = "logged" /\ log' = log
        /\ outbox' = outbox \/ (req[r].ok /\ outbox' = outbox \cup {hook})
    BY <1>3 DEF Finish
  <2>2. req[r].ok => HookHasRow(hook)
    BY <2>1 DEF LoggedHasRow, RowOf, HookHasRow
  <2>. HIDE DEF hook
  <2>3. \A w \in outbox' : HookHasRow(w)
    BY <1>2, <2>1, <2>2
  <2>4. (\A w \in outbox : HookHasRow(w))'
    BY <2>1, <2>3 DEF HookHasRow
  <2>. QED BY <1>1, <2>4, HooksOfRows, PTL
<1>4. CASE ~Finish(r)
  <2>1. outbox' = outbox
    BY <1>4 DEF Advance, Authenticate, Refuse, RejectOffChain, CheckLimit, SubmitFails,
       SubmitSends, InsertLog, UniqueViolation
  <2>. QED BY <1>1, <2>1 DEF WebhookOncePerNullifier
<1>. QED BY <1>3, <1>4

-----------------------------------------------------------------------------
(* The invariant is inductive.                                             *)
LEMMA InitIInvRelayer == Init => IInvRelayer
<1>. SUFFICES ASSUME Init PROVE IInvRelayer
  OBVIOUS
<1>1. NewRequest \in Request /\ NewRequest.pc = "unsent" /\ NewRequest.answer = "none"
  BY DEF NewRequest, Request, Steps, Answers
<1>2. /\ req \in [Requests -> Request]
      /\ \A r \in Requests : req[r].pc = "unsent" /\ req[r].answer = "none"
  BY <1>1 DEF Init
<1>3. TypeOK /\ IsFiniteSet(log)
  BY <1>2, FS_EmptySet DEF Init, TypeOK
<1>4. Named /\ OneRowEach /\ LoggedHasRow
  BY <1>2 DEF Init, Named, OneRowEach, LoggedHasRow, Resting
<1>5. SentIsLate /\ SpendAccountedFor /\ WebhookOncePerNullifier
  BY DEF Init, SentIsLate, SpendAccountedFor, WebhookOncePerNullifier, Spent
<1>6. InFlight = {} /\ \A i : Counted(i) = {} /\ Checked(i) = {}
  BY <1>2 DEF Init, InFlight, Counted, Checked, Recent
<1>7. PoolHolds /\ BurstBound
  BY <1>6, FS_EmptySet DEF PoolHolds, BurstBound
<1>. QED BY <1>3, <1>4, <1>5, <1>7 DEF IInvRelayer

LEMMA AdvanceKeepsIInv ==
    ASSUME IInvRelayer, NEW r \in Requests, Advance(r)
    PROVE  IInvRelayer'
  BY AdvanceKeepsTypes, LogKeeps, AdvanceKeepsBurst, AdvanceKeepsSpend, AdvanceKeepsHooks
  DEF IInvRelayer

LEMMA ArriveKeepsIInv ==
    ASSUME IInvRelayer, NEW r \in Requests, NEW i \in Integrators, NEW nf \in Nullifiers,
           Arrive(r, i, nf)
    PROVE  IInvRelayer'
<1>1. /\ req[r].pc = "unsent" /\ Cardinality(InFlight) < PoolSize
      /\ req' = [req EXCEPT ![r].pc = "new", ![r].integrator = i, ![r].nullifier = nf]
      /\ UNCHANGED <<settings, log, outbox, pending, charged, verified, now, crashes>>
  BY DEF Arrive, chainVars
<1>2. /\ req' \in [Requests -> Request] /\ req'[r].pc = "new"
      /\ req'[r].integrator = i /\ req'[r].nullifier = nf
      /\ \A s \in Requests : s # r => req'[s] = req[s]
  <2>. DEFINE q == [req[r] EXCEPT !.pc = "new", !.integrator = i, !.nullifier = nf]
  <2>1. req \in [Requests -> Request] /\ req[r] \in Request
    BY DEF IInvRelayer, TypeOK
  <2>2. q \in Request /\ q.pc = "new" /\ q.integrator = i /\ q.nullifier = nf
    BY <2>1 DEF Request, Steps
  <2>3. req' = [req EXCEPT ![r] = q]
    BY <1>1, <2>1
  <2>. HIDE DEF q
  <2>. QED BY <2>1, <2>2, <2>3
<1>3. TypeOK' /\ IsFiniteSet(log') /\ OneRowEach' /\ WebhookOncePerNullifier'
  BY <1>1, <1>2 DEF IInvRelayer, TypeOK, OneRowEach, WebhookOncePerNullifier
<1>4. Named' /\ LoggedHasRow'
  <2>1. Named'
    BY <1>2 DEF IInvRelayer, Named
  <2>2. \A s \in Requests : req'[s].pc = "logged" => s # r /\ req'[s] = req[s]
    BY <1>2
  <2>3. LoggedHasRow'
    <3>. SUFFICES ASSUME NEW s \in Requests, req'[s].pc = "logged" PROVE RowOf(s)'
      BY DEF LoggedHasRow
    <3>1. req[s].pc = "logged" /\ req'[s] = req[s]
      BY <2>2
    <3>2. RowOf(s)
      BY <3>1 DEF IInvRelayer, LoggedHasRow
    <3>. QED BY <1>1, <3>1, <3>2 DEF RowOf
  <2>. QED BY <2>1, <2>3
<1>5. r \notin Spent /\ Spent' = Spent /\ Spent \subseteq Requests
  BY <1>1 DEF IInvRelayer, SentIsLate, Late, Spent, TypeOK
<1>6. SentIsLate'
  BY <1>2, <1>5 DEF IInvRelayer, SentIsLate
<1>7. SpendAccountedFor'
  BY <1>1, <1>2, <1>5 DEF IInvRelayer, SpendAccountedFor, Spent
<1>8. PoolHolds'
  <2>1. InFlight' \subseteq InFlight \cup {r}
    BY <1>2 DEF InFlight
  <2>2. IsFiniteSet(InFlight) /\ Cardinality(InFlight) \in Nat
    BY FinitePool DEF IInvRelayer
  <2>3. /\ IsFiniteSet(InFlight \cup {r})
        /\ \/ Cardinality(InFlight \cup {r}) = Cardinality(InFlight)
           \/ Cardinality(InFlight \cup {r}) = Cardinality(InFlight) + 1
    BY <2>2, FS_AddElement
  <2>4. /\ Cardinality(InFlight') <= Cardinality(InFlight \cup {r})
        /\ Cardinality(InFlight') \in Nat
    BY <2>1, <2>3, FS_Subset, FS_CardinalityType
  <2>. QED BY <1>1, <2>2, <2>3, <2>4 DEF PoolHolds
<1>9. BurstBound'
  <2>1. \A k \in Integrators : Counted(k)' = Counted(k) /\ Checked(k)' = Checked(k)
    BY <1>1, <1>2 DEF Counted, Checked, Recent
  <2>. QED BY <2>1 DEF IInvRelayer, BurstBound
<1>. QED BY <1>3, <1>4, <1>6, <1>7, <1>8, <1>9 DEF IInvRelayer

(* The dashboard, the clock and the ledger touch no request.               *)
LEMMA OthersKeepIInv ==
    ASSUME IInvRelayer,
           \/ \E i \in Integrators, setting \in Settings : UpdateSettings(i, setting)
           \/ Tick \/ LedgerIncludes
    PROVE  IInvRelayer'
<1>1. UNCHANGED <<req, log, outbox, crashes>>
  BY DEF UpdateSettings, Tick, LedgerIncludes, chainVars
<1>2. now' \in now .. MaxTime
  BY DEF UpdateSettings, Tick, LedgerIncludes, chainVars, IInvRelayer, TypeOK
<1>3. Spent' \subseteq Spent /\ Spent \subseteq Requests /\ pending' \subseteq pending
  <2>1. CASE LedgerIncludes
    <3>1. PICK tx \in pending : pending' = {} /\ charged' = charged \cup {tx.by}
      BY <2>1 DEF LedgerIncludes
    <3>. QED BY <3>1 DEF Spent, IInvRelayer, TypeOK
  <2>2. CASE UNCHANGED <<pending, charged>>
    BY <2>2 DEF Spent, IInvRelayer, TypeOK
  <2>. QED BY <2>1, <2>2 DEF UpdateSettings, Tick, chainVars
<1>4. TypeOK'
  <2>1. charged' \subseteq Requests
    BY <1>3 DEF Spent, IInvRelayer, TypeOK
  <2>2. settings' \in [Integrators -> Settings]
    BY DEF UpdateSettings, Tick, LedgerIncludes, IInvRelayer, TypeOK
  <2>3. verified' \subseteq Integrators \X Nullifiers
    BY DEF UpdateSettings, Tick, LedgerIncludes, chainVars, IInvRelayer, TypeOK
  <2>. QED BY <1>1, <1>2, <1>3, <2>1, <2>2, <2>3 DEF IInvRelayer, TypeOK
<1>5. /\ IsFiniteSet(log') /\ Named' /\ OneRowEach' /\ LoggedHasRow'
      /\ WebhookOncePerNullifier'
  BY <1>1 DEF IInvRelayer, Named, OneRowEach, LoggedHasRow, RowOf, WebhookOncePerNullifier
<1>6. SentIsLate' /\ SpendAccountedFor'
  BY <1>1, <1>3 DEF IInvRelayer, SentIsLate, SpendAccountedFor, Spent
<1>7. PoolHolds' /\ BurstBound'
  <2>1. InFlight' = InFlight
    BY <1>1 DEF InFlight
  <2>2. \A i \in Integrators : Counted(i)' = Counted(i) /\ Checked(i)' \subseteq Checked(i)
    BY <1>1, <1>2 DEF Counted, Checked, Recent, IInvRelayer, TypeOK
  <2>. QED BY <2>1, <2>2, Shrinks DEF IInvRelayer
<1>. QED BY <1>4, <1>5, <1>6, <1>7 DEF IInvRelayer

LEMMA CrashKeepsIInv ==
    ASSUME IInvRelayer, Crash
    PROVE  IInvRelayer'
<1>1. UNCHANGED <<settings, log, outbox, pending, charged, verified, now>>
  BY DEF Crash, chainVars
<1>2. ASSUME NEW r \in Requests
      PROVE  IF r \in InFlight
             THEN /\ req'[r] \in Request /\ req'[r].pc = "done" /\ req'[r].answer = "lost"
             ELSE req'[r] = req[r]
  <2>1. req[r] \in Request /\ req'[r] = IF r \in InFlight THEN Answered(req[r], "lost") ELSE req[r]
    BY DEF Crash, IInvRelayer, TypeOK
  <2>. QED BY <2>1 DEF Answered, Request, Steps, Answers
<1>3. req' \in [Requests -> Request]
  BY <1>2 DEF Crash, IInvRelayer, TypeOK
<1>4. TypeOK'
  BY <1>1, <1>3 DEF Crash, IInvRelayer, TypeOK
<1>5. IsFiniteSet(log') /\ OneRowEach' /\ WebhookOncePerNullifier'
  BY <1>1 DEF IInvRelayer, OneRowEach, WebhookOncePerNullifier
<1>6. Named' /\ LoggedHasRow'
  BY <1>1, <1>2 DEF IInvRelayer, Named, LoggedHasRow, RowOf, InFlight, Resting
<1>7. Spent' = Spent /\ Spent \subseteq Requests
  BY <1>1 DEF Spent, IInvRelayer, TypeOK
<1>8. SentIsLate'
  BY <1>2, <1>7 DEF IInvRelayer, SentIsLate, Late
<1>9. SpendAccountedFor'
  BY <1>1, <1>2, <1>7 DEF IInvRelayer, SpendAccountedFor, Spent
<1>10. PoolHolds' /\ BurstBound'
  <2>1. InFlight' \subseteq InFlight
    BY <1>2 DEF InFlight
  <2>2. \A i \in Integrators : Counted(i)' \subseteq Counted(i) /\ Checked(i)' = Checked(i)
    BY <1>1, <1>2 DEF Counted, Checked, Recent
  <2>. QED BY <2>1, <2>2, Shrinks DEF IInvRelayer
<1>. QED BY <1>4, <1>5, <1>6, <1>8, <1>9, <1>10 DEF IInvRelayer

LEMMA StutterKeepsIInv ==
    ASSUME IInvRelayer, UNCHANGED vars
    PROVE  IInvRelayer'
<1>1. UNCHANGED <<settings, req, log, outbox, pending, charged, verified, now, crashes>>
  BY DEF vars
<1>2. UNCHANGED <<InFlight, Spent>> /\ \A i : UNCHANGED <<Counted(i), Checked(i)>>
  BY <1>1 DEF InFlight, Spent, Counted, Checked, Recent
<1>. QED
  BY <1>1, <1>2 DEF IInvRelayer, TypeOK, Named, OneRowEach, LoggedHasRow, RowOf, PoolHolds,
     BurstBound, SentIsLate, SpendAccountedFor, WebhookOncePerNullifier

LEMMA StepKeepsIInv ==
    ASSUME IInvRelayer, [Next]_vars
    PROVE  IInvRelayer'
<1>1. CASE UNCHANGED vars
  BY <1>1, StutterKeepsIInv
<1>2. CASE Next
  BY <1>2, AdvanceKeepsIInv, ArriveKeepsIInv, OthersKeepIInv, CrashKeepsIInv
  DEF Next, Environment
<1>. QED BY <1>1, <1>2

(* The inductive invariant holds, through crashes and whatever the         *)
(* dashboard does.                                                         *)
THEOREM RelayerInvariant == Spec => []IInvRelayer
<1>1. IInvRelayer /\ [Next]_vars => IInvRelayer'
  BY StepKeepsIInv
<1>. QED BY <1>1, InitIInvRelayer, PTL DEF Spec

(* The types.                                                              *)
THEOREM RelayerTypes == Spec => []TypeOK
  BY RelayerInvariant, PTL DEF IInvRelayer

(* A burst overshoots the daily limit by at most the size of the pool less *)
(* one: the rows of a day and the requests past the count, together, never *)
(* exceed that bound.                                                      *)
THEOREM BurstsAreWithinPool == Spec => []BurstWithinPool
<1>1. IInvRelayer => BurstWithinPool
  <2>. SUFFICES ASSUME IInvRelayer, NEW i \in Integrators
                PROVE  Cardinality(Checked(i)) <= Limit + PoolSize - 1
    BY DEF BurstWithinPool, Checked
  <2>1. Cardinality(Checked(i)) + Cardinality(Counted(i)) <= Limit + PoolSize - 1
    BY DEF IInvRelayer, BurstBound
  <2>2. Cardinality(Checked(i)) \in Nat /\ Cardinality(Counted(i)) \in Nat
    BY FinitePool DEF IInvRelayer
  <2>. QED BY <2>1, <2>2
<1>. QED BY <1>1, RelayerInvariant, PTL

(* No fee is spent in silence.                                             *)
THEOREM SpendIsAccountedFor == Spec => []SpendAccountedFor
  BY RelayerInvariant, PTL DEF IInvRelayer

(* An integrator hears at most once of a nullifier.                        *)
THEOREM WebhooksAreOnce == Spec => []WebhookOncePerNullifier
  BY RelayerInvariant, PTL DEF IInvRelayer

-----------------------------------------------------------------------------
(* From one stage to the next.  Whatever happens, a request in flight      *)
(* stays where it is, goes on to the next stage or is answered; a step of  *)
(* its own does not leave it where it is.                                  *)
Onward(from) == CASE from = "new" -> {"authed"}
                  [] from = "authed" -> {"reserved", "done"}
                  [] from = "reserved" -> {"submitted"}
                  [] from = "submitted" -> {"logged", "done"}
                  [] from = "logged" -> {"done"}

(* A step of its own takes a request to the next stage or to its answer.   *)
LEMMA OwnStepIsOnward ==
    ASSUME IInvRelayer, NEW r \in Requests, Advance(r)
    PROVE  req[r].pc \notin Resting /\ req'[r].pc \in Onward(req[r].pc)
BY AdvanceMoves DEF IInvRelayer, Moves, Onward, Resting

(* Any other step leaves a request where it is, or a crash ends it.        *)
LEMMA AnyStepIsOnward ==
    ASSUME IInvRelayer, NEW r \in Requests, req[r].pc \notin Resting, [Next]_vars
    PROVE  req'[r].pc \in {req[r].pc, "done"} \cup Onward(req[r].pc)
<1>1. CASE \E s \in Requests : Advance(s)
  <2>1. PICK s \in Requests : Advance(s)
    BY <1>1
  <2>2. CASE s = r
    BY <2>1, <2>2, OwnStepIsOnward
  <2>3. CASE s # r
    BY <2>1, <2>3, AdvanceMoves DEF IInvRelayer, Moves
  <2>. QED BY <2>2, <2>3
<1>2. CASE \E s \in Requests, i \in Integrators, nf \in Nullifiers : Arrive(s, i, nf)
  <2>1. PICK s \in Requests, i \in Integrators, nf \in Nullifiers : Arrive(s, i, nf)
    BY <1>2
  <2>2. s # r
    BY <2>1 DEF Arrive, Resting
  <2>. QED BY <2>1, <2>2 DEF Arrive, IInvRelayer, TypeOK
<1>3. CASE Crash
  <2>1. req'[r] = IF r \in InFlight THEN Answered(req[r], "lost") ELSE req[r]
    BY <1>3 DEF Crash
  <2>2. req[r] \in Request
    BY DEF IInvRelayer, TypeOK
  <2>. QED BY <2>1, <2>2 DEF Answered, Request
<1>4. CASE UNCHANGED req
  BY <1>4
<1>. QED BY <1>1, <1>2, <1>3, <1>4
         DEF Next, Environment, UpdateSettings, LedgerIncludes, Tick, vars

(* A request is answered, whatever the others, the dashboard, the ledgers  *)
(* and crashes do.  That a request in flight always has a step is a fact   *)
(* about ENABLED, which enters as a hypothesis.                            *)
LEMMA RequestIsAnswered ==
    ASSUME NEW r \in Requests
    PROVE  Spec /\ []AdvanceEnabled /\ Proceeds(r) => (req[r].pc = "new" ~> req[r].pc = "done")
<1>. DEFINE New == req[r].pc = "new"
            Authed == req[r].pc = "authed"
            Reserved == req[r].pc = "reserved"
            Submitted == req[r].pc = "submitted"
            Logged == req[r].pc = "logged"
            Done == req[r].pc = "done"
<1>1. IInvRelayer /\ [Next]_vars =>
        /\ New => New' \/ Authed' \/ Done'
        /\ Authed => Authed' \/ Reserved' \/ Done'
        /\ Reserved => Reserved' \/ Submitted' \/ Done'
        /\ Submitted => Submitted' \/ Logged' \/ Done'
        /\ Logged => Logged' \/ Done'
  BY AnyStepIsOnward DEF Onward, Resting
<1>2. IInvRelayer /\ <<Advance(r)>>_vars =>
        /\ New => Authed'
        /\ Authed => Reserved' \/ Done'
        /\ Reserved => Submitted'
        /\ Submitted => Logged' \/ Done'
        /\ Logged => Done'
  BY OwnStepIsOnward DEF Onward
<1>3. AdvanceEnabled =>
        (New \/ Authed \/ Reserved \/ Submitted \/ Logged => ENABLED <<Advance(r)>>_vars)
  BY DEF AdvanceEnabled, InFlight
<1>4. Spec => [][Next]_vars
  BY DEF Spec
<1>5. (New <=> req[r].pc = "new") /\ (Done <=> req[r].pc = "done")
  OBVIOUS
<1>. HIDE DEF New, Authed, Reserved, Submitted, Logged, Done
<1>6. Spec /\ []AdvanceEnabled /\ Proceeds(r) => (New ~> Done)
  BY <1>1, <1>2, <1>3, <1>4, RelayerInvariant, PTL DEF Proceeds
<1>. QED BY <1>5, <1>6, PTL

(* No request waits for ever: holding one connection to the end, from a    *)
(* pool of any size, leaves nobody without the answer.                     *)
THEOREM RequestsAreAnswered == FairSpec /\ []AdvanceEnabled => EveryRequestAnswered
<1>1. ASSUME NEW r \in Requests
      PROVE  FairSpec /\ []AdvanceEnabled => (req[r].pc = "new" ~> req[r].pc = "done")
  <2>1. FairSpec => Spec /\ Proceeds(r)
    BY DEF FairSpec
  <2>. QED BY <2>1, RequestIsAnswered, PTL
<1>. QED BY <1>1 DEF EveryRequestAnswered

-----------------------------------------------------------------------------
(* With one connection the limit is exact: the race between count and      *)
(* insert is the only way past it.                                         *)
LimitIsExact == \A i \in Integrators : Cardinality(Checked(i)) <= Limit

(* A pool of one connection makes the daily limit exact, so the limit is   *)
(* exceeded only by requests that overlap.                                 *)
THEOREM OneConnectionOneLimit ==
    ASSUME PoolSize = 1
    PROVE  Spec => []LimitIsExact
<1>1. BurstWithinPool => LimitIsExact
  BY DEF BurstWithinPool, LimitIsExact, Checked
<1>. QED BY <1>1, BurstsAreWithinPool, PTL

(* As long as the encoder of the public signals is a stub, no transaction  *)
(* is ever sent or paid for, no webhook enqueued, and nobody answered 200. *)
NothingEverSent ==
    /\ pending = {} /\ charged = {} /\ outbox = {}
    /\ \A r \in Requests : ~req[r].ok /\ req[r].answer # "200"

(* As the code stands, with the encoder of the public signals a stub, the  *)
(* relayer neither sends, nor pays, nor enqueues, nor answers 200.         *)
THEOREM StubSendsNothing ==
    ASSUME EncoderReady = FALSE
    PROVE  Spec => []NothingEverSent
<1>1. Init => NothingEverSent
  BY DEF Init, NothingEverSent, NewRequest
<1>2. IInvRelayer /\ NothingEverSent /\ [Next]_vars => NothingEverSent'
  <2>. SUFFICES ASSUME IInvRelayer, NothingEverSent, [Next]_vars
                PROVE  NothingEverSent'
    OBVIOUS
  <2>. USE DEF IInvRelayer, TypeOK, NothingEverSent
  <2>1. ASSUME NEW r \in Requests, NEW code \in Answers \ {"200"}, Answer(r, code)
        PROVE  \A s \in Requests : ~req'[s].ok /\ req'[s].answer # "200"
    BY <2>1 DEF Answer, Answered, Request
  <2>2. ASSUME NEW r \in Requests, Advance(r)
        PROVE  NothingEverSent'
    <3>1. CASE Authenticate(r)
      BY <3>1 DEF Authenticate, chainVars, Request
    <3>2. CASE Refuse(r) \/ RejectOffChain(r)
      BY <2>1, <3>2 DEF Refuse, RejectOffChain, UniqueViolation, Answers, chainVars
    <3>3. CASE CheckLimit(r)
      BY <2>1, <3>3 DEF CheckLimit, Answers, chainVars, Request
    <3>4. CASE SubmitFails(r) \/ SubmitSends(r)
      BY <3>4 DEF SubmitFails, SubmitSends, chainVars, Request
    <3>5. CASE InsertLog(r)
      <4>1. UNCHANGED <<pending, charged, outbox>>
        BY <3>5 DEF InsertLog, UniqueViolation, chainVars
      <4>2. CASE UniqueViolation(r)
        BY <2>1, <4>1, <4>2 DEF UniqueViolation, Answers
      <4>3. CASE ~UniqueViolation(r)
        <5>1. req' = [req EXCEPT ![r].pc = "logged"]
          BY <3>5, <4>3 DEF InsertLog
        <5>. QED BY <4>1, <5>1 DEF Request
      <4>. QED BY <4>2, <4>3
    <3>6. CASE Finish(r)
      BY <2>1, <3>6 DEF Finish, Answers, chainVars
    <3>. QED BY <2>2, <3>1, <3>2, <3>3, <3>4, <3>5, <3>6 DEF Advance
  <2>3. ASSUME NEW r \in Requests, NEW i \in Integrators, NEW nf \in Nullifiers,
               Arrive(r, i, nf)
        PROVE  NothingEverSent'
    BY <2>3 DEF Arrive, chainVars, Request
  <2>4. CASE Crash
    <3>1. UNCHANGED <<pending, charged, outbox>>
      BY <2>4 DEF Crash, chainVars
    <3>2. ASSUME NEW s \in Requests
          PROVE  ~req'[s].ok /\ req'[s].answer # "200"
      <4>1. /\ req'[s] = IF s \in InFlight THEN Answered(req[s], "lost") ELSE req[s]
            /\ req[s] \in Request
        BY <2>4 DEF Crash
      <4>. QED BY <4>1 DEF Answered, Request
    <3>. QED BY <3>1, <3>2
  <2>5. CASE UNCHANGED <<req, outbox>> /\ UNCHANGED <<pending, charged>>
    BY <2>5
  <2>. QED BY <2>2, <2>3, <2>4, <2>5
           DEF Next, Environment, UpdateSettings, LedgerIncludes, Tick, vars, chainVars
<1>. QED BY <1>1, <1>2, RelayerInvariant, PTL DEF Spec
=============================================================================
